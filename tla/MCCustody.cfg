SPECIFICATION MCSpec
CONSTANTS
  People = {p1}
  Nobody = Nobody
  Governor = Governor
  Owners = {p1}
  FirstOperator = p1
  Shared = FALSE
  RESERVE = 6
  Supply = 8
  MaxCampaigns = 2
  Acquisitions = {a1, a2}
  Budgets = {2, 4}
  Upfronts = {1}
  Durations = {2}
  Grosses = {2}
  MaxTime = 3
  x1 = x1
  x2 = x2
  x3 = x3
  u1 = u1
  op = op
  Objects = {x1, x2, x3}
  Journal = {x3}
  OwnerOf <- MCOwnerOf
  Size <- MCSize
  Limits <- MCLimits
  Allowances <- MCAllowances
  Calls = {1, 2, 3}
  l1 = l1
  s1 = s1
  s2 = s2
  Workers = {w1}
  Listings = {l1}
  Streamed = {}
  Sampling = {l1}
  Sales = {s1, s2}
  Direct = {s2}
  ListingOf <- OneListing
  MaxUses = 1
  None = None
CONSTRAINT DirectAlone
INVARIANTS
  StoredIsCharged
  UsageIsTheSum
  PaidReleaseIsKept
PROPERTIES
  SpendingIsAuthorized
  DeletedSourcesLeaveNoCopy
CHECK_DEADLOCK FALSE
