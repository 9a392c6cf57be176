SPECIFICATION RetentionSpec
CONSTANTS
  l1 = l1
  s1 = s1
  s2 = s2
  Workers = {w1}
  Listings = {l1}
  Streamed = {}
  Sampling = {}
  Sales = {s1, s2}
  Direct = {s2}
  ListingOf <- OneListing
  MaxUses = 1
  None = None
INVARIANTS
  FundedCopiesOutliveTheSource
CHECK_DEADLOCK FALSE
