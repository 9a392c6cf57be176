SPECIFICATION MCSpec
CONSTANTS
  Owners = {o1, o2}
  BPS = 10
  MAX_ACTIVE_POSITIONS = 2
  MIN_DURATION = 1
  MAX_DURATION = 2
  MAX_TERMS = 2
  MaxCampaigns = 1
  MaxPositions = 3
  Menus <- DearAndCheap
  Caps = {9}
  Budgets = {3, 6}
  Amounts = {3, 4}
  Times = {1, 3}
  MaxTime = 4
  MaxFunds = 12
  Requests = {"q1", "q2"}
  Failing = {"q1"}
  Lapsing = {"q1"}
  Costs = {1}
  CREDIT = 4
  RESERVATION = 2
  DAILY_BUDGET = 4
  ACTIVE_LIMIT = 2
  Submitters = {"o1"}
  Reviewers = {"o1", "o2"}
  Invoices = {"i1", "i2"}
  MAX_EVIDENCE = 2
INVARIANTS
  PoolIsSolvent
  MaturedAreClaimable
  ChargesAreHeld
  InvoicesCoverChargesOnce
  TextsLastUntilUnwanted
PROPERTIES
  RequestsEnd
CHECK_DEADLOCK FALSE
