SPECIFICATION FairSpec
CONSTANTS
  Workers = {1, 2}
  Sales = {1, 2}
  Listings <- MCListings
  ContentOf <- MCContentOf
  SellerOf <- MCSellerOf
  Scenarios <- MCScenarios
  PAGE = 1
  DONE_PAGE = 1
INVARIANTS
  FundedContentIsHeld
  CompleteJobsAreOver
PROPERTIES
  FundedSalesArePaidOut
CHECK_DEADLOCK FALSE
