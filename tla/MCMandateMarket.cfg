SPECIFICATION MCSpec
CONSTANTS
  Mandates = {"m1", "m2", "m3"}
  Traces = {"t1", "t2"}
  OwnerOf <- MCOwnerOf
  PriceOf <- MCPriceOf
  BudgetOf <- MCBudgetOf
  UnitsOf <- MCUnitsOf
  NeedsEvidence = {"m3"}
  Exclusive = {"m2"}
  Cases <- MCCases
  MAX_ATTEMPTS = 2
  MAX_VERSION = 2
  MAX_QUEUE = 2
  MAX_RESERVATIONS = 1
  Policies = {"p1", "p2"}
  Codes = {"c1"}
  Calls <- MCCalls
  Recordings = {1, 2}
  Passes = {"w1", "w2"}
  PAGE = 1
  MAX_DEVICES = 2
  Settings <- MCSettings
  MAX_VERSION_OF = 2
INVARIANTS
  SalesMatchTheLedger
  LicensedReleasesAreKept
  MatchesAreQueued
  StoppedConsentSellsNothing
  ConnectionsAreSingle
PROPERTIES
  QueuedWorkIsDone
  RecordingsAreOffered
CHECK_DEADLOCK FALSE
