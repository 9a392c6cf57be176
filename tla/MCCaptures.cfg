SPECIFICATION MCSpec
CONSTANTS
  Runs <- MCRuns
  Requests <- MCRequests
  WORKER = "worker"
  MAX_ATTEMPTS = 2
  Workers <- MCWorkers
  Owners <- MCOwners
  KeyOf <- MCKeyOf
  LastVersion = 4
  ContentOf <- MCContentOf
  Evaluation <- MCEvaluation
  QC_ATTEMPT_LIMIT = 2
  MAX_RETRIES = 1
  TRIES = 3
  MAX_CRASHES = 1
  MAX_LAPSES = 1
  MAX_FAULTS = 1
  MAX_ENDINGS = 1
INVARIANTS
  ObjectsStayAndAreTracked
  ViewsShowTheirRoot
  ReportsAreCurrent
PROPERTIES
  CaptureWorkEnds
CHECK_DEADLOCK FALSE
