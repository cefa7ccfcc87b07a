SPECIFICATION Spec
CONSTANTS
  MaxExecs = 2
  MaxChanges = 1
  MaxCrashes = 1
  MaxRequests = 2
INVARIANTS
  LiveWorkerIsRecorded
  NoExecutionForgotten
  NoSilentRerun
PROPERTIES
  WorkerStartsOnce
  ReportIsTrue
CHECK_DEADLOCK FALSE
