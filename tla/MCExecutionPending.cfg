SPECIFICATION Spec
CONSTANTS
  MaxExecs = 2
  MaxChanges = 0
  MaxCrashes = 1
  MaxRequests = 0
PROPERTY PendingKeepsWorkspace
CHECK_DEADLOCK FALSE
