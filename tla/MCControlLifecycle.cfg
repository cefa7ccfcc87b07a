SPECIFICATION FairSpec
CONSTANTS
  MaxChanges = 2
  MaxFailures = 2
PROPERTIES
  RecordedOnce
  NothingDiscarded
  LifecycleSettles
CHECK_DEADLOCK FALSE
