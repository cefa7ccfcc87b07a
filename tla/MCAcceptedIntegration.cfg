SPECIFICATION FairSpec
CONSTANTS
  MaxChanges = 3
  MaxFailures = 3
INVARIANTS
  DoneImpliesIntegrated
PROPERTIES
  RootedAtIntent
  IntentKeptUntilDone
  IntegrationSettles
CHECK_DEADLOCK FALSE
