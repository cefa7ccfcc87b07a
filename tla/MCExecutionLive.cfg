SPECIFICATION FairSpec
CONSTANTS
  MaxExecs = 2
  MaxChanges = 0
  MaxCrashes = 1
  MaxRequests = 1
PROPERTY PublicationEnds
CHECK_DEADLOCK FALSE
