SPECIFICATION Spec
CONSTANTS
  MaxExecs = 3
  MaxMoves = 2
  MaxFaults = 2
  MaxCommands = 2
INVARIANT NothingLost
PROPERTY DroppedStaysOut
PROPERTY GivenUpEnds
CHECK_DEADLOCK FALSE
