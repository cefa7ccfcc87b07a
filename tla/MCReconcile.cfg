SPECIFICATION Spec
CONSTANTS
  Commits <- MCCommits
  First <- MCFirst
  MaxMoves = 3
  MaxFaults = 2
  MaxCommands = 2
INVARIANT CheckpointHeld
INVARIANT ResolvedIsExact
PROPERTY AdoptsOnlyRecorded
PROPERTY BranchNeverClobbered
PROPERTY InterruptedEnds
CHECK_DEADLOCK FALSE
