SPECIFICATION Spec
CONSTANTS
  Conns = {c1}
  MaxExecs = 2
  MaxEvents = 2
  MaxStarts = 2
  MaxIncidents = 2
INVARIANT IdleLeavesNoWorker
INVARIANT ClaimIsWhole
PROPERTY WorkersNeverOverlap
PROPERTY AbortEnds
PROPERTY OnlySelfDeadlock
CHECK_DEADLOCK FALSE
