SPECIFICATION Spec
CONSTANTS
  Calls = {c1, c2}
  NoCall = NoCall
  Ids = {i1, i2}
  Bodies = {retry, drop}
  Drops = {drop}
  NoBody = NoBody
  MaxStarts = 3
SYMMETRY Symmetry
INVARIANTS
  OneOwnerWork
  AckedHasReceipt
  AckedDropDone
  DispatchedAtMostOnce
  NobodyStrandedByShutdown
PROPERTIES
  CancelledNeverAdmitted
  NoAdmissionAfterIpcDrain
CHECK_DEADLOCK FALSE
