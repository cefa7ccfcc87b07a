SPECIFICATION Spec
CONSTANTS
  Conns = {c1}
  MaxExecs = 2
  MaxEvents = 2
  MaxStarts = 2
  MaxIncidents = 2
CHECK_DEADLOCK FALSE
INVARIANT RetiredOnlyWhenEmpty
