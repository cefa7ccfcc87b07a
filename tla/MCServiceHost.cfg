CONSTANTS
  Instances <- MCInstances
  Clients = {c1, c2}
  Signal = Signal
  None = None
  Hostings = {"direct", "internal", "external"}
  MaxLoad = 4
SPECIFICATION Spec
INVARIANT EndpointIsHolders
INVARIANT ToldIsTrue
INVARIANT GracefulStopReported
PROPERTY WaitsEnd
CHECK_DEADLOCK FALSE
