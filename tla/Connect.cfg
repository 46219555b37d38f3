SPECIFICATION Spec
CONSTANTS
  InitialBackoff = 5
  MaxBackoff = 12
  ConnectTimeout = 70
  RequestTimeout = 6
  LatestUp = 80
CHECK_DEADLOCK FALSE
INVARIANTS
  ReturnsInTime
  FindsRuntime
  ConnectedMeansReached
