SPECIFICATION FairSpec
CONSTANTS
  Callers = {c1, c2}
  DegradedThreshold = 2
INVARIANTS
  OneShutdownRequest
  NoUncancellableLoop
  ReadyIsEarned
  OneAlarmPerOutage
  ClosedForGood
PROPERTIES
  StateOnlyAdvances
  ShutdownCompletes
  CallsReturn
  ImplementsHandle
