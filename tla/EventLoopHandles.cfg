SPECIFICATION FairSpec
CONSTANTS
  Callers = {c1, c2}
  DegradedThreshold = 2
INVARIANTS
  OneRequestPerOpening
  PingsDoNotPileUp
  OneAlarmPerOutage
  ClosedStaysQuiet
PROPERTIES
  ShutdownCompletes
