SPECIFICATION Spec
CONSTANTS
  Callers = {c1, c2}
  DegradedThreshold = 2
INVARIANT
  NoZombieLoop
