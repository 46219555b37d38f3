SPECIFICATION Spec
CONSTANTS
  Callers = {c1, c2}
  Tasks = {t1}
  Sessions = {s1, s2}
  Capacities = {1, 2}
  MaxSteps = 3
  Faulty = TRUE
SYMMETRY PlayerSymmetry
CHECK_DEADLOCK FALSE
INVARIANTS
  CacheWasHeld
  OutcomeMatchesEffect
  FreshAtRest
PROPERTY
  ImplementsRegistry
