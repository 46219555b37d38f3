SPECIFICATION FairSpec
CONSTANTS
  Main = main
  Conns = {c1, c2, c3}
  Lists <- MCLists
  Capacities = {1, 2}
CHECK_DEADLOCK FALSE
INVARIANTS
  NoGhosts
  AdmittedAreRegistered
  ReadyMeansListening
PROPERTY
  StopsOnSignal
