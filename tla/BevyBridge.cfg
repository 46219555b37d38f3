SPECIFICATION FairSpec
CONSTANTS
  MaxCommands = 2
  Sessions = {s1}
  Lists <- MCLists
  Capacities = {1}
  MaxUpdates = 1
CHECK_DEADLOCK FALSE
INVARIANTS
  ExitAfterShutdown
  ReportsAreTrue
  ClientBeforeEvents
PROPERTY
  CommandsAreReported
