SPECIFICATION WireSpec
CONSTANTS
  Bodies <- MCBodies
  MaxLines = 3
  MaxConnections = 2
  MAX <- MCMAX
  Doubles <- MCDoubles
  Precise <- MCPrecise
  Grain <- MCGrain
  Round <- MCRound
CHECK_DEADLOCK FALSE
INVARIANTS
  UpdatesAreExact
  ObjectIsKept
