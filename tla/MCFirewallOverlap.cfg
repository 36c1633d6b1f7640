SPECIFICATION SwitchSpec
CONSTANTS
  c1 = c1
  c2 = c2
  Connections <- MCConnections
  MaxToggles = 2
  MaxFailures = 0
  MaxStarts = 1
CHECK_DEADLOCK FALSE
INVARIANTS
  UnpausedMeansQueued
