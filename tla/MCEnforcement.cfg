SPECIFICATION Spec
CONSTANTS
  f1 = f1
  f3 = f3
  e1 = e1
  e2 = e2
  c1 = c1
  c2 = c2
  Clients <- MCClients
  Startup = Startup
  Exes <- MCExes
  Flows <- MCTwoFlows
  Owner <- MCTwoOwners
  Mates <- MCMates
  Tcp <- MCTwoFlows
  Conntrack = FALSE
  Unknown = Unknown
  MaxChanges = 2
  MaxMisses = 1
  MaxFaults = 1
SYMMETRY MCSymmetry
CHECK_DEADLOCK FALSE
INVARIANTS
  TypeOK
  AckedBlockHolds
  PauseLetsThrough
  OnlyBlockedSuffer
  TrackedFlowsAreKilled
  SavedBlocksReachOldFlows
