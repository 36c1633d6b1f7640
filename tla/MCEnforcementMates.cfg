SPECIFICATION Spec
CONSTANTS
  f1 = f1
  f3 = f3
  e1 = e1
  e2 = e2
  c1 = c1
  c2 = c2
  Clients <- MCOneClient
  Startup = Startup
  Exes <- MCExes
  Flows <- MCTwoFlows
  Owner <- MCTwoOwners
  Mates <- MCMates
  Tcp <- MCTwoFlows
  Conntrack = TRUE
  Unknown = Unknown
  MaxChanges = 1
  MaxMisses = 1
  MaxFaults = 0
CHECK_DEADLOCK FALSE
INVARIANTS
  OwnersRuleDecides
