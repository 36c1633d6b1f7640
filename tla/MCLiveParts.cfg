SPECIFICATION PartsSpec
CONSTANTS
  f1 = f1
  f2 = f2
  e1 = e1
  c1 = c1
  Clients = {c1}
  Startup = Startup
  Exes <- MCExes
  Flows <- MCFlows
  Owner <- MCOwners
  Mates <- MCNoMates
  Tcp <- MCTcp
  Conntrack = FALSE
  Unknown = Unknown
  MaxChanges = 1
  MaxMisses = 0
  MaxFaults = 1
  d1 = d1
  Service = Service
  Nobody = Nobody
  Daemons <- MCDaemons
  MaxFailures = 2
  MaxRuns = 3
  MaxActs = 2
  MaxDowns = 1
CHECK_DEADLOCK FALSE
INVARIANTS
  AloneIsInControl
PROPERTIES
  PacketsAreDecided
  AddRuleIsAnswered
  StopLeavesOnlyWhatFailed
  ServiceComesBack
  WidgetsSettle
  CommandsAreTaken
