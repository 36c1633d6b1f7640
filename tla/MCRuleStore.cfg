SPECIFICATION Spec
CONSTANTS
  c1 = c1
  c2 = c2
  e1 = e1
  e2 = e2
  Clients <- MCClients
  Reaper = Reaper
  Main = Main
  Nobody = Nobody
  Exes <- MCExes
  Inputs <- MCInputs
  Never = Never
  U64Span = 32
  DurationMax = 12
  DateMax = 8
  MaxTime = 1
  MaxId = 2
  MaxFaults = 1
  MaxCrashes = 1
SYMMETRY MCSymmetry
INVARIANTS
  TypeOK
  OneRulePerTarget
  RestartRestoresTheRules
  EveryRuleAnnounced
PROPERTIES
  IdsAreNeverReused
  ImplementsBlockList
