SPECIFICATION Spec
CONSTANTS
  c1 = c1
  c2 = c2
  e1 = e1
  e2 = e2
  Clients <- MCOneClient
  Reaper = Reaper
  Main = Main
  Nobody = Nobody
  Exes <- MCExes
  Inputs <- MCInputsNoPersist
  Never = Never
  U64Span = 32
  DurationMax = 12
  DateMax = 8
  MaxTime = 1
  MaxId = 2
  MaxFaults = 0
  MaxCrashes = 1
PROPERTIES
  NonPersistentEndsWithDaemon
