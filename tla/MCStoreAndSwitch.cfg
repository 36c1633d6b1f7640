SPECIFICATION PartsSpec
CONSTANTS
  c1 = c1
  c2 = c2
  e1 = e1
  Clients = {c1}
  Reaper = Reaper
  Main = Main
  Nobody = Nobody
  Exes <- MCExes
  Inputs <- MCInputs
  Never = Never
  U64Span = 32
  DurationMax = 12
  DateMax = 8
  MaxTime = 1
  MaxId = 2
  MaxFaults = 1
  MaxCrashes = 1
  Connections = {c1, c2}
  MaxToggles = 3
  MaxFailures = 1
  MaxStarts = 2
CHECK_DEADLOCK FALSE
INVARIANTS
  SwitchTypeOK
  SerialTogglesAgree
PROPERTIES
  ExpiredRulesAreReaped
  OperationsEnd
  FreshStartHasOneRule
  ShutdownIsFinal
  TogglesTakeEffect
  ShutdownEnds
