SPECIFICATION SessionSpec
CONSTANTS
  k1 = k1
  k2 = k2
  e1 = e1
  Keys <- MCKeys
  Executables <- MCExecutables
  NoExe = NoExe
  MaxConns = 2
  ChanCap = 2
  WireCap = 1
  MaxChanges = 3
  MaxBytes = 1
  MaxDrops = 0
CHECK_DEADLOCK FALSE
INVARIANTS
  SwitchNamesDaemonRule
