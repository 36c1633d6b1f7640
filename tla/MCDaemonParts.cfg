SPECIFICATION PartsSpec
CONSTANTS
  k1 = k1
  k2 = k2
  Keys <- MCKeys
  Executables <- MCExecutables
  NoExe = NoExe
  MaxConns = 1
  ChanCap = 2
  WireCap = 1
  MaxChanges = 3
  MaxBytes = 1
  MaxDrops = 1
  Pairs <- MCKeys
  Window = 2
  MaxTime = 5
  MaxBlocks = 4
  e1 = e1
  b1 = b1
  b2 = b2
  i1 = i1
  i2 = i2
  p1 = p1
  NumPids = 2
  Binaries <- MCBinaries
  Inodes <- MCInodes
  Ports <- MCPorts
  Port <- MCPort
  Worker = Worker
  Poll = Poll
  Callers = {Worker, Poll}
  None = None
  Absent = Absent
  MaxEvents = 3
  Requests = {r1}
  PollTask = PollTask
  ScanTask = ScanTask
  ReapTask = ReapTask
  x = x
  y = y
  ln = ln
  txt = txt
  nf = nf
  direct = direct
  linked = linked
  other = other
  Programs <- MCPrograms
  Plain = {txt}
  Links = {ln}
  TargetOf <- MCTargetOf
  NoFile = nf
  Names <- MCNames
  PathHits <- MCPathHits
  q1 = q1
  q2 = q2
  ProcIds <- MCProcIds
  MaxCommands = 1
  MaxWorld = 2
  Indexes = {1, 2}
  NameOf <- MCNameOf
  NoIndex = 0
  NoName = "-"
  MaxNetChanges = 2
  Ports16 = {80, 443}
  HeaderWords = {4, 5, 6, 15}
  Bytes = {5, 7}
  Nil = Nil
  MaxLines = 2
  Items = {1, 2, 3}
  GroupsOf <- MCGroupsOf
  Traffic = {0, 1}
  Label <- MCLabel
  w1 = w1
  w2 = w2
  w3 = w3
  Widgets <- MCWidgets
SYMMETRY MCSymmetry
CHECK_DEADLOCK FALSE
INVARIANTS
  QuietViewAgrees
  SwitchesFollowRules
  EvictionOrderIsSound
  BlocksAreAccountedFor
  AnswersWereTrue
  OwnerIsFound
  NoDeadlock
  SuccessMeansDone
  
  ReadersAreExact
  ListsShowTheState
PROPERTIES
  LinesAreApart
  ExeIsRecent
