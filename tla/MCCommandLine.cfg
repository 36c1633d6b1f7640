SPECIFICATION CliSpec
CONSTANTS
  x = x
  y = y
  ln = ln
  txt = txt
  nf = nf
  direct = direct
  linked = linked
  Programs <- MCPrograms
  Plain = {txt}
  Links = {ln}
  TargetOf <- MCTargetOf
  NoFile = nf
  Names <- MCNames
  PathHits <- MCPathHits
  q1 = q1
  ProcIds = {q1}
  MaxCommands = 1
  MaxWorld = 1
CHECK_DEADLOCK FALSE
INVARIANTS
  RuleNamesProgram
