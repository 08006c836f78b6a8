SPECIFICATION ContextSpec
CONSTANTS
  Procs = {p1, p2}
  Contexts = {local, other}
  Local = local
  None = none
  Cut = cut
  Torn = torn
  Whole = whole
  Default = default
  MaxCommands = 4
SYMMETRY Terminals
INVARIANTS
  ContextTypeOK
  NeverDies
PROPERTIES
  CurrentKept
CHECK_DEADLOCK FALSE
