SPECIFICATION LiveClientSpec
CONSTANTS
  Jobs = 2
  Nothing = nothing
  MaxWire = 3
INVARIANTS
  DoneIsFinal
PROPERTIES
  ClientsLeave
CHECK_DEADLOCK FALSE
