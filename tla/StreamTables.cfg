SPECIFICATION MCTablesSpec
CONSTANTS
  Request = {r1, r2, r3}
  Client = {}
  Name <- MCName
  Lower <- MCLower
  MaxId = 5
  None = None
  Old = Old
INVARIANTS
  WholeStreams
  HandleAtHome
PROPERTIES
  FollowsStore
  RequestEnds
\* Every request comes to its end.
CHECK_DEADLOCK FALSE
