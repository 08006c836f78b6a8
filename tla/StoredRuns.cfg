SPECIFICATION RegSpec
CONSTANTS
  Request = {r1}
  Client = {}
  Name <- MCName
  Lower <- MCLower
  MaxId = 3
  None = None
  Old = Old
INVARIANT StoredRuns
CHECK_DEADLOCK FALSE
