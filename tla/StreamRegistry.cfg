SPECIFICATION RegSpec
CONSTANTS
  Request = {r1, r2}
  Client = {c1}
  Name <- MCName
  Lower <- MCLower
  MaxId = 4
  None = None
  Old = Old
SYMMETRY Alike
INVARIANTS
  RegTypeOK
  SerialAgrees
  MadeAsChecked
\* Every request and every client comes to its end.
CHECK_DEADLOCK FALSE
