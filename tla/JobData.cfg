SPECIFICATION DataSpec
CONSTANTS
  q = q
  r = r
  Blank = Blank
  Key <- MCKey
  Streams <- MCStreams
  MaxHit = 1
  Missing = Missing
  Text = Text
  Json = Json
INVARIANTS
  DataTypeOK
  InputsGiven
  OutputsInTurn
  ReadsEarlier
  CallsBounded
\* The task is closed, or the process has ended.
CHECK_DEADLOCK FALSE
