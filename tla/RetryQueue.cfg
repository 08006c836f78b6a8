SPECIFICATION MCSpec
CONSTANTS
  t1 = t1
  t2 = t2
  t3 = t3
  NoTask = NoTask
  Task <- MCTask
  BaseLevel <- MCBaseLevel
  MaxSize = 2
  SideCap = 1
  HitBoost = 1
  Hits = {0, 1}
INVARIANTS
  QueueTypeOK
  OnePlace
  ClaimsBacked
PROPERTIES
  KeepsTasks
  RewoundReturns
  ReaderEnds
\* The queue stops once it is closed or the process has panicked.
CHECK_DEADLOCK FALSE
