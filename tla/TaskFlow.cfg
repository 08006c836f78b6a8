SPECIFICATION LiveFlowSpec
CONSTANTS
  t1 = t1
  t2 = t2
  NoTask = NoTask
  Task <- Two
  Worker = {w1, w2}
  BaseLevel <- MCEqual
  Stages <- MCStages
  Hits <- MCHits
  MaxHit = 1
  MaxSize = 1
  SideCap = 1
  HitBoost = 0
INVARIANTS
  FlowTypeOK
  SingleOwner
  NoLoss
  ResumePoint
  ClosedForCause
PROPERTIES
  KeepsPromise
  EventuallyClosed
\* The system stops once everything is closed or the process has panicked.
CHECK_DEADLOCK FALSE
