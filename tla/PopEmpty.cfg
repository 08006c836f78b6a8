SPECIFICATION FlowSpec
CONSTANTS
  t1 = t1
  t2 = t2
  NoTask = NoTask
  Task <- Two
  Worker = {w1, w2}
  BaseLevel <- MCLevel
  Stages <- MCStages
  Hits <- MCHits
  MaxHit = 1
  MaxSize = 1
  SideCap = 1
  HitBoost = 1
INVARIANT
  PopFindsTask
CHECK_DEADLOCK FALSE
