---------------------------- MODULE MCRetryQueue ----------------------------
(* RetryQueue on a few tasks, for TLC. *)
EXTENDS RetryQueue

CONSTANTS t1, t2, t3

MCTask == {t1, t2, t3}
MCBaseLevel == [t \in MCTask |-> IF t = t3 THEN 2 ELSE 1]

\* The bound on the levels: a task may be rewound without end in this
\* environment, and each rewind may raise it.
MaxLevel == 3
LevelsBounded == \A t \in Task : level[t] <= MaxLevel

MCNext ==
  \/ ReaderNext
  \/ ConsumerNext
  \/ ListenerNext /\ LevelsBounded'
  \/ ProducerNext
  \/ Close

MCSpec == QueueInit /\ [][MCNext]_queueVars /\ QueueFairness
=============================================================================
