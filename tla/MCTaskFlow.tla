----------------------------- MODULE MCTaskFlow -----------------------------
(* TaskFlow on a few tasks and workers, for TLC. *)
EXTENDS TaskFlow

CONSTANTS t1, t2

Two == {t1, t2}

\* The first task has two jobs and the lower level.
MCStages == [t \in Task |-> IF t = t1 THEN 2 ELSE 1]
MCLevel  == [t \in Task |-> IF t = t1 THEN 1 ELSE 2]
\* Every task at one level, which errors do not raise: the heap may then pop
\* any of them, so every order of levels is covered at once.
MCEqual  == [t \in Task |-> 1]
MCHits   == 0..MaxHit
=============================================================================
