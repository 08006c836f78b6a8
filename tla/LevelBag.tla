------------------------------ MODULE LevelBag ------------------------------
(***************************************************************************)
(* What a priority queue promises: tasks are put into it with a level, and *)
(* the task that is taken out is one of the largest level in it.  The pops *)
(* of RetryQueue are Takes.                                                *)
(***************************************************************************)
EXTENDS Naturals

CONSTANTS
  Task,
  Level   \* natural numbers

VARIABLES bag, level

BagInit == bag = {} /\ level \in [Task -> Level]

Put(t, l) ==
  /\ t \notin bag
  /\ bag' = bag \cup {t}
  /\ level' = [level EXCEPT ![t] = l]

Take(t) ==
  /\ t \in bag
  /\ \A u \in bag : level[u] <= level[t]
  /\ bag' = bag \ {t}
  /\ UNCHANGED level

BagNext == \E t \in Task : Take(t) \/ \E l \in Level : Put(t, l)

BagSpec == BagInit /\ [][BagNext]_<<bag, level>>
=============================================================================
