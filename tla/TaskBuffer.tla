----------------------------- MODULE TaskBuffer -----------------------------
(***************************************************************************)
(* What a RetryAbleQueue promises its callers, with no goroutine, channel  *)
(* or lock in sight: a task that is handed in waits, one that is given     *)
(* back waits to return, each leaves once, through the consumer's hands,   *)
(* and only a queue that has been shut may throw one away.                 *)
(***************************************************************************)

CONSTANT Task

VARIABLES waiting,    \* tasks the consumer can take
          returning,  \* tasks given back that do not wait again yet
          open        \* whether the queue still takes tasks in

bufferVars == <<waiting, returning, open>>

BufferInit ==
  /\ waiting = {}
  /\ returning = {}
  /\ open = TRUE

Accept(t) ==
  /\ open
  /\ t \notin waiting \cup returning
  /\ waiting' = waiting \cup {t}
  /\ UNCHANGED <<returning, open>>

HandOut(t) ==
  /\ t \in waiting
  /\ waiting' = waiting \ {t}
  /\ UNCHANGED <<returning, open>>

GiveBack(t) ==
  /\ t \notin waiting \cup returning
  /\ returning' = returning \cup {t}
  /\ UNCHANGED <<waiting, open>>

Requeue(t) ==
  /\ open
  /\ t \in returning
  /\ returning' = returning \ {t}
  /\ waiting' = waiting \cup {t}
  /\ UNCHANGED open

Discard(t) ==
  /\ ~open
  /\ t \in returning
  /\ returning' = returning \ {t}
  /\ UNCHANGED <<waiting, open>>

Shut ==
  /\ open
  /\ open' = FALSE
  /\ UNCHANGED <<waiting, returning>>

BufferNext ==
  \/ \E t \in Task : Accept(t) \/ HandOut(t) \/ GiveBack(t) \/ Requeue(t) \/ Discard(t)
  \/ Shut

BufferSpec == BufferInit /\ [][BufferNext]_bufferVars
=============================================================================
