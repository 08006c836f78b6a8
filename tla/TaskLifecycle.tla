---------------------------- MODULE TaskLifecycle ----------------------------
(***************************************************************************)
(* What Potami promises the sender of a task, whatever the queue, the      *)
(* dispatcher and the pool do to keep it: a task that is taken runs its    *)
(* jobs in order, each to success exactly once, within a budget of errors; *)
(* it is closed once, finished or dead, and is only ever lost while the    *)
(* server goes down.                                                       *)
(***************************************************************************)
EXTENDS Naturals

CONSTANTS Task,    \* the tasks
          Stages,  \* how many jobs each task has
          MaxHit   \* how many errors a task survives

VARIABLES phase,     \* "new", "refused", "live", "finished", "dead", "lost"
          progress,  \* how many jobs a task has done
          hits,      \* how many errors it has met
          stopping   \* the server is going down

lifeVars == <<phase, progress, hits, stopping>>

LifeInit ==
  /\ phase = [t \in Task |-> "new"]
  /\ progress = [t \in Task |-> 0]
  /\ hits = [t \in Task |-> 0]
  /\ stopping = FALSE

Take(t) ==
  /\ phase[t] = "new"
  /\ ~stopping
  /\ phase' = [phase EXCEPT ![t] = "live"]
  /\ UNCHANGED <<progress, hits, stopping>>

Refuse(t) ==
  /\ phase[t] = "new"
  /\ phase' = [phase EXCEPT ![t] = "refused"]
  /\ UNCHANGED <<progress, hits, stopping>>

Advance(t) ==
  /\ phase[t] = "live"
  /\ progress[t] + 1 < Stages[t]
  /\ progress' = [progress EXCEPT ![t] = @ + 1]
  /\ UNCHANGED <<phase, hits, stopping>>

Finish(t) ==
  /\ phase[t] = "live"
  /\ progress[t] + 1 = Stages[t]
  /\ progress' = [progress EXCEPT ![t] = @ + 1]
  /\ phase' = [phase EXCEPT ![t] = "finished"]
  /\ UNCHANGED <<hits, stopping>>

Survive(t) ==
  /\ phase[t] = "live"
  /\ hits[t] < MaxHit
  /\ hits' = [hits EXCEPT ![t] = @ + 1]
  /\ UNCHANGED <<phase, progress, stopping>>

Die(t) ==
  /\ phase[t] = "live"
  /\ hits[t] = MaxHit
  /\ hits' = [hits EXCEPT ![t] = @ + 1]
  /\ phase' = [phase EXCEPT ![t] = "dead"]
  /\ UNCHANGED <<progress, stopping>>

Lose(t) ==
  /\ phase[t] = "live"
  /\ stopping
  /\ phase' = [phase EXCEPT ![t] = "lost"]
  /\ UNCHANGED <<progress, hits, stopping>>

ShutDown ==
  /\ stopping' = TRUE
  /\ UNCHANGED <<phase, progress, hits>>

LifeNext ==
  \/ \E t \in Task :
       \/ Take(t) \/ Refuse(t) \/ Lose(t)
       \/ Advance(t) \/ Finish(t) \/ Survive(t) \/ Die(t)
  \/ ShutDown

LifeSpec == LifeInit /\ [][LifeNext]_lifeVars
=============================================================================
