------------------------------ MODULE TaskFlow ------------------------------
(***************************************************************************)
(* A task on its way through Potami: the API pushes it into the queue      *)
(* (RetryQueue), the dispatcher (internal/dispatch/worker.go) pops it and  *)
(* serves it to the goroutine pool, and a pool worker runs one job of it   *)
(* (internal/task/handle.go).  A worker that has done a job serves the     *)
(* task back to the pool for the next one; after an error, a timeout or    *)
(* when the pool is busy it puts it on the queue's side entry instead.     *)
(*                                                                         *)
(* Every *Task is one object handed from one goroutine to the next without *)
(* a copy, and nothing but that hand-over keeps two goroutines off it.     *)
(* The containers that hold a task are therefore kept apart here, as they  *)
(* are in the code, and SingleOwner is a claim about them.                 *)
(*                                                                         *)
(* The pool is github.com/y7ut/ppool, outside the repository: of it only   *)
(* Serve is used, which starts Work on an idle worker, reports FALSE when  *)
(* there is none and an error once the pool is stopped.                    *)
(***************************************************************************)
EXTENDS RetryQueue

CONSTANTS
  Worker,   \* the goroutines of the pool, MaxWorkers of them
  Stages,   \* JobsPipline.Len() of each task
  MaxHit    \* Task.maxHit, the retries of the configuration

ASSUME FlowAssumption ==
  /\ Worker # {} /\ IsFiniteSet(Worker)
  /\ Stages \in [Task -> Nat \ {0}]
  /\ MaxHit \in Nat
  /\ Hits = 0..MaxHit

VARIABLES
  request,     \* the API's answer for a task: "none", "refused", "accepted"
  dispatcher,  \* where Kernal.start is: "waiting", "serving", "stopped"
  popped,      \* the task Kernal.start holds
  stopAsked,   \* Kernal.Done is closed
  poolOpen,    \* the pool has not been stopped
  at,          \* where excute is on each worker
  task,        \* the task each worker has in hand
  stage,       \* Task.CurrentStage, as a position in JobsPipline
  reopen,      \* Task.ErrorReopenStage, 0 when it is nil
  arrived,     \* Task.Arrived
  errorHit,    \* Task.errorHit
  closes       \* how often Task.Close was called

dispatchVars == <<dispatcher, popped>>
stopVars     == <<stopAsked, poolOpen>>
workerVars   == <<at, task>>
taskVars     == <<stage, reopen, arrived, errorHit, closes>>
flowOwnVars  == <<request, dispatchVars, stopVars, workerVars, taskVars>>
flowVars     == <<queueVars, flowOwnVars>>

FlowInit ==
  /\ QueueInit
  /\ request = [t \in Task |-> "none"]
  /\ dispatcher = "waiting"
  /\ popped = NoTask
  /\ stopAsked = FALSE
  /\ poolOpen = TRUE
  /\ at = [w \in Worker |-> "idle"]
  /\ task = [w \in Worker |-> NoTask]
  /\ stage = [t \in Task |-> 1]
  /\ reopen = [t \in Task |-> 0]
  /\ arrived = [t \in Task |-> 0]
  /\ errorHit = [t \in Task |-> 0]
  /\ closes = [t \in Task |-> 0]

Busy == \A w \in Worker : at[w] # "idle"

\* The goroutines that have a hand on the task.
Owned(t) == InQueue(t) \/ popped = t \/ \E w \in Worker : task[w] = t

-----------------------------------------------------------------------------
(* The API (CompleteStream) pushes a task it has just created.             *)

Submit(t) ==
  /\ request[t] = "none"
  /\ PushTask(t)
  /\ request' = [request EXCEPT ![t] = "accepted"]
  /\ UNCHANGED <<dispatchVars, stopVars, workerVars, taskVars>>

SubmitRefused(t) ==
  /\ Running
  /\ request[t] = "none"
  /\ PushRefused
  /\ request' = [request EXCEPT ![t] = "refused"]
  /\ UNCHANGED <<queueVars, dispatchVars, stopVars, workerVars, taskVars>>

-----------------------------------------------------------------------------
(* The queue's own goroutines.                                             *)

ReaderStep ==
  /\ ReaderTick \/ ReaderPark \/ ReaderStop \/ ReaderSendsOnClosed
  /\ UNCHANGED flowOwnVars

ListenerStep ==
  /\ \/ ListenerLoop
     \/ ListenerReceive
     \/ badTask \in Task /\ ListenerPush(errorHit[badTask])
  /\ UNCHANGED flowOwnVars

-----------------------------------------------------------------------------
(* Kernal.start.                                                           *)

DispatchReceive ==
  /\ dispatcher = "waiting"
  /\ HandOver
  /\ UNCHANGED flowOwnVars

DispatchPop(t) ==
  /\ dispatcher = "waiting"
  /\ PopTask(t)
  /\ dispatcher' = "serving"
  /\ popped' = t
  /\ UNCHANGED <<request, stopVars, workerVars, taskVars>>

DispatchPopEmpty ==
  /\ dispatcher = "waiting"
  /\ PopEmpty
  /\ UNCHANGED flowOwnVars

\* Pool.Serve with a worker to spare.  With none, the loop backs off and calls
\* it again, still with the same task in hand.
DispatchServe(w) ==
  /\ Running
  /\ dispatcher = "serving"
  /\ poolOpen
  /\ at[w] = "idle"
  /\ at' = [at EXCEPT ![w] = "begin"]
  /\ task' = [task EXCEPT ![w] = popped]
  /\ dispatcher' = "waiting"
  /\ popped' = NoTask
  /\ UNCHANGED <<queueVars, request, stopVars, taskVars>>

\* Serve fails once the pool is stopped: start returns, and its task with it.
DispatchServeError ==
  /\ Running
  /\ dispatcher = "serving"
  /\ ~poolOpen
  /\ dispatcher' = "stopped"
  /\ popped' = NoTask
  /\ UNCHANGED <<queueVars, request, stopVars, workerVars, taskVars>>

\* The reader channel is closed and yields nil, or Done is closed.
DispatchStop ==
  /\ Running
  /\ dispatcher = "waiting"
  /\ ~calling
  /\ ReaderClosed \/ stopAsked
  /\ dispatcher' = "stopped"
  /\ UNCHANGED <<queueVars, request, popped, stopVars, workerVars, taskVars>>

-----------------------------------------------------------------------------
(* excute, on worker w.                                                    *)

\* Mutant: ErrorReopenStage is not reset.
LocateKeepsReopen(w) ==
  /\ Running
  /\ at[w] = "begin"
  /\ at' = [at EXCEPT ![w] = "handling"]
  /\ LET t == task[w] IN
       stage' = [stage EXCEPT ![t] = IF reopen[t] # 0 THEN reopen[t] ELSE @]
  /\ UNCHANGED <<queueVars, request, dispatchVars, stopVars, task, reopen, arrived, errorHit, closes>>

\* From the entry to the handler's start: back to the stage that broke.
Locate(w) ==
  /\ Running
  /\ at[w] = "begin"
  /\ at' = [at EXCEPT ![w] = "handling"]
  /\ LET t == task[w] IN
       /\ stage' = [stage EXCEPT ![t] = IF reopen[t] # 0 THEN reopen[t] ELSE @]
       /\ reopen' = [reopen EXCEPT ![t] = 0]
  /\ UNCHANGED <<queueVars, request, dispatchVars, stopVars, task, arrived, errorHit, closes>>

\* The handler succeeds and Roll finds a next stage.
RollOn(w) ==
  /\ Running
  /\ at[w] = "handling"
  /\ stage[task[w]] < Stages[task[w]]
  /\ arrived' = [arrived EXCEPT ![task[w]] = @ + 1]
  /\ stage' = [stage EXCEPT ![task[w]] = @ + 1]
  /\ at' = [at EXCEPT ![w] = "rolled"]
  /\ UNCHANGED <<queueVars, request, dispatchVars, stopVars, task, reopen, errorHit, closes>>

\* The handler succeeds and Roll finds no next stage: the task is closed.
RollEnd(w) ==
  /\ Running
  /\ at[w] = "handling"
  /\ stage[task[w]] = Stages[task[w]]
  /\ arrived' = [arrived EXCEPT ![task[w]] = @ + 1]
  /\ closes' = [closes EXCEPT ![task[w]] = @ + 1]
  /\ at' = [at EXCEPT ![w] = "returning"]
  /\ task' = [task EXCEPT ![w] = NoTask]
  /\ UNCHANGED <<queueVars, request, dispatchVars, stopVars, stage, reopen, errorHit>>

\* Mutant: one error more than the budget.
BreakOnceMore(w) ==
  /\ Running
  /\ at[w] = "handling"
  /\ errorHit[task[w]] <= MaxHit
  /\ reopen' = [reopen EXCEPT ![task[w]] = stage[task[w]]]
  /\ errorHit' = [errorHit EXCEPT ![task[w]] = @ + 1]
  /\ at' = [at EXCEPT ![w] = "broken"]
  /\ UNCHANGED <<queueVars, request, dispatchVars, stopVars, task, stage, arrived, closes>>

\* The handler returns an error, or the worker's context ends first:
\* BreakOutWithError, and a retry while the budget lasts.
Break(w) ==
  /\ Running
  /\ at[w] = "handling"
  /\ errorHit[task[w]] < MaxHit
  /\ reopen' = [reopen EXCEPT ![task[w]] = stage[task[w]]]
  /\ errorHit' = [errorHit EXCEPT ![task[w]] = @ + 1]
  /\ at' = [at EXCEPT ![w] = "broken"]
  /\ UNCHANGED <<queueVars, request, dispatchVars, stopVars, task, stage, arrived, closes>>

\* The same error once too often: the task is closed.
BreakForGood(w) ==
  /\ Running
  /\ at[w] = "handling"
  /\ errorHit[task[w]] >= MaxHit
  /\ reopen' = [reopen EXCEPT ![task[w]] = stage[task[w]]]
  /\ errorHit' = [errorHit EXCEPT ![task[w]] = @ + 1]
  /\ closes' = [closes EXCEPT ![task[w]] = @ + 1]
  /\ at' = [at EXCEPT ![w] = "returning"]
  /\ task' = [task EXCEPT ![w] = NoTask]
  /\ UNCHANGED <<queueVars, request, dispatchVars, stopVars, stage, arrived>>

\* Mutant: no return after a Serve that succeeded.
ServeNextAndRewind(w, v) ==
  /\ Running
  /\ at[w] = "rolled"
  /\ poolOpen
  /\ at[v] = "idle"
  /\ at' = [at EXCEPT ![w] = "broken", ![v] = "begin"]
  /\ task' = [task EXCEPT ![v] = task[w]]
  /\ UNCHANGED <<queueVars, request, dispatchVars, stopVars, taskVars>>

\* wp.Serve for the next stage, while w itself still counts as busy.
ServeNext(w, v) ==
  /\ Running
  /\ at[w] = "rolled"
  /\ poolOpen
  /\ at[v] = "idle"
  /\ at' = [at EXCEPT ![w] = "returning", ![v] = "begin"]
  /\ task' = [task EXCEPT ![w] = NoTask, ![v] = task[w]]
  /\ UNCHANGED <<queueVars, request, dispatchVars, stopVars, taskVars>>

\* Mutant: a busy pool counts as an error.
ServeBusyCounts(w) ==
  /\ Running
  /\ at[w] = "rolled"
  /\ poolOpen
  /\ Busy
  /\ reopen' = [reopen EXCEPT ![task[w]] = stage[task[w]]]
  /\ errorHit' = [errorHit EXCEPT ![task[w]] = @ + 1]
  /\ at' = [at EXCEPT ![w] = "broken"]
  /\ UNCHANGED <<queueVars, request, dispatchVars, stopVars, task, stage, arrived, closes>>

\* No worker to spare: BreakOut, without an error.
ServeBusy(w) ==
  /\ Running
  /\ at[w] = "rolled"
  /\ poolOpen
  /\ Busy
  /\ reopen' = [reopen EXCEPT ![task[w]] = stage[task[w]]]
  /\ at' = [at EXCEPT ![w] = "broken"]
  /\ UNCHANGED <<queueVars, request, dispatchVars, stopVars, task, stage, arrived, errorHit, closes>>

\* The pool is stopped: excute returns and nobody has the task any more.
ServeError(w) ==
  /\ Running
  /\ at[w] = "rolled"
  /\ ~poolOpen
  /\ at' = [at EXCEPT ![w] = "returning"]
  /\ task' = [task EXCEPT ![w] = NoTask]
  /\ UNCHANGED <<queueVars, request, dispatchVars, stopVars, taskVars>>

RewindTask(w) ==
  /\ at[w] = "broken"
  /\ Rewind(task[w])
  /\ at' = [at EXCEPT ![w] = "returning"]
  /\ task' = [task EXCEPT ![w] = NoTask]
  /\ UNCHANGED <<request, dispatchVars, stopVars, taskVars>>

\* Work returns and the pool has its worker back.
Return(w) ==
  /\ Running
  /\ at[w] = "returning"
  /\ at' = [at EXCEPT ![w] = "idle"]
  /\ UNCHANGED <<queueVars, request, dispatchVars, stopVars, task, taskVars>>

-----------------------------------------------------------------------------
(* Run, after the exit signal: TaskQueue.Close, Dispatcher.Stop and        *)
(* TaskPool.Stop, in this order.                                           *)

CloseQueue == Close /\ UNCHANGED flowOwnVars

StopDispatcher ==
  /\ Running
  /\ ReaderClosed
  /\ ~stopAsked
  /\ stopAsked' = TRUE
  /\ UNCHANGED <<queueVars, request, dispatchVars, poolOpen, workerVars, taskVars>>

StopPool ==
  /\ Running
  /\ stopAsked
  /\ poolOpen
  /\ poolOpen' = FALSE
  /\ UNCHANGED <<queueVars, request, dispatchVars, stopAsked, workerVars, taskVars>>

-----------------------------------------------------------------------------

ApiStep == \E t \in Task : Submit(t) \/ SubmitRefused(t)

DispatchStep ==
  \/ DispatchReceive
  \/ \E t \in Task : DispatchPop(t)
  \/ DispatchPopEmpty
  \/ \E w \in Worker : DispatchServe(w)
  \/ DispatchServeError
  \/ DispatchStop

WorkerStep(w) ==
  \/ Locate(w)
  \/ RollOn(w)
  \/ RollEnd(w)
  \/ Break(w)
  \/ BreakForGood(w)
  \/ \E v \in Worker : ServeNext(w, v)
  \/ ServeBusy(w)
  \/ ServeError(w)
  \/ RewindTask(w)
  \/ Return(w)

StopStep == CloseQueue \/ StopDispatcher \/ StopPool

FlowNext ==
  \/ ApiStep
  \/ ReaderStep
  \/ ListenerStep
  \/ DispatchStep
  \/ \E w \in Worker : WorkerStep(w)
  \/ StopStep

FlowSpec == FlowInit /\ [][FlowNext]_flowVars

\* Each goroutine keeps being scheduled.  A handler ends because the worker's
\* context times it out; nothing makes it succeed.
FlowFairness ==
  /\ WF_flowVars(ReaderStep)
  /\ WF_flowVars(ListenerStep)
  /\ WF_flowVars(DispatchStep)
  /\ \A w \in Worker : WF_flowVars(WorkerStep(w))

LiveFlowSpec == FlowSpec /\ FlowFairness

-----------------------------------------------------------------------------

FlowTypeOK ==
  /\ QueueTypeOK
  /\ request \in [Task -> {"none", "refused", "accepted"}]
  /\ dispatcher \in {"waiting", "serving", "stopped"}
  /\ popped \in Task \cup {NoTask}
  /\ popped \in Task <=> dispatcher = "serving"
  /\ calling => dispatcher = "waiting"
  /\ stopAsked \in BOOLEAN
  /\ poolOpen \in BOOLEAN
  /\ at \in [Worker -> {"idle", "begin", "handling", "rolled", "broken", "returning"}]
  /\ task \in [Worker -> Task \cup {NoTask}]
  /\ \A w \in Worker : task[w] \in Task <=> at[w] \in {"begin", "handling", "rolled", "broken"}
  /\ stage \in [Task -> Nat]
  /\ reopen \in [Task -> Nat]
  /\ arrived \in [Task -> Nat]
  /\ errorHit \in [Task -> Nat]
  /\ closes \in [Task -> Nat]

\* One goroutine at a time has a task, on all its way through the queue, the
\* dispatcher, the pool and the side entry, and nobody has it once it is closed
\* (handle.go:41-90, queue.go:186-193, worker.go:66-85).  A second owner would
\* run a stage twice or close the done channel twice, which panics.
SingleOwner ==
  /\ OnePlace
  /\ \A t \in Task : InQueue(t) => popped # t /\ \A w \in Worker : task[w] # t
  /\ \A w \in Worker : task[w] \in Task => task[w] # popped
  /\ \A v, w \in Worker : task[v] \in Task /\ task[v] = task[w] => v = w
  /\ \A t \in Task : Owned(t) => request[t] = "accepted" /\ closes[t] = 0

\* No task is dropped while the server is up: an accepted task that is not
\* closed is in somebody's hands until Close sets its flag (queue.go:89,
\* worker.go:69 and handle.go:62 drop it after that).
NoLoss ==
  \A t \in Task :
    request[t] = "accepted" /\ closes[t] = 0 /\ ~Owned(t) => Flagged

\* The stage excute will run, or runs, is the one after the last that succeeded:
\* neither a retry nor a busy pool repeats or skips a job, and a stage to reopen
\* is used up before its handler starts (handle.go:16-21, task.go:100-108, 115, 124).
ResumePoint ==
  /\ \A t \in Task : Owned(t) =>
       /\ stage[t] = arrived[t] + 1
       /\ reopen[t] \in {0, stage[t]}
       /\ stage[t] <= Stages[t]
  /\ \A w \in Worker : at[w] = "handling" => reopen[task[w]] = 0

\* A task is closed once, with every job done or with its error budget
\* spent, and is alive with neither (task.go:61-64, 120-130; handle.go:44, 56, 82).
ClosedForCause ==
  \A t \in Task :
    /\ closes[t] = 0 => arrived[t] < Stages[t] /\ errorHit[t] <= MaxHit
    /\ closes[t] > 0 =>
         /\ closes[t] = 1
         /\ \/ arrived[t] = Stages[t] /\ errorHit[t] <= MaxHit
            \/ arrived[t] < Stages[t] /\ errorHit[t] = MaxHit + 1

\* What a client in sync mode waits for (push.go:75): an accepted task is closed,
\* unless the server goes down first.
EventuallyClosed ==
  \A t \in Task : request[t] = "accepted" ~> (closes[t] > 0 \/ Flagged \/ ~Running)

\* The whole implements the promise of TaskLifecycle.
Phase(t) ==
  CASE request[t] = "none" -> "new"
    [] request[t] = "refused" -> "refused"
    [] request[t] = "accepted" /\ closes[t] = 0 /\ Owned(t) -> "live"
    [] request[t] = "accepted" /\ closes[t] = 0 /\ ~Owned(t) -> "lost"
    [] request[t] = "accepted" /\ closes[t] # 0 /\ arrived[t] = Stages[t] -> "finished"
    [] request[t] = "accepted" /\ closes[t] # 0 /\ arrived[t] # Stages[t] -> "dead"

Life == INSTANCE TaskLifecycle WITH
          phase <- [t \in Task |-> Phase(t)],
          progress <- arrived,
          hits <- errorHit,
          stopping <- Flagged

\* The flow keeps the promise of TaskLifecycle: jobs in order and once each,
\* a bounded number of errors, one close, no loss while the server is up.
KeepsPromise == Life!LifeSpec

\* The comment on the reader (queue.go:155): it checks that the queue has data
\* before it offers a pop.
PopFindsTask == panic # "pop of an empty heap"
=============================================================================
