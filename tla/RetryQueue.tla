----------------------------- MODULE RetryQueue -----------------------------
(***************************************************************************)
(* The task queue of internal/task/queue.go: a mutex-protected priority    *)
(* queue, two goroutines and four channels.                                *)
(*                                                                         *)
(*   - the reader (readingPushedTask) looks at the length of the heap and, *)
(*     when it is not empty, offers its one consumer a function that pops  *)
(*     it.  It offers the function popTask and not a task, so the heap is  *)
(*     popped later, by the consumer;                                      *)
(*   - the listener (listeningRewindTask) takes the tasks that workers put *)
(*     on the side entry, raises their level and pushes them again;        *)
(*   - Close sets a flag without the lock and closes two channels.         *)
(*                                                                         *)
(* A step is what a goroutine does between two points where another can    *)
(* be seen: a lock, a channel operation, an unlocked read.  The operators  *)
(* are written over this module's variables only, so that TaskFlow can     *)
(* compose them with the dispatcher and the workers; QueueSpec closes them *)
(* with the most general environment.                                      *)
(***************************************************************************)
EXTENDS Naturals, Sequences, FiniteSets

CONSTANTS
  Task,       \* the tasks; one is created per request, so one is pushed once
  NoTask,     \* no task (a nil *Task)
  MaxSize,    \* RetryAbleQueue.MaxSize
  SideCap,    \* capacity of the side entry channel
  HitBoost,   \* what one error adds to a task's level in ReLevel (500)
  BaseLevel,  \* the level a task gets from its stream
  Hits        \* the numbers of errors a rewound task can have

ASSUME QueueAssumption ==
  /\ NoTask \notin Task
  /\ IsFiniteSet(Task)
  /\ MaxSize \in Nat
  /\ SideCap \in Nat \ {0}
  /\ HitBoost \in Nat
  /\ BaseLevel \in [Task -> Nat]
  /\ Hits \subseteq Nat

VARIABLES
  pq,        \* the tasks in the heap; what the heap promises is that Pop takes
             \* one of the largest level
  level,     \* Task.level
  side,      \* the side entry channel, which every task shares as rewindChannel
  closing,   \* how far Close has come: "open", "flagged", "done", "closed"
  reader,    \* where readingPushedTask is
  listener,  \* where listeningRewindTask is
  badTask,   \* the task listeningRewindTask holds
  calling,   \* the consumer has received popTask and has not called it yet
  panic      \* why the process died, or "none"

readerVars   == <<reader, calling>>
listenerVars == <<listener, badTask>>
queueVars    == <<pq, level, side, closing, reader, listener, badTask, calling, panic>>

QueueInit ==
  /\ pq = {}
  /\ level = BaseLevel
  /\ side = <<>>
  /\ closing = "open"
  /\ reader = "loop"
  /\ listener = "loop"
  /\ badTask = NoTask
  /\ calling = FALSE
  /\ panic = "none"

\* No goroutine has panicked: an unrecovered panic ends the process.
Running == panic = "none"

\* q.close, close(q.done) and close(q.reader) as the goroutines see them.
Flagged      == closing # "open"
DoneClosed   == closing \in {"done", "closed"}
ReaderClosed == closing = "closed"

OnSide(t)  == \E i \in 1..Len(side) : side[i] = t
InQueue(t) == t \in pq \/ OnSide(t) \/ badTask = t

-----------------------------------------------------------------------------
(* What the producers do.                                                  *)

\* PushTask, when it takes the task.
PushTask(t) ==
  /\ Running
  /\ ~Flagged
  /\ Cardinality(pq) < MaxSize
  /\ pq' = pq \cup {t}
  /\ UNCHANGED <<level, side, closing, readerVars, listenerVars, panic>>

\* When PushTask answers with an error and changes nothing.
PushRefused == Flagged \/ Cardinality(pq) >= MaxSize

\* Mutant: a side entry that never fills up.
RewindUnbounded(t) ==
  /\ Running
  /\ side' = Append(side, t)
  /\ UNCHANGED <<pq, level, closing, readerVars, listenerVars, panic>>

\* Task.Rewind: a send on the side entry, which blocks while that is full.
Rewind(t) ==
  /\ Running
  /\ Len(side) < SideCap
  /\ side' = Append(side, t)
  /\ UNCHANGED <<pq, level, closing, readerVars, listenerVars, panic>>

-----------------------------------------------------------------------------
(* readingPushedTask.                                                      *)

\* Mutant: a tick without the look at SafeLen.
TickUnchecked ==
  /\ Running
  /\ reader = "loop"
  /\ reader' = "checked"
  /\ UNCHANGED <<pq, level, side, closing, listenerVars, calling, panic>>

\* A tick, and SafeLen > 0.  When SafeLen is 0 the loop only goes round.
ReaderTick ==
  /\ Running
  /\ reader = "loop"
  /\ pq # {}
  /\ reader' = "checked"
  /\ UNCHANGED <<pq, level, side, closing, listenerVars, calling, panic>>

\* The inner select, entered while no case is ready: the goroutine parks.
ReaderPark ==
  /\ Running
  /\ reader = "checked"
  /\ ~DoneClosed
  /\ reader' = "offering"
  /\ UNCHANGED <<pq, level, side, closing, listenerVars, calling, panic>>

\* The send of popTask meets the consumer's receive.
HandOver ==
  /\ Running
  /\ reader \in {"checked", "offering"}
  /\ ~ReaderClosed
  /\ ~calling
  /\ reader' = "loop"
  /\ calling' = TRUE
  /\ UNCHANGED <<pq, level, side, closing, listenerVars, panic>>

\* Either select finds done closed.  (A reader parked in the inner select is
\* woken by CloseDone itself.)
ReaderStop ==
  /\ Running
  /\ reader \in {"loop", "checked"}
  /\ DoneClosed
  /\ reader' = "stopped"
  /\ UNCHANGED <<pq, level, side, closing, listenerVars, calling, panic>>

\* The inner select picks among its ready cases at random, and a send on the
\* closed reader channel is one of them.
ReaderSendsOnClosed ==
  /\ Running
  /\ reader = "checked"
  /\ ReaderClosed
  /\ panic' = "send on closed channel"
  /\ UNCHANGED <<pq, level, side, closing, readerVars, listenerVars>>

-----------------------------------------------------------------------------
(* The consumer calls the popTask it received.                             *)

PopTask(t) ==
  /\ Running
  /\ calling
  /\ t \in pq
  /\ \A u \in pq : level[u] <= level[t]
  /\ pq' = pq \ {t}
  /\ calling' = FALSE
  /\ UNCHANGED <<level, side, closing, reader, listenerVars, panic>>

\* heap.Pop of an empty heap indexes below the slice.
PopEmpty ==
  /\ Running
  /\ calling
  /\ pq = {}
  /\ panic' = "pop of an empty heap"
  /\ UNCHANGED <<pq, level, side, closing, readerVars, listenerVars>>

-----------------------------------------------------------------------------
(* listeningRewindTask.                                                    *)

\* The select on done and the flag, before the blocking receive.
ListenerLoop ==
  /\ Running
  /\ listener = "loop"
  /\ listener' = IF Flagged THEN "stopped" ELSE "receiving"
  /\ UNCHANGED <<pq, level, side, closing, readerVars, badTask, panic>>

\* Mutant: the task is looked at and stays on the side entry.
ReceivePeeks ==
  /\ Running
  /\ listener = "receiving"
  /\ side # <<>>
  /\ badTask' = Head(side)
  /\ listener' = "holding"
  /\ UNCHANGED <<pq, level, side, closing, readerVars, panic>>

\* The receive, which neither done nor the flag interrupts.
ListenerReceive ==
  /\ Running
  /\ listener = "receiving"
  /\ side # <<>>
  /\ badTask' = Head(side)
  /\ side' = Tail(side)
  /\ listener' = "holding"
  /\ UNCHANGED <<pq, level, closing, readerVars, panic>>

\* Mutant: pushTaskUnsafe looks at MaxSize as PushTask does.
PushBounded(hit) ==
  /\ Running
  /\ listener = "holding"
  /\ level' = [level EXCEPT ![badTask] = @ + hit * HitBoost]
  /\ pq' = IF PushRefused THEN pq ELSE pq \cup {badTask}
  /\ badTask' = NoTask
  /\ listener' = "loop"
  /\ UNCHANGED <<side, closing, readerVars, panic>>

\* Mutant: the listener returns after the task it pushed.
PushOnce(hit) ==
  /\ Running
  /\ listener = "holding"
  /\ level' = [level EXCEPT ![badTask] = @ + hit * HitBoost]
  /\ pq' = IF Flagged THEN pq ELSE pq \cup {badTask}
  /\ badTask' = NoTask
  /\ listener' = "stopped"
  /\ UNCHANGED <<side, closing, readerVars, panic>>

\* ReLevel and pushTaskUnsafe: hit is the task's errorHit.  Unlike PushTask,
\* the push does not look at MaxSize, and a closed queue drops the task.
ListenerPush(hit) ==
  /\ Running
  /\ listener = "holding"
  /\ level' = [level EXCEPT ![badTask] = @ + hit * HitBoost]
  /\ pq' = IF Flagged THEN pq ELSE pq \cup {badTask}
  /\ badTask' = NoTask
  /\ listener' = "loop"
  /\ UNCHANGED <<side, closing, readerVars, panic>>

-----------------------------------------------------------------------------
(* Close, statement by statement.                                          *)

CloseFlag ==
  /\ Running
  /\ closing = "open"
  /\ closing' = "flagged"
  /\ UNCHANGED <<pq, level, side, readerVars, listenerVars, panic>>

\* Mutant: the inner select has no done case.
CloseDoneUnheard ==
  /\ Running
  /\ closing = "flagged"
  /\ closing' = "done"
  /\ UNCHANGED <<pq, level, side, readerVars, listenerVars, panic>>

\* A reader parked in the inner select takes its done case at once.
CloseDone ==
  /\ Running
  /\ closing = "flagged"
  /\ closing' = "done"
  /\ reader' = IF reader = "offering" THEN "stopped" ELSE reader
  /\ UNCHANGED <<pq, level, side, calling, listenerVars, panic>>

\* close(q.reader) panics a sender that is parked on it.
CloseReader ==
  /\ Running
  /\ closing = "done"
  /\ closing' = "closed"
  /\ panic' = IF reader = "offering" THEN "send on closed channel" ELSE panic
  /\ UNCHANGED <<pq, level, side, readerVars, listenerVars>>

Close == CloseFlag \/ CloseDone \/ CloseReader

-----------------------------------------------------------------------------
(* The queue in the most general environment: any task that is not inside  *)
(* may be pushed or rewound, and a rewound task comes back with any number *)
(* of errors from Hits.                                                    *)

ReaderNext   == ReaderTick \/ ReaderPark \/ HandOver \/ ReaderStop \/ ReaderSendsOnClosed
ConsumerNext == (\E t \in Task : PopTask(t)) \/ PopEmpty
ListenerNext ==
  \/ ListenerLoop
  \/ ListenerReceive
  \/ \E hit \in Hits : ListenerPush(hit)
ProducerNext == \E t \in Task : ~InQueue(t) /\ (PushTask(t) \/ Rewind(t))

QueueNext == ReaderNext \/ ConsumerNext \/ ListenerNext \/ ProducerNext \/ Close

QueueSpec == QueueInit /\ [][QueueNext]_queueVars

\* Each goroutine keeps being scheduled, the consumer calls what it received,
\* and a Close that has begun runs to its end.
QueueFairness ==
  /\ WF_queueVars(ReaderNext)
  /\ WF_queueVars(ListenerNext)
  /\ WF_queueVars(ConsumerNext)
  /\ WF_queueVars(CloseDone \/ CloseReader)

-----------------------------------------------------------------------------

\* The types, with the channel of a goroutine that holds a task.
QueueTypeOK ==
  /\ pq \subseteq Task
  /\ level \in [Task -> Nat]
  /\ side \in Seq(Task) /\ Len(side) <= SideCap
  /\ closing \in {"open", "flagged", "done", "closed"}
  /\ reader \in {"loop", "checked", "offering", "stopped"}
  /\ listener \in {"loop", "receiving", "holding", "stopped"}
  /\ badTask \in Task \cup {NoTask}
  /\ badTask \in Task <=> listener = "holding"
  /\ calling \in BOOLEAN
  /\ panic \in {"none", "send on closed channel", "pop of an empty heap"}

\* No task is in the queue twice: a Task is one object, and a second place
\* would have two workers run it (queue.go:84-96, 186-193).
OnePlace ==
  /\ \A i, j \in 1..Len(side) : side[i] = side[j] => i = j
  /\ \A t \in Task : OnSide(t) => t \notin pq /\ badTask # t
  /\ badTask \notin pq

\* The pops that have been promised and not made: one by a reader past its
\* length check, one by a consumer that has yet to call popTask.
Claims ==
  (IF reader \in {"checked", "offering"} THEN 1 ELSE 0) + (IF calling THEN 1 ELSE 0)

\* The length the reader checked (queue.go:156) can be out of date by one pop,
\* the one it has just handed over, and never by two.
ClaimsBacked == Claims <= Cardinality(pq) + 1

\* A worker's rewind is not lost on the way: while the queue is open, a task on
\* the side entry reaches the heap (queue.go:186-193).
RewoundReturns ==
  \A t \in Task : OnSide(t) ~> (t \in pq \/ Flagged \/ ~Running)

\* Close ends the reader wherever it was and does not close the channel under
\* one that is parked on it: only a reader that Close caught between its length
\* check and the select can meet the closed channel (queue.go:151-164, 199-203).
ReaderEnds ==
  DoneClosed ~> \/ reader = "stopped"
                \/ panic = "send on closed channel" /\ reader = "checked"
                \/ panic = "pop of an empty heap"

\* What is lost to the closed channel is never a reader that is parked.
ParkedNeverPanics == panic = "send on closed channel" => reader = "checked"

\* The goroutines and channels implement the abstract buffer.
Returning == {t \in Task : OnSide(t) \/ badTask = t}
Buffer == INSTANCE TaskBuffer WITH waiting <- pq, returning <- Returning, open <- ~Flagged

\* The queue keeps the promise of TaskBuffer: what goes in comes out once, and
\* only a closed queue drops a task.
KeepsTasks == Buffer!BufferSpec
=============================================================================
