----------------------------- MODULE TaskWatch -----------------------------
(***************************************************************************)
(* What is told of one task while it runs: the tracking goroutine          *)
(* (task/listen.go) with its two trackers, the SSE broadcast and Redis,    *)
(* the broadcast's heartbeat and stop (boardcast/boardcast.go), and the    *)
(* callback (task/task.go, callback.go).  The task's own run is TaskFlow's *)
(* seen from here: "queued" stands for the queue, the dispatcher's hand    *)
(* and the side entry.                                                     *)
(*                                                                         *)
(* All these goroutines read the task's counters with no lock, at moments  *)
(* of their own; each read is therefore a step of its own.  A progress     *)
(* value that finds the tracker busy is sent by a goroutine started for    *)
(* it, so values wait in a set and arrive in any order.                    *)
(*                                                                         *)
(* The server stays up: shutdown is modelled in TaskFlow.                  *)
(***************************************************************************)
EXTENDS Naturals

CONSTANTS
  Jobs,   \* JobsPipline.Len()
  MaxHit  \* Task.maxHit

ASSUME WatchAssumption == Jobs \in Nat \ {0} /\ MaxHit \in Nat

VARIABLES
  work,       \* where the task is
  started,    \* Task.StartAt has been set
  arrived,    \* Task.Arrived
  errorHit,   \* Task.errorHit
  done,       \* Task.done is closed
  tracked,    \* Task.Tracking, from the configuration
  attaching,  \* the dispatcher has served the task and has not attached its watchers
  sending,    \* the progress values on their way to the tracking goroutine
  tracker,    \* where tracking is
  value,      \* the progress tracking has in hand
  bc,         \* the broadcast: "none", "open", "stopped"
  stoppers,   \* how many goroutines were started to stop the broadcast
  beat,       \* the event the heartbeat has decided on, "idle" when none
  heard,      \* the events sent to the browsers
  stored,     \* the progress values in Redis
  cb,         \* where CallBackListener is
  reports     \* the figures sent in callbacks

taskVars   == <<work, started, arrived, errorHit, done>>
trackVars  == <<tracked, sending, tracker, value>>
streamVars == <<bc, stoppers, beat, heard>>
cbVars     == <<cb, reports>>
watchVars  == <<taskVars, attaching, trackVars, streamVars, stored, cbVars>>

WatchInit ==
  /\ work = "created"
  /\ started = FALSE
  /\ arrived = 0
  /\ errorHit = 0
  /\ done = FALSE
  /\ tracked \in BOOLEAN
  /\ attaching = FALSE
  /\ sending = {}
  /\ tracker = "off"
  /\ value = 0
  /\ bc = "none"
  /\ stoppers = 0
  /\ beat = "idle"
  /\ heard = {}
  /\ stored = {}
  /\ cb = "off"
  /\ reports = {}

Finished == arrived = Jobs
Dead     == errorHit = MaxHit + 1  \* Health() = 0

\* Boardcast.Send, which is silent once the broadcast is stopped.
Send(event) == heard' = IF bc = "open" THEN heard \cup {event} ELSE heard

-----------------------------------------------------------------------------
(* CompleteStream: the broadcast is created first, the task pushed then.   *)

ApiAnnounce ==
  /\ work = "created"
  /\ work' = "announced"
  /\ bc' = "open"
  /\ UNCHANGED <<started, arrived, errorHit, done, attaching, trackVars, stoppers, beat, heard, stored, cbVars>>

ApiPush ==
  /\ work = "announced"
  /\ work' \in {"queued", "refused"}
  /\ UNCHANGED <<started, arrived, errorHit, done, attaching, trackVars, streamVars, stored, cbVars>>

-----------------------------------------------------------------------------
(* The dispatcher.                                                         *)

Serve ==
  /\ work = "queued"
  /\ ~attaching
  /\ work' = "begin"
  /\ attaching' = TRUE
  /\ UNCHANGED <<started, arrived, errorHit, done, trackVars, streamVars, stored, cbVars>>

\* Mutant: a task that is already closed is not watched.
AttachOpen ==
  /\ attaching
  /\ attaching' = FALSE
  /\ cb' = IF cb = "off" /\ ~done THEN "listening" ELSE cb
  /\ tracker' = IF tracker = "off" /\ tracked /\ ~done THEN "select" ELSE tracker
  /\ UNCHANGED <<taskVars, tracked, sending, value, streamVars, stored, reports>>

\* CallBackListener and SetTrackers, each with a Once, after Serve: the task
\* may have run its jobs by then.
Attach ==
  /\ attaching
  /\ attaching' = FALSE
  /\ cb' = IF cb = "off" THEN "listening" ELSE cb
  /\ tracker' = IF tracker = "off" /\ tracked THEN "select" ELSE tracker
  /\ UNCHANGED <<taskVars, tracked, sending, value, streamVars, stored, reports>>

-----------------------------------------------------------------------------
(* The workers, one at a time (TaskFlow's SingleOwner).                    *)

Locate ==
  /\ work = "begin"
  /\ work' = "handling"
  /\ started' = TRUE
  /\ UNCHANGED <<arrived, errorHit, done, attaching, trackVars, streamVars, stored, cbVars>>

\* The handler succeeds; Roll counts it ...
Roll ==
  /\ work = "handling"
  /\ work' = "rolled"
  /\ arrived' = arrived + 1
  /\ UNCHANGED <<started, errorHit, done, attaching, trackVars, streamVars, stored, cbVars>>

\* ... and, deferred, sends the new value, here or from a goroutine.
Update ==
  /\ work = "rolled"
  /\ work' = IF Finished THEN "closing" ELSE "serving"
  /\ sending' = sending \cup {arrived}
  /\ UNCHANGED <<started, arrived, errorHit, done, attaching, tracked, tracker, value, streamVars, stored, cbVars>>

\* The pool runs the next job, or is busy and the task goes back to the queue.
ServeNext ==
  /\ work = "serving"
  /\ work' \in {"begin", "queued"}
  /\ UNCHANGED <<started, arrived, errorHit, done, attaching, trackVars, streamVars, stored, cbVars>>

\* Mutant: one error more than the budget.
FailOnceMore ==
  /\ work = "handling"
  /\ errorHit' = errorHit + 1
  /\ work' = IF errorHit <= MaxHit THEN "queued" ELSE "closing"
  /\ UNCHANGED <<started, arrived, done, attaching, trackVars, streamVars, stored, cbVars>>

\* An error or a timeout: a retry while the budget lasts.
Fail ==
  /\ work = "handling"
  /\ errorHit' = errorHit + 1
  /\ work' = IF errorHit < MaxHit THEN "queued" ELSE "closing"
  /\ UNCHANGED <<started, arrived, done, attaching, trackVars, streamVars, stored, cbVars>>

CloseTask ==
  /\ work = "closing"
  /\ work' = "over"
  /\ done' = TRUE
  /\ UNCHANGED <<started, arrived, errorHit, attaching, trackVars, streamVars, stored, cbVars>>

-----------------------------------------------------------------------------
(* tracking.                                                               *)

\* BoardCastTracker.Notice, up to the event.
Notice(v) ==
  /\ tracker = "select"
  /\ tracker' = "noticing"
  /\ value' = v
  /\ Send(IF v >= Jobs THEN "finished" ELSE IF v = 0 THEN "start" ELSE "update")
  /\ UNCHANGED <<taskVars, attaching, tracked, bc, stoppers, beat, stored, cbVars>>

\* The task is closed, whatever for: its progress is given as complete.
TrackDone ==
  /\ done
  /\ Notice(Jobs)
  /\ UNCHANGED sending

TrackValue(v) ==
  /\ v \in sending
  /\ Notice(v)
  /\ sending' = sending \ {v}

\* Mutant: the broadcast is stopped once any job is done.
NoticeEndsEarly ==
  /\ tracker = "noticing"
  /\ tracker' = "noticed"
  /\ stoppers' = IF value > 0 THEN stoppers + 1 ELSE stoppers
  /\ stored' \in {stored, stored \cup {value}}
  /\ UNCHANGED <<taskVars, attaching, tracked, sending, value, bc, beat, heard, cbVars>>

\* Mutant: the broadcast of a dead task goes on.
NoticeEndsFinished ==
  /\ tracker = "noticing"
  /\ tracker' = "noticed"
  /\ stoppers' = IF Finished THEN stoppers + 1 ELSE stoppers
  /\ stored' \in {stored, stored \cup {value}}
  /\ UNCHANGED <<taskVars, attaching, tracked, sending, value, bc, beat, heard, cbVars>>

\* The rest of BoardCastTracker.Notice, which looks at Arrived as it is now,
\* and RedisTracker.Notice, which may fail or have no Redis to talk to.
NoticeEnds ==
  /\ tracker = "noticing"
  /\ tracker' = "noticed"
  /\ stoppers' = IF value >= Jobs \/ Finished THEN stoppers + 1 ELSE stoppers
  /\ stored' \in {stored, stored \cup {value}}
  /\ UNCHANGED <<taskVars, attaching, tracked, sending, value, bc, beat, heard, cbVars>>

\* Mutant: the end is known by the value alone.
TrackNextByValue ==
  /\ tracker = "noticed"
  /\ tracker' = IF value >= Jobs THEN "left" ELSE "select"
  /\ UNCHANGED <<taskVars, attaching, tracked, sending, value, streamVars, stored, cbVars>>

\* Back to the select, or out of the loop by another look at Arrived.
TrackNext ==
  /\ tracker = "noticed"
  /\ tracker' = IF value >= Jobs \/ Finished THEN "left" ELSE "select"
  /\ UNCHANGED <<taskVars, attaching, tracked, sending, value, streamVars, stored, cbVars>>

\* MaxEventListenTime for each job is over.
TrackExpire ==
  /\ tracker = "select"
  /\ tracker' = "expired"
  /\ UNCHANGED <<taskVars, attaching, tracked, sending, value, streamVars, stored, cbVars>>

-----------------------------------------------------------------------------
(* The broadcast: a heartbeat when nothing was sent for a while, and the   *)
(* stop, which comes 5 s after the notice that asked for it.               *)

HeartbeatCheck ==
  /\ bc = "open"
  /\ beat = "idle"
  /\ beat' = IF Dead THEN "dead" ELSE IF started THEN "heartbeat" ELSE "wait"
  /\ UNCHANGED <<taskVars, attaching, trackVars, bc, stoppers, heard, stored, cbVars>>

HeartbeatSend ==
  /\ beat # "idle"
  /\ beat' = "idle"
  /\ Send(beat)
  /\ UNCHANGED <<taskVars, attaching, trackVars, bc, stoppers, stored, cbVars>>

Stop ==
  /\ stoppers > 0
  /\ bc = "open"
  /\ bc' = "stopped"
  /\ UNCHANGED <<taskVars, attaching, trackVars, stoppers, beat, heard, stored, cbVars>>

-----------------------------------------------------------------------------
(* CallBackListener: after Done, one request and one more if it fails.     *)

\* Mutant: the request does not wait for Done.
CallBackNow ==
  /\ \/ cb = "listening" /\ cb' \in {"retrying", "over"}
     \/ cb = "retrying" /\ cb' = "over"
  /\ reports' \in {reports, reports \cup {[complete |-> arrived, errors |-> errorHit]}}
  /\ UNCHANGED <<taskVars, attaching, trackVars, streamVars, stored>>

\* The request may fail before or after it was received, and a task without a
\* callback sends none.
CallBack ==
  /\ \/ cb = "listening" /\ done /\ cb' \in {"retrying", "over"}
     \/ cb = "retrying" /\ cb' = "over"
  /\ reports' \in {reports, reports \cup {[complete |-> arrived, errors |-> errorHit]}}
  /\ UNCHANGED <<taskVars, attaching, trackVars, streamVars, stored>>

-----------------------------------------------------------------------------

ApiStep == ApiAnnounce \/ ApiPush

DispatchStep == Serve \/ Attach

WorkStep == Locate \/ Roll \/ Update \/ ServeNext \/ Fail \/ CloseTask

TrackStep ==
  \/ TrackDone
  \/ \E v \in sending : TrackValue(v)
  \/ NoticeEnds
  \/ TrackNext

WatchNext ==
  \/ ApiStep
  \/ DispatchStep
  \/ WorkStep
  \/ TrackStep
  \/ TrackExpire
  \/ HeartbeatCheck \/ HeartbeatSend
  \/ Stop
  \/ CallBack

WatchSpec == WatchInit /\ [][WatchNext]_watchVars

\* Each goroutine keeps being scheduled; the tracker's time need not run out.
WatchFairness ==
  /\ WF_watchVars(DispatchStep)
  /\ WF_watchVars(WorkStep)
  /\ WF_watchVars(TrackStep)
  /\ WF_watchVars(Stop)
  /\ WF_watchVars(CallBack)

LiveWatchSpec == WatchSpec /\ WatchFairness

-----------------------------------------------------------------------------

WatchTypeOK ==
  /\ work \in {"created", "announced", "refused", "queued", "begin", "handling",
               "rolled", "serving", "closing", "over"}
  /\ started \in BOOLEAN
  /\ arrived \in 0..Jobs
  /\ errorHit \in 0..(MaxHit + 1)
  /\ done \in BOOLEAN
  /\ tracked \in BOOLEAN
  /\ attaching \in BOOLEAN
  /\ sending \subseteq 1..Jobs
  /\ tracker \in {"off", "select", "noticing", "noticed", "left", "expired"}
  /\ value \in 0..Jobs
  /\ bc \in {"none", "open", "stopped"}
  /\ stoppers \in Nat
  /\ beat \in {"idle", "wait", "heartbeat", "dead"}
  /\ heard \subseteq {"finished", "update", "wait", "heartbeat", "dead"}
  /\ stored \subseteq 1..Jobs
  /\ cb \in {"off", "listening", "retrying", "over"}
  /\ reports \subseteq [complete : 0..Jobs, errors : 0..(MaxHit + 1)]

\* The task keeps the promise of TaskLifecycle, as it does in TaskFlow: the
\* watchers are attached to, and read, a task that runs as TaskFlow says.
Phase ==
  CASE work \in {"created", "announced"} -> "new"
    [] work = "refused" -> "refused"
    [] work \notin {"created", "announced", "refused"} /\ Finished -> "finished"
    [] work \notin {"created", "announced", "refused"} /\ ~Finished /\ Dead -> "dead"
    [] OTHER -> "live"

Life == INSTANCE TaskLifecycle WITH
          Task <- {"task"},
          Stages <- [t \in {"task"} |-> Jobs],
          phase <- [t \in {"task"} |-> Phase],
          progress <- [t \in {"task"} |-> arrived],
          hits <- [t \in {"task"} |-> errorHit],
          stopping <- FALSE

FollowsLife == Life!LifeSpec

\* At most one goroutine is started to stop the broadcast.  Stop has no lock:
\* two of them could both find IsStop false and close stopCh twice, which panics
\* (boardcast.go:126-132, tracker/boardcast.go:54-61).  It holds because tracking
\* looks at Arrived after the trackers have, and leaves if they saw the end.
StopsOnce == stoppers <= 1

\* The end is never announced early: "finished", "dead" and the stop of the
\* broadcast come only for a task with all its jobs done or its errors spent
\* (listen.go:37-51, tracker/boardcast.go:16-27, 54).  TaskLook relies on it: it
\* sends everybody else to the broadcast (look.go:18-34).
EndIsTrue ==
  /\ "finished" \in heard \/ stoppers > 0 => Finished \/ Dead
  /\ "dead" \in heard => Dead

\* Every callback carries the task's final figures: none is sent before the
\* last job or error is counted, and nothing changes them afterwards
\* (task.go:200-222, callback.go:52-65).
CallbackTellsEnd ==
  \A r \in reports :
    /\ r = [complete |-> arrived, errors |-> errorHit]
    /\ Finished \/ Dead

\* A stream that has announced the end is closed (tracker/boardcast.go:54-61).
StreamEnds == "finished" \in heard ~> bc = "stopped"

\* The end of a task reaches its watchers however late they are attached: the
\* callback is tried and the tracking goroutine ends (listen.go:35-55,
\* task.go:200-211).
EndReaches == done ~> cb = "over" /\ (tracked => tracker \in {"left", "expired"})
=============================================================================
