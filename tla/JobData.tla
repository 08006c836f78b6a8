------------------------------- MODULE JobData -------------------------------
(***************************************************************************)
(* One task's MetaData: the map that comes with the request, that each     *)
(* job's handler reads and writes with no lock, and that heartbeat, look   *)
(* and callback marshal.  The worker (task/handle.go) is TaskFlow's, one   *)
(* at a time; what is added are its handlers, goroutines of their own: one *)
(* that is given up by a timeout goes on beside the retry.                 *)
(*                                                                         *)
(* A value of data is the number of the call that wrote it, so values say  *)
(* where they come from.  Where the Go runtime may notice two uses of the  *)
(* map at once and end the process, up is chosen.                          *)
(***************************************************************************)
EXTENDS StreamConfig

CONSTANTS
  Streams,              \* the configurations considered
  MaxHit,               \* Task.maxHit
  Missing, Text, Json   \* no value, and a request's values: strings and others

ASSUME DataAssumption ==
  /\ Streams \subseteq Seq(JobConfig)
  /\ MaxHit \in Nat
  /\ Missing \notin Nat /\ Text \notin Nat /\ Json \notin Nat
  /\ Missing # Text /\ Missing # Json

VARIABLES
  up,        \* the process runs
  jobs,      \* the stream's jobs
  nilMap,    \* the request had no params, so MetaData is nil
  data,      \* Task.MetaData
  stage,     \* CurrentStage, 0 for nil
  arrived,   \* Task.Arrived
  errorHit,  \* Task.errorHit
  work,      \* "idle" between two calls of excute, "busy" inside, "done", "dead"
  handlers,  \* the calls of Handle, in order
  viewing,   \* somebody is marshalling the task
  late,      \* history: a call has written after a younger one had begun
  missed,    \* history: <<call, input>>, the call did not find the input
  readback   \* history: <<a, b>>, call b has read what call a wrote

taskVars == <<stage, arrived, errorHit, work>>
history  == <<late, missed, readback>>
dataVars == <<up, jobs, nilMap, data, taskVars, handlers, viewing, history>>

Calls   == DOMAIN handlers
Last    == Len(handlers)
JobOf(a) == jobs[handlers[a].stage]

\* A call writes while it stands between two of its writes.
Writing    == {a \in Calls : handlers[a].pc = "writing"}
MayClash(clash) == up' \in {b \in BOOLEAN : clash \/ b}

SetHandler(a, pc) == handlers' = [handlers EXCEPT ![a].pc = pc]

\* createTask: the request brings the required parameters, and any others.
DataInit ==
  /\ up = TRUE
  /\ jobs \in {s \in Streams : Accepted(s)}
  /\ data \in [Key -> {Missing, Text, Json}]
  /\ \A k \in Required(jobs) : data[k] # Missing
  /\ nilMap \in BOOLEAN
  /\ nilMap => \A k \in Key : data[k] = Missing
  /\ stage \in Runs(jobs) \cup {0}
  /\ IF stage = 0 THEN Runs(jobs) = {} ELSE \A i \in Runs(jobs) : stage <= i
  /\ arrived = 0
  /\ errorHit = 0
  /\ work = "idle"
  /\ handlers = <<>>
  /\ viewing = FALSE
  /\ late = FALSE
  /\ missed = {}
  /\ readback = {}

-----------------------------------------------------------------------------
(* A handler: dialog.go, api_tool.go, search.go.  All of its errors come   *)
(* before its first write.                                                 *)

\* The inputs it does not find are left out, but a search needs its query,
\* and as a string.
Read(a) ==
  /\ up /\ handlers[a].pc = "reading"
  /\ MayClash(Writing # {})
  /\ SetHandler(a, IF JobOf(a).kind = "search" /\ data[JobOf(a).query] \in {Missing, Json}
                     THEN "failed" ELSE "calling")
  /\ missed' = missed \cup {<<a, k>> : k \in {i \in Inputs(JobOf(a)) : data[i] = Missing}}
  /\ readback' = readback \cup {<<b, a>> : b \in Calls \cap {data[k] : k \in Reads(JobOf(a))}}
  /\ UNCHANGED <<jobs, nilMap, data, taskVars, viewing, late>>

\* Mutant: a tool sets each value as it is parsed, and may fail at the next.
CallFailsMidway(a) ==
  /\ up /\ handlers[a].pc \in {"calling", "writing"}
  /\ MayClash(JobOf(a).kind = "api_tool" /\ Writing # {})
  /\ SetHandler(a, "failed")
  /\ UNCHANGED <<jobs, nilMap, data, taskVars, viewing, history>>

\* The call fails, is cancelled, or its answer lacks an output.  A tool logs
\* the whole map.
CallFails(a) ==
  /\ up /\ handlers[a].pc = "calling"
  /\ MayClash(JobOf(a).kind = "api_tool" /\ Writing # {})
  /\ SetHandler(a, "failed")
  /\ UNCHANGED <<jobs, nilMap, data, taskVars, viewing, history>>

\* Mutant: outputs that the answer lacks are passed over.
CallAnswersPartly(a) ==
  /\ up /\ handlers[a].pc = "calling"
  /\ \E found \in SUBSET handlers[a].todo :
       handlers' = [handlers EXCEPT ![a].pc = "writing", ![a].todo = found]
  /\ UNCHANGED <<up, jobs, nilMap, data, taskVars, viewing, history>>

CallAnswers(a) ==
  /\ up /\ handlers[a].pc = "calling"
  /\ SetHandler(a, "writing")
  /\ UNCHANGED <<up, jobs, nilMap, data, taskVars, viewing, history>>

\* A path that leads to null: the parser asks the nil type for its kind.
AnswersNull(a) ==
  /\ up /\ handlers[a].pc = "calling"
  /\ JobOf(a).kind = "api_tool" /\ JobOf(a).parses # {}
  /\ up' = FALSE
  /\ UNCHANGED <<jobs, nilMap, data, taskVars, handlers, viewing, history>>

\* SetAttributes, one key after the other in the order of a Go map.
Write(a, k) ==
  /\ up /\ handlers[a].pc = "writing"
  /\ k \in handlers[a].todo
  /\ ~nilMap
  /\ MayClash(viewing \/ Writing # {a})
  /\ data' = [data EXCEPT ![k] = a]
  /\ handlers' = [handlers EXCEPT ![a].todo = @ \ {k}]
  /\ late' = (late \/ a < Last)
  /\ UNCHANGED <<jobs, nilMap, taskVars, viewing, missed, readback>>

WriteNil(a) ==
  /\ up /\ handlers[a].pc = "writing"
  /\ handlers[a].todo # {}
  /\ nilMap
  /\ up' = FALSE
  /\ UNCHANGED <<jobs, nilMap, data, taskVars, handlers, viewing, history>>

\* It returns nil to excute, or to nobody if it was given up.
Return(a) ==
  /\ up /\ handlers[a].pc = "writing"
  /\ handlers[a].todo = {}
  /\ MayClash(JobOf(a).kind = "api_tool" /\ Writing # {a})
  /\ SetHandler(a, "ended")
  /\ UNCHANGED <<jobs, nilMap, data, taskVars, viewing, history>>

HandlerNext ==
  \E a \in Calls :
    \/ Read(a) \/ CallFails(a) \/ CallAnswers(a) \/ AnswersNull(a)
    \/ WriteNil(a) \/ Return(a)
    \/ \E k \in Key : Write(a, k)

-----------------------------------------------------------------------------
(* The worker.                                                             *)

Excute ==
  /\ up /\ work = "idle"
  /\ stage # 0
  /\ work' = "busy"
  /\ handlers' = Append(handlers, [stage |-> stage, pc |-> "reading",
                                   todo |-> Writes(jobs[stage]), timed |-> FALSE])
  /\ UNCHANGED <<up, jobs, nilMap, data, stage, arrived, errorHit, viewing, history>>

\* A road with no job on it.
ExcuteNil ==
  /\ up /\ work = "idle"
  /\ stage = 0
  /\ up' = FALSE
  /\ UNCHANGED <<jobs, nilMap, data, taskVars, handlers, viewing, history>>

\* Mutant: Roll steps to the next job of the stream, of whatever type.
RollNextPosition ==
  /\ up /\ work = "busy"
  /\ handlers[Last].pc = "ended"
  /\ stage < Len(jobs)
  /\ stage' = stage + 1
  /\ arrived' = arrived + 1
  /\ work' = "idle"
  /\ UNCHANGED <<up, jobs, nilMap, data, errorHit, handlers, viewing, history>>

\* Roll to the next job.  Whether the pool serves the task at once or it is
\* rewound, excute is called again with the same stage.
Roll ==
  /\ up /\ work = "busy"
  /\ handlers[Last].pc = "ended"
  /\ \E next \in Runs(jobs) :
       /\ stage < next /\ \A i \in Runs(jobs) : stage < i => next <= i
       /\ stage' = next
  /\ arrived' = arrived + 1
  /\ work' = "idle"
  /\ UNCHANGED <<up, jobs, nilMap, data, errorHit, handlers, viewing, history>>

RollEnd ==
  /\ up /\ work = "busy"
  /\ handlers[Last].pc = "ended"
  /\ \A i \in Runs(jobs) : i <= stage
  /\ arrived' = arrived + 1
  /\ work' = "done"
  /\ UNCHANGED <<up, jobs, nilMap, data, stage, errorHit, handlers, viewing, history>>

\* Mutant: one error more.
BreakOutTooOften ==
  /\ errorHit' = errorHit + 1
  /\ work' = IF errorHit <= MaxHit THEN "idle" ELSE "dead"

BreakOutWithError ==
  /\ errorHit' = errorHit + 1
  /\ work' = IF errorHit < MaxHit THEN "idle" ELSE "dead"

\* Mutant: a failed job is logged and the next one run.
FailGoesOn ==
  /\ up /\ work = "busy"
  /\ handlers[Last].pc = "failed"
  /\ \E next \in Runs(jobs) :
       /\ stage < next /\ \A i \in Runs(jobs) : stage < i => next <= i
       /\ stage' = next
  /\ arrived' = arrived + 1
  /\ work' = "idle"
  /\ UNCHANGED <<up, jobs, nilMap, data, errorHit, handlers, viewing, history>>

Fail ==
  /\ up /\ work = "busy"
  /\ handlers[Last].pc = "failed"
  /\ BreakOutWithError
  /\ UNCHANGED <<up, jobs, nilMap, data, stage, arrived, handlers, viewing, history>>

\* The select takes ctx.Done, at any moment and even when the result is
\* there as well.
Timeout ==
  /\ up /\ work = "busy"
  /\ handlers' = [handlers EXCEPT ![Last].timed = TRUE]
  /\ BreakOutWithError
  /\ UNCHANGED <<up, jobs, nilMap, data, stage, arrived, viewing, history>>

WorkerNext == Excute \/ ExcuteNil \/ Roll \/ RollEnd \/ Fail \/ Timeout

-----------------------------------------------------------------------------
(* MarshalJSON, in the heartbeat, a look, a list, a sync answer or the     *)
(* callback.  A task with no current stage panics it, which only the       *)
(* handlers of the API survive.                                            *)

ViewBegin ==
  /\ up /\ ~viewing
  /\ viewing' = TRUE
  /\ MayClash(Writing # {} \/ stage = 0)
  /\ UNCHANGED <<jobs, nilMap, data, taskVars, handlers, history>>

ViewEnd ==
  /\ up /\ viewing
  /\ viewing' = FALSE
  /\ UNCHANGED <<up, jobs, nilMap, data, taskVars, handlers, history>>

DataNext == HandlerNext \/ WorkerNext \/ ViewBegin \/ ViewEnd

DataSpec == DataInit /\ [][DataNext]_dataVars

-----------------------------------------------------------------------------
Handler ==
  [stage: Nat, pc: {"reading", "calling", "writing", "ended", "failed"},
   todo: SUBSET Key, timed: BOOLEAN]

\* Type invariant.
DataTypeOK ==
  /\ up \in BOOLEAN /\ nilMap \in BOOLEAN /\ viewing \in BOOLEAN /\ late \in BOOLEAN
  /\ jobs \in Streams
  /\ handlers \in Seq(Handler)
  /\ \A a \in Calls : handlers[a].stage \in Runs(jobs)
  /\ data \in [Key -> {Missing, Text, Json} \cup Calls]
  /\ stage \in Runs(jobs) \cup {0}
  /\ arrived \in Nat /\ errorHit \in Nat
  /\ work \in {"idle", "busy", "done", "dead"}
  /\ missed \subseteq Calls \X Key
  /\ readback \subseteq Calls \X Calls

Completed == {i \in Runs(jobs) : i < stage \/ (i = stage /\ work = "done")}

\* In a stream that keeps the README's data-flow rule no job ever misses an
\* input: what GetStreamList does not ask the request for was written by a
\* job before, through any retries, timeouts and late writes.
InputsGiven == FlowRule(jobs) => missed = {}

\* README, line 32: after each stage its values replace what was there, until
\* a later stage replaces them.
LastWins ==
  \A i \in Completed : \A k \in Writes(jobs[i]) :
    data[k] \in Calls /\ handlers[data[k]].stage >= i

\* All outputs of a stage are of one call.
WholeOutputs ==
  \A i \in Completed : \A k, l \in Writes(jobs[i]) :
    /\ data[k] \in Calls /\ handlers[data[k]].stage = i
    /\ data[l] \in Calls /\ handlers[data[l]].stage = i
    => data[k] = data[l]

\* What a job has put into the map stays a job's; and unless a call that was
\* given up wrote late, the newest stage's value is the one that is there,
\* and no stage's outputs are mixed from two attempts.
OutputsInTurn ==
  /\ \A i \in Completed : \A k \in Writes(jobs[i]) : data[k] \in Calls
  /\ ~late => LastWins /\ WholeOutputs

\* Handle is atomic for its task: a job reads what earlier jobs wrote, and
\* the work of an attempt at itself only where a timeout has cut one of the
\* two.  A failed attempt leaves nothing behind.
ReadsEarlier ==
  \A pair \in readback :
    \/ handlers[pair[1]].stage < handlers[pair[2]].stage
    \/ handlers[pair[1]].timed \/ handlers[pair[2]].timed

\* The handlers are called at most once per job and once per error, and
\* without a timeout never two at once: of all calls only the last can be at
\* work and not given up.
CallsBounded ==
  /\ Last <= Len(jobs) + MaxHit
  /\ \A a \in Calls : handlers[a].pc \in {"ended", "failed"} \/ handlers[a].timed
                      \/ (a = Last /\ work = "busy")
=============================================================================
