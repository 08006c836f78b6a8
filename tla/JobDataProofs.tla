---------------------------- MODULE JobDataProofs ----------------------------
(***************************************************************************)
(* Proofs about JobData, for every set of streams and every retry budget:  *)
(* its types, its invariants, and that the task keeps TaskLifecycle.       *)
(***************************************************************************)
EXTENDS JobData, FiniteSetTheorems, TLAPS

\* What a call has put into the map.
Wrote(a) == Writes(JobOf(a)) \ handlers[a].todo

\* A call whose answer excute took.
Kept(a) == handlers[a].pc = "ended" /\ ~handlers[a].timed

\* Calls follow the stages; a completed stage has a last call, which ended;
\* after a call that was kept comes a later stage.
StageInv ==
  /\ \A a \in Calls : handlers[a].stage <= stage
  /\ \A a, b \in Calls : a < b => handlers[a].stage <= handlers[b].stage
  /\ work = "busy" => Last > 0 /\ handlers[Last].stage = stage
  /\ \A i \in Completed : \E c \in Calls :
       /\ handlers[c].stage = i /\ handlers[c].pc = "ended"
       /\ \A b \in Calls : c < b => i < handlers[b].stage
  /\ \A a, b \in Calls : a < b /\ Kept(a) => handlers[a].stage < handlers[b].stage
  /\ work = "idle" => \A a \in Calls : Kept(a) => handlers[a].stage < stage

\* Where a call is tells what it wrote, and what was written stays a call's.
MarkInv ==
  /\ \A a \in Calls :
       /\ handlers[a].todo \subseteq Writes(JobOf(a))
       /\ handlers[a].pc \in {"reading", "calling", "failed"} => Wrote(a) = {}
       /\ handlers[a].pc = "ended" => handlers[a].todo = {}
  /\ \A a \in Calls : \A k \in Wrote(a) : data[k] \in Calls /\ (~late => a <= data[k])
  /\ \A k \in Key : data[k] \in Calls => k \in Wrote(data[k])

Asked == \A k \in Required(jobs) : data[k] # Missing

\* excute was called once for each job that is done and for each error.
CountInv ==
  /\ Last = arrived + errorHit + (IF work = "busy" THEN 1 ELSE 0)
  /\ stage = 0 => Last = 0 /\ work = "idle"
  /\ stage # 0 => arrived <= stage /\ (work # "done" => arrived < stage)
  /\ errorHit <= MaxHit + 1 /\ (work # "dead" => errorHit <= MaxHit)

OneAtWork ==
  \A a \in Calls : handlers[a].pc \in {"ended", "failed"} \/ handlers[a].timed
                   \/ (a = Last /\ work = "busy")

DataInv ==
  /\ DataTypeOK /\ StageInv /\ MarkInv /\ Asked /\ CountInv
  /\ OneAtWork /\ InputsGiven /\ ReadsEarlier

-----------------------------------------------------------------------------
(* Facts about streams and calls.                                          *)

\* A job on the road reads and writes keys.
LEMMA RoadJobs ==
  ASSUME DataTypeOK
  PROVE  /\ jobs \in Seq(JobConfig)
         /\ \A i \in Runs(jobs) :
              /\ i \in Nat /\ 0 < i /\ i <= Len(jobs)
              /\ Writes(jobs[i]) \subseteq Key
              /\ Inputs(jobs[i]) \subseteq Key /\ Reads(jobs[i]) \subseteq Key
<1>1. jobs \in Seq(JobConfig)
  BY DataAssumption DEF DataTypeOK
<1>2. ASSUME NEW i \in Runs(jobs)
      PROVE  /\ i \in Nat /\ 0 < i /\ i <= Len(jobs)
             /\ Writes(jobs[i]) \subseteq Key
             /\ Inputs(jobs[i]) \subseteq Key /\ Reads(jobs[i]) \subseteq Key
  <2>1. i \in 1..Len(jobs) /\ jobs[i] \in JobConfig
    BY <1>1 DEF Runs
  <2>2. Writes(jobs[i]) \subseteq Key
    BY <2>1 DEF Writes, JobConfig, Kind
  <2>3. Inputs(jobs[i]) \subseteq Key /\ Reads(jobs[i]) \subseteq Key
    BY <2>1 DEF Reads, Inputs, JobConfig
  <2> QED  BY <2>1, <2>2, <2>3
<1> QED  BY <1>1, <1>2

LEMMA CallNumbers ==
  ASSUME DataTypeOK
  PROVE  /\ Last \in Nat /\ Calls = 1..Last
         /\ \A a \in Calls : handlers[a] \in Handler /\ handlers[a].stage \in Runs(jobs)
BY DEF DataTypeOK, Calls, Last

\* The call a goes on, as h, and nothing else of task and calls changes.
Moves(a, h) ==
  /\ a \in Calls
  /\ handlers[a].pc \in {"reading", "calling", "writing"}
  /\ h \in Handler
  /\ h.stage = handlers[a].stage /\ h.timed = handlers[a].timed
  /\ handlers' = [handlers EXCEPT ![a] = h]
  /\ UNCHANGED <<jobs, taskVars>>

LEMMA MovedCalls ==
  ASSUME DataTypeOK, NEW a, NEW h, Moves(a, h)
  PROVE  /\ handlers' \in Seq(Handler)
         /\ Calls' = Calls /\ Last' = Last
         /\ \A b \in Calls : handlers'[b] = IF b = a THEN h ELSE handlers[b]
         /\ \A b \in Calls : JobOf(b)' = JobOf(b)
<1>1. handlers \in Seq(Handler) /\ a \in Calls /\ h \in Handler
  BY DEF DataTypeOK, Moves
<1>2. handlers' \in Seq(Handler) /\ Len(handlers') = Len(handlers)
  BY <1>1 DEF Moves, Calls
<1>3. DOMAIN handlers' = DOMAIN handlers
  BY <1>1 DEF Moves
<1>4. \A b \in Calls : handlers'[b] = IF b = a THEN h ELSE handlers[b]
  BY <1>1 DEF Moves, Calls
<1> QED
  BY <1>2, <1>3, <1>4 DEF Calls, Last, JobOf, Moves

\* What does not depend on the map survives every step of a call.
LEMMA MovesKeep ==
  ASSUME DataInv, NEW a, NEW h, Moves(a, h)
  PROVE  StageInv' /\ CountInv' /\ OneAtWork'
<1> USE MovedCalls, CallNumbers
<1>1. /\ DataTypeOK /\ StageInv /\ CountInv /\ OneAtWork
  BY DEF DataInv
<1>2. /\ Completed' = Completed
      /\ work' = work /\ stage' = stage /\ Calls' = Calls /\ Last' = Last
  BY <1>1 DEF Moves, Completed, taskVars
<1>3. \A b \in Calls : handlers'[b].stage = handlers[b].stage /\ handlers'[b].timed = handlers[b].timed
  BY <1>1 DEF Moves
<1>4. \A b \in Calls : handlers[b].pc \in {"ended", "failed"} => handlers'[b].pc = handlers[b].pc
  BY <1>1 DEF Moves
<1>5. \A b \in Calls : Kept(b)' => Kept(b) \/ (b = Last /\ work = "busy")
  <2> TAKE b \in Calls
  <2>1. CASE b # a
    BY <1>1, <2>1 DEF Kept
  <2>2. CASE b = a
    BY <1>1, <1>3, <2>2 DEF Kept, OneAtWork, Moves
  <2> QED  BY <2>1, <2>2
<1>6. CountInv'
  BY <1>1 DEF CountInv, Moves, taskVars
<1>7. OneAtWork'
  BY <1>1, <1>3, <1>4 DEF OneAtWork, Moves, taskVars
<1>8. StageInv'
  <2>1. /\ \A b \in Calls' : handlers'[b].stage <= stage'
        /\ \A b, c \in Calls' : b < c => handlers'[b].stage <= handlers'[c].stage
        /\ work' = "busy" => Last' > 0 /\ handlers'[Last'].stage = stage'
    <3>1. work = "busy" => Last \in Calls
      BY <1>1 DEF StageInv
    <3> QED  BY <1>1, <1>2, <1>3, <3>1 DEF StageInv
  <2>2. \A i \in Completed' : \E c \in Calls' :
          /\ handlers'[c].stage = i /\ handlers'[c].pc = "ended"
          /\ \A b \in Calls' : c < b => i < handlers'[b].stage
    BY <1>1, <1>2, <1>3, <1>4 DEF StageInv
  <2>3. \A b, c \in Calls' : b < c /\ Kept(b)' => handlers'[b].stage < handlers'[c].stage
    <3> TAKE b, c \in Calls'
    <3> HAVE b < c /\ Kept(b)'
    <3>1. b \in Calls /\ c \in Calls /\ c <= Last
      BY <1>1
    <3>2. Kept(b)
      BY <1>1, <1>5, <3>1
    <3> QED  BY <1>1, <1>3, <3>1, <3>2 DEF StageInv
  <2>4. work' = "idle" => \A b \in Calls' : Kept(b)' => handlers'[b].stage < stage'
    BY <1>2, <1>1, <1>3, <1>5 DEF StageInv
  <2> QED  BY <2>1, <2>2, <2>3, <2>4 DEF StageInv
<1> QED  BY <1>6, <1>7, <1>8

-----------------------------------------------------------------------------
(* The steps of a call.                                                    *)

LEMMA ReadKeeps ==
  ASSUME DataInv, NEW a \in Calls, Read(a)
  PROVE  DataInv'
<1> DEFINE pc == IF JobOf(a).kind = "search" /\ data[JobOf(a).query] \in {Missing, Json}
                   THEN "failed" ELSE "calling"
           h  == [handlers[a] EXCEPT !.pc = pc]
<1>1. /\ DataTypeOK /\ StageInv /\ MarkInv /\ Asked /\ CountInv
      /\ OneAtWork /\ InputsGiven /\ ReadsEarlier
  BY DEF DataInv
<1>2. /\ Last \in Nat /\ Calls = 1..Last
      /\ \A b \in Calls : handlers[b] \in Handler /\ handlers[b].stage \in Runs(jobs)
  BY <1>1, CallNumbers
<1>3. /\ h \in Handler /\ h.stage = handlers[a].stage /\ h.timed = handlers[a].timed
      /\ h.todo = handlers[a].todo /\ h.pc = pc
  BY <1>2 DEF Handler
<1>4. /\ Moves(a, h)
      /\ up' \in BOOLEAN
      /\ UNCHANGED <<jobs, nilMap, data, taskVars, viewing, late>>
  BY <1>2, <1>3 DEF Read, Moves, MayClash, SetHandler
<1>5. /\ handlers' \in Seq(Handler)
      /\ Calls' = Calls /\ Last' = Last
      /\ \A b \in Calls : handlers'[b] = IF b = a THEN h ELSE handlers[b]
      /\ \A b \in Calls : JobOf(b)' = JobOf(b)
  BY <1>1, <1>4, MovedCalls
<1>6. StageInv' /\ CountInv' /\ OneAtWork'
  BY <1>4, MovesKeep
<1>7. Inputs(JobOf(a)) \subseteq Key /\ Reads(JobOf(a)) \subseteq Key
  BY <1>1, <1>2, RoadJobs DEF JobOf
<1>8. DataTypeOK'
  <2>1. missed' \subseteq Calls \X Key /\ readback' \subseteq Calls \X Calls
    BY <1>1, <1>7 DEF Read, DataTypeOK
  <2> QED
    BY <1>1, <1>2, <1>3, <1>4, <1>5, <2>1 DEF DataTypeOK, taskVars
<1>9. MarkInv'
  <2>1. \A b \in Calls : Wrote(b)' = Wrote(b) /\ handlers'[b].todo = handlers[b].todo
    BY <1>3, <1>5 DEF Wrote
  <2>2. data' = data /\ late' = late
    BY <1>4
  <2>3. \A b \in Calls :
          /\ handlers'[b].pc \in {"reading", "calling", "failed"} => Wrote(b) = {}
          /\ handlers'[b].pc = "ended" => handlers[b].todo = {}
    <3>1. Wrote(a) = {} /\ pc \in {"failed", "calling"}
      BY <1>1 DEF MarkInv, Read
    <3> HIDE DEF pc
    <3> QED  BY <1>1, <1>3, <1>5, <3>1 DEF MarkInv
  <2>4. \A b \in Calls' : /\ handlers'[b].todo \subseteq Writes(JobOf(b)')
                          /\ handlers'[b].pc \in {"reading", "calling", "failed"} => Wrote(b)' = {}
                          /\ handlers'[b].pc = "ended" => handlers'[b].todo = {}
    BY <1>1, <1>5, <2>1, <2>3 DEF MarkInv
  <2>5. \A b \in Calls' : \A k \in Wrote(b)' : data'[k] \in Calls' /\ (~late' => b <= data'[k])
    BY <1>1, <1>5, <2>1, <2>2 DEF MarkInv
  <2>6. \A k \in Key : data'[k] \in Calls' => k \in Wrote(data[k])'
    BY <1>1, <1>5, <2>1, <2>2 DEF MarkInv
  <2> QED  BY <2>2, <2>4, <2>5, <2>6 DEF MarkInv
<1>10. Asked'
  BY <1>1, <1>4 DEF Asked
<1>11. InputsGiven'
  <2> SUFFICES ASSUME FlowRule(jobs)
               PROVE  \A k \in Inputs(JobOf(a)) : data[k] # Missing
    BY <1>1, <1>4 DEF InputsGiven, Read
  <2> TAKE k \in Inputs(JobOf(a))
  <2>1. k \in Required(jobs) \/ \E j \in Runs(jobs) : j < handlers[a].stage /\ k \in Writes(jobs[j])
    BY <1>2 DEF FlowRule, JobOf
  <2>2. CASE k \in Required(jobs)
    BY <1>1, <2>2 DEF Asked
  <2>3. CASE \E j \in Runs(jobs) : j < handlers[a].stage /\ k \in Writes(jobs[j])
    <3>1. PICK j \in Runs(jobs) : j < handlers[a].stage /\ k \in Writes(jobs[j])
      BY <2>3
    <3>2. j \in Nat /\ handlers[a].stage \in Nat /\ handlers[a].stage <= stage /\ stage \in Nat
      BY <1>1, <1>2, RoadJobs DEF StageInv, DataTypeOK
    <3>3. j \in Completed
      BY <3>1, <3>2 DEF Completed
    <3>4. PICK c \in Calls : handlers[c].stage = j /\ handlers[c].pc = "ended"
      BY <1>1, <3>3 DEF StageInv
    <3>5. k \in Wrote(c)
      BY <1>1, <3>1, <3>4 DEF MarkInv, Wrote, JobOf
    <3>6. data[k] \in Calls
      BY <1>1, <3>5 DEF MarkInv
    <3> QED  BY <1>2, <3>6, DataAssumption
  <2> QED  BY <2>1, <2>2, <2>3
<1>12. ReadsEarlier'
  <2>1. \A b \in Calls : handlers'[b].stage = handlers[b].stage /\ handlers'[b].timed = handlers[b].timed
    BY <1>3, <1>5
  <2>2. \A pair \in readback : pair[1] \in Calls /\ pair[2] \in Calls
    BY <1>1 DEF DataTypeOK
  <2>3. ASSUME NEW k \in Reads(JobOf(a)), data[k] \in Calls
        PROVE  \/ handlers[data[k]].stage < handlers[a].stage
               \/ handlers[data[k]].timed \/ handlers[a].timed
    <3> DEFINE b == data[k]
    <3>1. SUFFICES ASSUME ~handlers[a].timed, ~handlers[b].timed
                   PROVE  handlers[b].stage < handlers[a].stage
      OBVIOUS
    <3>2. a = Last
      BY <1>1, <1>4, <3>1 DEF OneAtWork, Moves, Read
    <3>3. k \in Wrote(b) /\ Wrote(a) = {}
      BY <1>1, <1>7, <2>3 DEF MarkInv, Read
    <3>4. b < a
      BY <1>2, <2>3, <3>2, <3>3
    <3>5. handlers[b].pc = "ended"
      <4>1. handlers[b].pc \notin {"reading", "calling", "failed"}
        BY <1>1, <2>3, <3>3 DEF MarkInv
      <4>2. handlers[b].pc \in {"ended", "failed"}
        BY <1>1, <1>2, <2>3, <3>1, <3>2, <3>4 DEF OneAtWork
      <4> QED  BY <4>1, <4>2
    <3> QED  BY <1>1, <2>3, <3>1, <3>4, <3>5 DEF StageInv, Kept
  <2>4. \A pair \in readback' : pair \in readback
          \/ \E k \in Reads(JobOf(a)) : data[k] \in Calls /\ pair = <<data[k], a>>
    BY DEF Read
  <2>5. ASSUME NEW pair \in readback'
        PROVE  \/ handlers'[pair[1]].stage < handlers'[pair[2]].stage
               \/ handlers'[pair[1]].timed \/ handlers'[pair[2]].timed
    <3>1. CASE pair \in readback
      BY <1>1, <2>1, <2>2, <3>1 DEF ReadsEarlier
    <3>2. CASE \E k \in Reads(JobOf(a)) : data[k] \in Calls /\ pair = <<data[k], a>>
      BY <2>1, <2>3, <3>2
    <3> QED  BY <2>4, <3>1, <3>2
  <2> QED  BY <2>5 DEF ReadsEarlier
<1> QED
  BY <1>6, <1>8, <1>9, <1>10, <1>11, <1>12 DEF DataInv

\* A step of a call that leaves the map alone.
LEMMA TurnKeeps ==
  ASSUME DataInv, NEW a \in Calls, NEW pc \in {"writing", "ended", "failed"},
         handlers[a].pc \in {"reading", "calling", "writing"},
         pc = "failed" => Wrote(a) = {},
         pc = "ended" => handlers[a].todo = {},
         SetHandler(a, pc), up' \in BOOLEAN,
         UNCHANGED <<jobs, nilMap, data, taskVars, viewing, history>>
  PROVE  DataInv'
<1> DEFINE h == [handlers[a] EXCEPT !.pc = pc]
<1>1. /\ DataTypeOK /\ StageInv /\ MarkInv /\ Asked /\ CountInv
      /\ OneAtWork /\ InputsGiven /\ ReadsEarlier
  BY DEF DataInv
<1>2. /\ Last \in Nat /\ Calls = 1..Last
      /\ \A b \in Calls : handlers[b] \in Handler /\ handlers[b].stage \in Runs(jobs)
  BY <1>1, CallNumbers
<1>3. /\ h \in Handler /\ h.stage = handlers[a].stage /\ h.timed = handlers[a].timed
      /\ h.todo = handlers[a].todo /\ h.pc = pc
  BY <1>2 DEF Handler
<1>4. Moves(a, h)
  BY <1>2, <1>3 DEF Moves, SetHandler
<1>5. /\ handlers' \in Seq(Handler)
      /\ Calls' = Calls /\ Last' = Last
      /\ \A b \in Calls : handlers'[b] = IF b = a THEN h ELSE handlers[b]
      /\ \A b \in Calls : JobOf(b)' = JobOf(b)
  BY <1>1, <1>4, MovedCalls
<1>6. StageInv' /\ CountInv' /\ OneAtWork'
  BY <1>4, MovesKeep
<1>7. /\ jobs' = jobs /\ data' = data /\ late' = late
      /\ missed' = missed /\ readback' = readback
  BY DEF history
<1>8. DataTypeOK'
  BY <1>1, <1>2, <1>3, <1>5, <1>7 DEF DataTypeOK, taskVars
<1>9. MarkInv'
  <2>1. \A b \in Calls : Wrote(b)' = Wrote(b) /\ handlers'[b].todo = handlers[b].todo
    BY <1>3, <1>5 DEF Wrote
  <2>2. \A b \in Calls :
          /\ handlers'[b].pc \in {"reading", "calling", "failed"} => Wrote(b) = {}
          /\ handlers'[b].pc = "ended" => handlers[b].todo = {}
    BY <1>1, <1>3, <1>5 DEF MarkInv
  <2>3. \A b \in Calls' : /\ handlers'[b].todo \subseteq Writes(JobOf(b)')
                          /\ handlers'[b].pc \in {"reading", "calling", "failed"} => Wrote(b)' = {}
                          /\ handlers'[b].pc = "ended" => handlers'[b].todo = {}
    BY <1>1, <1>5, <2>1, <2>2 DEF MarkInv
  <2>4. \A b \in Calls' : \A k \in Wrote(b)' : data'[k] \in Calls' /\ (~late' => b <= data'[k])
    BY <1>1, <1>5, <1>7, <2>1 DEF MarkInv
  <2>5. \A k \in Key : data'[k] \in Calls' => k \in Wrote(data[k])'
    BY <1>1, <1>5, <1>7, <2>1 DEF MarkInv
  <2> QED  BY <1>7, <2>3, <2>4, <2>5 DEF MarkInv
<1>10. Asked' /\ InputsGiven'
  BY <1>1, <1>7 DEF Asked, InputsGiven
<1>11. ReadsEarlier'
  <2>1. \A b \in Calls : handlers'[b].stage = handlers[b].stage /\ handlers'[b].timed = handlers[b].timed
    BY <1>3, <1>5
  <2>2. \A pair \in readback : pair[1] \in Calls /\ pair[2] \in Calls
    BY <1>1 DEF DataTypeOK
  <2> QED  BY <1>1, <1>7, <2>1, <2>2 DEF ReadsEarlier
<1> QED
  BY <1>6, <1>8, <1>9, <1>10, <1>11 DEF DataInv

LEMMA WriteKeeps ==
  ASSUME DataInv, NEW a \in Calls, NEW k \in Key, Write(a, k)
  PROVE  DataInv'
<1> DEFINE h == [handlers[a] EXCEPT !.todo = @ \ {k}]
<1>1. /\ DataTypeOK /\ StageInv /\ MarkInv /\ Asked /\ CountInv
      /\ OneAtWork /\ InputsGiven /\ ReadsEarlier
  BY DEF DataInv
<1>2. /\ Last \in Nat /\ Calls = 1..Last
      /\ \A b \in Calls : handlers[b] \in Handler /\ handlers[b].stage \in Runs(jobs)
  BY <1>1, CallNumbers
<1>3. /\ h \in Handler /\ h.stage = handlers[a].stage /\ h.timed = handlers[a].timed
      /\ h.todo = handlers[a].todo \ {k} /\ h.pc = "writing"
  BY <1>2 DEF Handler, Write
<1>4. Moves(a, h)
  BY <1>2, <1>3 DEF Moves, Write
<1>5. /\ handlers' \in Seq(Handler)
      /\ Calls' = Calls /\ Last' = Last
      /\ \A b \in Calls : handlers'[b] = IF b = a THEN h ELSE handlers[b]
      /\ \A b \in Calls : JobOf(b)' = JobOf(b)
  BY <1>1, <1>4, MovedCalls
<1>6. StageInv' /\ CountInv' /\ OneAtWork'
  BY <1>4, MovesKeep
<1>7. /\ data \in [Key -> {Missing, Text, Json} \cup Calls]
      /\ data' = [data EXCEPT ![k] = a]
      /\ data' \in [Key -> {Missing, Text, Json} \cup Calls]
      /\ late' = (late \/ a < Last)
      /\ up' \in BOOLEAN /\ jobs' = jobs /\ missed' = missed /\ readback' = readback
  BY <1>1 DEF Write, MayClash, DataTypeOK
<1>8. DataTypeOK'
  BY <1>1, <1>2, <1>3, <1>5, <1>7 DEF DataTypeOK, taskVars, Write
<1>9. MarkInv'
  <2>1. /\ k \in handlers[a].todo /\ k \in Writes(JobOf(a))
        /\ handlers[a].pc = "writing"
    BY <1>1 DEF MarkInv, Write
  <2>2. \A b \in Calls : Wrote(b)' = IF b = a THEN Wrote(a) \cup {k} ELSE Wrote(b)
    BY <1>3, <1>5, <2>1 DEF Wrote
  <2>3. \A b \in Calls' : /\ handlers'[b].todo \subseteq Writes(JobOf(b)')
                          /\ handlers'[b].pc \in {"reading", "calling", "failed"} => Wrote(b)' = {}
                          /\ handlers'[b].pc = "ended" => handlers'[b].todo = {}
    <3> TAKE b \in Calls'
    <3>1. CASE b = a
      BY <1>1, <1>3, <1>5, <2>1, <3>1 DEF MarkInv
    <3>2. CASE b # a
      BY <1>1, <1>5, <2>2, <3>2 DEF MarkInv
    <3> QED  BY <3>1, <3>2
  <2>4. ASSUME NEW b \in Calls, NEW l \in Wrote(b)'
        PROVE  data'[l] \in Calls /\ (~late' => b <= data'[l])
    <3>1. l \in Key
      BY <1>1, <1>2, <1>5, RoadJobs DEF Wrote, JobOf
    <3>0. ~late' => ~late /\ ~(a < Last)
      BY <1>7
    <3>2. CASE l = k
      <4>1. data'[l] = a /\ a \in 1..Last /\ b \in 1..Last /\ Last \in Nat
        BY <1>2, <1>7, <3>2
      <4>2. ~late' => b <= a
        BY <3>0, <4>1
      <4> QED  BY <4>1, <4>2
    <3>3. CASE l # k
      <4>1. l \in Wrote(b) /\ data'[l] = data[l]
        BY <1>7, <2>2, <3>1, <3>3
      <4>2. data[l] \in Calls /\ (~late => b <= data[l])
        BY <1>1, <4>1 DEF MarkInv
      <4> QED  BY <3>0, <4>1, <4>2
    <3> QED  BY <3>2, <3>3
  <2>5. ASSUME NEW l \in Key, data'[l] \in Calls
        PROVE  l \in Wrote(data[l])'
    <3>1. CASE l = k
      BY <1>7, <2>2, <3>1
    <3>2. CASE l # k
      BY <1>1, <1>7, <2>2, <2>5, <3>2 DEF MarkInv
    <3> QED  BY <3>1, <3>2
  <2> QED  BY <1>5, <2>3, <2>4, <2>5 DEF MarkInv
<1>10. Asked' /\ InputsGiven'
  <2>1. a # Missing
    BY <1>2, DataAssumption
  <2>2. Asked'
    BY <1>1, <1>7, <2>1 DEF Asked
  <2> QED  BY <1>1, <1>7, <2>2 DEF InputsGiven
<1>11. ReadsEarlier'
  <2>1. \A b \in Calls : handlers'[b].stage = handlers[b].stage /\ handlers'[b].timed = handlers[b].timed
    BY <1>3, <1>5
  <2>2. \A pair \in readback : pair[1] \in Calls /\ pair[2] \in Calls
    BY <1>1 DEF DataTypeOK
  <2> QED  BY <1>1, <1>7, <2>1, <2>2 DEF ReadsEarlier
<1> QED
  BY <1>6, <1>8, <1>9, <1>10, <1>11 DEF DataInv

\* The steps that change neither task nor calls nor map: the process ends, or
\* somebody looks.
LEMMA AsideKeeps ==
  ASSUME DataInv, up' \in BOOLEAN, viewing' \in BOOLEAN,
         UNCHANGED <<jobs, nilMap, data, taskVars, handlers, history>>
  PROVE  DataInv'
<1>1. UNCHANGED <<jobs, nilMap, data, stage, arrived, errorHit, work, handlers, late, missed, readback>>
  BY DEF taskVars, history
<1>2. /\ Calls' = Calls /\ Last' = Last /\ Completed' = Completed
      /\ \A a : JobOf(a)' = JobOf(a) /\ Wrote(a)' = Wrote(a) /\ (Kept(a)' <=> Kept(a))
  BY <1>1 DEF Calls, Last, Completed, JobOf, Wrote, Kept
<1>3. DataTypeOK'
  BY <1>1, <1>2 DEF DataInv, DataTypeOK
<1>4. StageInv' /\ CountInv' /\ OneAtWork'
  BY <1>1, <1>2 DEF DataInv, StageInv, CountInv, OneAtWork
<1>5. MarkInv'
  BY <1>1, <1>2 DEF DataInv, MarkInv
<1>6. Asked' /\ InputsGiven' /\ ReadsEarlier'
  BY <1>1, <1>2 DEF DataInv, Asked, InputsGiven, ReadsEarlier
<1> QED
  BY <1>3, <1>4, <1>5, <1>6 DEF DataInv

LEMMA HandlerKeeps ==
  ASSUME DataInv, HandlerNext
  PROVE  DataInv'
<1>0. /\ MarkInv /\ DataTypeOK
      /\ \A a \in Calls : handlers[a].pc \in {"reading", "calling"} => Wrote(a) = {}
  BY DEF DataInv, MarkInv
<1>1. PICK a \in Calls :
        \/ Read(a) \/ CallFails(a) \/ CallAnswers(a) \/ AnswersNull(a)
        \/ WriteNil(a) \/ Return(a)
        \/ \E k \in Key : Write(a, k)
  BY DEF HandlerNext
<1>2. CASE Read(a)
  BY <1>2, ReadKeeps
<1>3. CASE CallFails(a)
  BY <1>0, <1>3, TurnKeeps DEF CallFails, MayClash
<1>4. CASE CallAnswers(a)
  BY <1>0, <1>4, TurnKeeps DEF CallAnswers, DataTypeOK
<1>5. CASE AnswersNull(a)
  BY <1>0, <1>5, AsideKeeps DEF AnswersNull, DataTypeOK
<1>6. CASE WriteNil(a)
  BY <1>0, <1>6, AsideKeeps DEF WriteNil, DataTypeOK
<1>7. CASE Return(a)
  BY <1>0, <1>7, TurnKeeps DEF Return, MayClash
<1>8. CASE \E k \in Key : Write(a, k)
  BY <1>8, WriteKeeps
<1> QED
  BY <1>1, <1>2, <1>3, <1>4, <1>5, <1>6, <1>7, <1>8

-----------------------------------------------------------------------------
(* The steps of the worker.                                                *)

LEMMA ExcuteKeeps ==
  ASSUME DataInv, Excute
  PROVE  DataInv'
<1> DEFINE h == [stage |-> stage, pc |-> "reading", todo |-> Writes(jobs[stage]), timed |-> FALSE]
<1>1. /\ DataTypeOK /\ StageInv /\ MarkInv /\ Asked /\ CountInv
      /\ OneAtWork /\ InputsGiven /\ ReadsEarlier
  BY DEF DataInv
<1>2. /\ Last \in Nat /\ Calls = 1..Last
      /\ \A b \in Calls : handlers[b] \in Handler /\ handlers[b].stage \in Runs(jobs)
  BY <1>1, CallNumbers
<1>n. PICK n \in Nat : n = Last + 1
  BY <1>2
<1>3. stage \in Runs(jobs) /\ stage \in Nat /\ Writes(jobs[stage]) \subseteq Key
  BY <1>1, RoadJobs DEF DataTypeOK, Excute
<1>4. h \in Handler
  BY <1>3 DEF Handler
<1>5. /\ handlers' \in Seq(Handler) /\ Last' = n /\ Calls' = 1..n
      /\ handlers'[n] = h
      /\ \A b \in Calls : b \in Calls' /\ b < n /\ handlers'[b] = handlers[b]
      /\ \A b \in Calls' : b \in Calls \/ b = n
  BY <1>1, <1>2, <1>n, <1>4 DEF DataTypeOK, Excute, Last, Calls
<1>6. /\ work = "idle" /\ work' = "busy" /\ stage # 0
      /\ UNCHANGED <<up, jobs, nilMap, data, stage, arrived, errorHit, viewing, late, missed, readback>>
  BY DEF Excute, history
<1>7. DataTypeOK'
  <2>1. Calls \subseteq Calls'
    BY <1>5
  <2>2. /\ data' \in [Key -> {Missing, Text, Json} \cup Calls']
        /\ missed' \subseteq Calls' \X Key /\ readback' \subseteq Calls' \X Calls'
    BY <1>1, <1>6, <2>1 DEF DataTypeOK
  <2>3. \A a \in Calls' : handlers'[a].stage \in Runs(jobs')
    BY <1>2, <1>3, <1>5, <1>6
  <2>4. /\ up' \in BOOLEAN /\ nilMap' \in BOOLEAN /\ viewing' \in BOOLEAN /\ late' \in BOOLEAN
        /\ jobs' \in Streams /\ stage' \in Runs(jobs') \cup {0}
        /\ arrived' \in Nat /\ errorHit' \in Nat
        /\ work' \in {"idle", "busy", "done", "dead"}
    BY <1>1, <1>6 DEF DataTypeOK
  <2> QED  BY <1>5, <2>2, <2>3, <2>4 DEF DataTypeOK
<1>8. StageInv'
  <2>1. Completed' = Completed /\ \A i \in Completed : i < stage
    BY <1>6 DEF Completed
  <2>2. \A a \in Calls : handlers[a].stage <= stage /\ (Kept(a) => handlers[a].stage < stage)
    BY <1>1, <1>6 DEF StageInv
  <2>3. ~Kept(n)' /\ \A a \in Calls : Kept(a)' <=> Kept(a)
    BY <1>5 DEF Kept
  <2>4. \A a \in Calls' : handlers'[a].stage <= stage'
    BY <1>3, <1>5, <1>6, <2>2
  <2>5. \A a, b \in Calls' : a < b => handlers'[a].stage <= handlers'[b].stage
    BY <1>1, <1>2, <1>5, <1>6, <2>2 DEF StageInv
  <2>6. \A i \in Completed' : \E c \in Calls' :
          /\ handlers'[c].stage = i /\ handlers'[c].pc = "ended"
          /\ \A b \in Calls' : c < b => i < handlers'[b].stage
    <3> TAKE i \in Completed'
    <3>1. PICK c \in Calls : /\ handlers[c].stage = i /\ handlers[c].pc = "ended"
                             /\ \A b \in Calls : c < b => i < handlers[b].stage
      BY <1>1, <2>1 DEF StageInv
    <3>2. \A b \in Calls' : c < b => i < handlers'[b].stage
      BY <1>5, <2>1, <3>1
    <3> QED  BY <1>5, <3>1, <3>2
  <2>7. \A a, b \in Calls' : a < b /\ Kept(a)' => handlers'[a].stage < handlers'[b].stage
    <3> TAKE a, b \in Calls'
    <3> HAVE a < b /\ Kept(a)'
    <3>1. a \in Calls /\ Kept(a)
      BY <1>5, <2>3
    <3>2. CASE b = n
      BY <1>5, <2>2, <3>1, <3>2
    <3>3. CASE b \in Calls
      BY <1>1, <1>5, <3>1, <3>3 DEF StageInv
    <3> QED  BY <1>5, <3>2, <3>3
  <2>8. work' = "busy" => Last' > 0 /\ handlers'[Last'].stage = stage'
    BY <1>2, <1>n, <1>5, <1>6
  <2> QED  BY <1>6, <2>4, <2>5, <2>6, <2>7, <2>8 DEF StageInv
<1>9. MarkInv'
  <2>1. /\ Wrote(n)' = {} /\ JobOf(n)' = jobs[stage]
        /\ \A b \in Calls : Wrote(b)' = Wrote(b) /\ JobOf(b)' = JobOf(b)
    BY <1>5, <1>6 DEF Wrote, JobOf
  <2>2. \A b \in Calls' : /\ handlers'[b].todo \subseteq Writes(JobOf(b)')
                          /\ handlers'[b].pc \in {"reading", "calling", "failed"} => Wrote(b)' = {}
                          /\ handlers'[b].pc = "ended" => handlers'[b].todo = {}
    BY <1>1, <1>5, <2>1 DEF MarkInv
  <2>3. \A b \in Calls' : \A k \in Wrote(b)' : data'[k] \in Calls' /\ (~late' => b <= data'[k])
    BY <1>1, <1>5, <1>6, <2>1 DEF MarkInv
  <2>4. \A k \in Key : data'[k] \in Calls' => k \in Wrote(data[k])'
    <3> TAKE k \in Key
    <3>1. data[k] \in {Missing, Text, Json} \cup Calls
      BY <1>1 DEF DataTypeOK
    <3>2. data[k] # n
      BY <1>2, <1>n, <3>1, DataAssumption
    <3> QED  BY <1>1, <1>5, <1>6, <2>1, <3>2 DEF MarkInv
  <2> QED  BY <1>6, <2>2, <2>3, <2>4 DEF MarkInv
<1>10. Asked' /\ InputsGiven'
  BY <1>1, <1>6 DEF Asked, InputsGiven
<1>11. CountInv'
  BY <1>1, <1>2, <1>n, <1>5, <1>6 DEF CountInv, DataTypeOK
<1>12. OneAtWork'
  BY <1>1, <1>5, <1>6 DEF OneAtWork
<1>13. ReadsEarlier'
  <2>1. \A pair \in readback : pair[1] \in Calls /\ pair[2] \in Calls
    BY <1>1 DEF DataTypeOK
  <2> QED  BY <1>1, <1>5, <1>6, <2>1 DEF ReadsEarlier
<1> QED
  BY <1>7, <1>8, <1>9, <1>10, <1>11, <1>12, <1>13 DEF DataInv

\* While the worker is inside excute its last call is of the current stage.
LEMMA LastCall ==
  ASSUME DataInv, work = "busy"
  PROVE  /\ Last \in Nat /\ Calls = 1..Last /\ Last \in Calls
         /\ handlers[Last].stage = stage /\ stage \in Runs(jobs) /\ stage \in Nat /\ stage # 0
         /\ \A b \in Calls : handlers[b].stage \in Nat /\ b <= Last
         /\ \A i \in Runs(jobs) : i \in Nat /\ i <= Len(jobs)
<1>1. DataTypeOK /\ StageInv
  BY DEF DataInv
<1>2. Last \in Nat /\ Calls = 1..Last /\ Last \in Calls
  BY <1>1, CallNumbers DEF StageInv
<1>3. handlers[Last].stage = stage /\ stage \in Runs(jobs)
  BY <1>1, <1>2, CallNumbers DEF StageInv
<1> QED  BY <1>1, <1>2, <1>3, CallNumbers, RoadJobs

\* What a step of the worker on its counters alone cannot disturb.
LEMMA CountersOnly ==
  ASSUME DataInv, UNCHANGED <<up, jobs, nilMap, data, handlers, viewing, history>>
  PROVE  MarkInv' /\ Asked' /\ InputsGiven' /\ ReadsEarlier'
<1>1. UNCHANGED <<jobs, data, handlers, late, missed, readback>>
  BY DEF history
<1>2. /\ Calls' = Calls /\ \A a : JobOf(a)' = JobOf(a) /\ Wrote(a)' = Wrote(a)
  BY <1>1 DEF Calls, JobOf, Wrote
<1>3. MarkInv'
  BY <1>1, <1>2 DEF DataInv, MarkInv
<1> QED  BY <1>1, <1>3 DEF DataInv, Asked, InputsGiven, ReadsEarlier

LEMMA RollKeeps ==
  ASSUME DataInv, Roll \/ RollEnd
  PROVE  DataInv'
<1>1. /\ DataTypeOK /\ StageInv /\ CountInv /\ OneAtWork
  BY DEF DataInv
<1>2. /\ Last \in Nat /\ Calls = 1..Last /\ Last \in Calls
      /\ handlers[Last].stage = stage /\ stage \in Runs(jobs) /\ stage \in Nat /\ stage # 0
      /\ \A b \in Calls : handlers[b].stage \in Nat /\ b <= Last
      /\ \A i \in Runs(jobs) : i \in Nat /\ i <= Len(jobs)
  BY LastCall DEF Roll, RollEnd
<1>3. /\ UNCHANGED <<up, jobs, nilMap, data, errorHit, handlers, viewing, history>>
      /\ Calls' = Calls /\ Last' = Last /\ \A a : Kept(a)' <=> Kept(a)
      /\ work = "busy" /\ handlers[Last].pc = "ended" /\ arrived' = arrived + 1
      /\ work' \in {"idle", "done"}
  BY DEF Roll, RollEnd, Calls, Last, Kept
<1>4. /\ stage' \in Runs(jobs) /\ stage' \in Nat /\ stage <= stage'
      /\ work' = "idle" => stage < stage'
      /\ \A i \in Completed' : i \in Completed \/ i = stage
  <2>1. CASE Roll
    BY <1>2, <2>1 DEF Roll, Completed
  <2>2. CASE RollEnd
    BY <1>2, <2>2 DEF RollEnd, Completed
  <2> QED  BY <2>1, <2>2
<1>5. DataTypeOK'
  BY <1>1, <1>3, <1>4 DEF DataTypeOK, history
<1>6. StageInv'
  <2>1. \A a \in Calls : handlers[a].stage <= stage
    BY <1>1 DEF StageInv
  <2>2. \A a \in Calls' : handlers'[a].stage <= stage' /\ (work' = "idle" => handlers'[a].stage < stage')
    BY <1>2, <1>3, <1>4, <2>1
  <2>3. \A i \in Completed' : \E c \in Calls' :
          /\ handlers'[c].stage = i /\ handlers'[c].pc = "ended"
          /\ \A b \in Calls' : c < b => i < handlers'[b].stage
    <3> TAKE i \in Completed'
    <3>1. CASE i \in Completed
      BY <1>1, <1>3, <3>1 DEF StageInv
    <3>2. CASE i = stage
      BY <1>2, <1>3, <3>2
    <3> QED  BY <1>4, <3>1, <3>2
  <2> QED  BY <1>1, <1>3, <2>2, <2>3 DEF StageInv
<1>7. CountInv'
  <2>1. arrived' <= stage' /\ (work' = "idle" => arrived' < stage')
    BY <1>1, <1>2, <1>3, <1>4 DEF CountInv, DataTypeOK
  <2>2. errorHit' = errorHit /\ Last' = arrived' + errorHit'
    BY <1>1, <1>2, <1>3 DEF CountInv, DataTypeOK
  <2> QED  BY <1>1, <1>2, <1>3, <1>4, <2>1, <2>2 DEF CountInv
<1>8. OneAtWork'
  BY <1>1, <1>3 DEF OneAtWork
<1> QED
  BY <1>3, <1>5, <1>6, <1>7, <1>8, CountersOnly DEF DataInv

LEMMA FailKeeps ==
  ASSUME DataInv, Fail
  PROVE  DataInv'
<1>1. /\ DataTypeOK /\ StageInv /\ CountInv /\ OneAtWork
      /\ \A a, b \in Calls : a < b /\ Kept(a) => handlers[a].stage < handlers[b].stage
  BY DEF DataInv, StageInv
<1>2. /\ Last \in Nat /\ Calls = 1..Last /\ Last \in Calls
      /\ handlers[Last].stage = stage /\ stage \in Runs(jobs) /\ stage \in Nat /\ stage # 0
      /\ \A b \in Calls : handlers[b].stage \in Nat /\ b <= Last
  BY LastCall DEF Fail
<1>3. /\ UNCHANGED <<up, jobs, nilMap, data, stage, arrived, handlers, viewing, history>>
      /\ Calls' = Calls /\ Last' = Last /\ \A a : Kept(a)' <=> Kept(a)
      /\ work = "busy" /\ handlers[Last].pc = "failed" /\ errorHit' = errorHit + 1
      /\ work' = IF errorHit < MaxHit THEN "idle" ELSE "dead"
  BY DEF Fail, BreakOutWithError, Calls, Last, Kept
<1>4. Completed' = Completed
  BY <1>3 DEF Completed
<1>5. DataTypeOK'
  BY <1>1, <1>3 DEF DataTypeOK, history
<1>6. StageInv'
  <2>1. \A a \in Calls : Kept(a) => handlers[a].stage < stage
    <3> TAKE a \in Calls
    <3>1. CASE a = Last
      BY <1>3, <3>1 DEF Kept
    <3>2. CASE a # Last
      <4>1. a < Last
        BY <1>2, <3>2
      <4> QED  BY <1>1, <1>2, <4>1
    <3> QED  BY <3>1, <3>2
  <2> QED  BY <1>1, <1>3, <1>4, <2>1 DEF StageInv
<1>7. CountInv'
  BY <1>1, <1>2, <1>3, DataAssumption DEF CountInv, DataTypeOK
<1>8. OneAtWork'
  BY <1>1, <1>3 DEF OneAtWork
<1> QED
  BY <1>3, <1>5, <1>6, <1>7, <1>8, CountersOnly DEF DataInv

LEMMA TimeoutKeeps ==
  ASSUME DataInv, Timeout
  PROVE  DataInv'
<1>1. /\ DataTypeOK /\ StageInv /\ MarkInv /\ Asked /\ CountInv
      /\ OneAtWork /\ InputsGiven /\ ReadsEarlier
  BY DEF DataInv
<1>2. /\ Last \in Nat /\ Calls = 1..Last /\ Last \in Calls
      /\ handlers[Last].stage = stage /\ stage \in Runs(jobs) /\ stage \in Nat /\ stage # 0
      /\ \A b \in Calls : handlers[b].stage \in Nat /\ b <= Last
      /\ \A b \in Calls : handlers[b] \in Handler /\ handlers[b].stage \in Runs(jobs)
  BY <1>1, LastCall, CallNumbers DEF Timeout
<1> DEFINE h == [handlers[Last] EXCEPT !.timed = TRUE]
<1>3. /\ h \in Handler /\ h.stage = stage /\ h.timed = TRUE
      /\ h.todo = handlers[Last].todo /\ h.pc = handlers[Last].pc
  BY <1>2 DEF Handler
<1>4. /\ UNCHANGED <<up, jobs, nilMap, data, stage, arrived, viewing, late, missed, readback>>
      /\ handlers' = [handlers EXCEPT ![Last] = h]
      /\ work = "busy" /\ errorHit' = errorHit + 1
      /\ work' = IF errorHit < MaxHit THEN "idle" ELSE "dead"
  BY DEF Timeout, BreakOutWithError, history
<1>5. /\ handlers' \in Seq(Handler)
      /\ Calls' = Calls /\ Last' = Last
      /\ \A b \in Calls : handlers'[b] = IF b = Last THEN h ELSE handlers[b]
  BY <1>1, <1>2, <1>3, <1>4 DEF DataTypeOK, Calls, Last
<1>6. /\ \A b \in Calls : /\ handlers'[b].stage = handlers[b].stage
                          /\ handlers'[b].pc = handlers[b].pc
                          /\ handlers'[b].todo = handlers[b].todo
                          /\ handlers[b].timed => handlers'[b].timed
                          /\ Kept(b)' => Kept(b) /\ b # Last
  BY <1>2, <1>3, <1>5 DEF Kept
<1>7. DataTypeOK'
  BY <1>1, <1>2, <1>4, <1>5, <1>6 DEF DataTypeOK
<1>8. StageInv'
  <2>1. Completed' = Completed
    BY <1>4 DEF Completed
  <2>2. \A a \in Calls : Kept(a)' => handlers[a].stage < stage
    BY <1>1, <1>2, <1>6 DEF StageInv
  <2>3. \A i \in Completed' : \E c \in Calls' :
          /\ handlers'[c].stage = i /\ handlers'[c].pc = "ended"
          /\ \A b \in Calls' : c < b => i < handlers'[b].stage
    BY <1>1, <1>5, <1>6, <2>1 DEF StageInv
  <2>4. \A a, b \in Calls' : a < b /\ Kept(a)' => handlers'[a].stage < handlers'[b].stage
    BY <1>1, <1>5, <1>6 DEF StageInv
  <2>5. /\ \A a \in Calls' : handlers'[a].stage <= stage'
        /\ \A a, b \in Calls' : a < b => handlers'[a].stage <= handlers'[b].stage
    BY <1>1, <1>4, <1>5, <1>6 DEF StageInv
  <2> QED  BY <1>4, <1>5, <1>6, <2>2, <2>3, <2>4, <2>5 DEF StageInv
<1>9. MarkInv'
  <2>1. \A b \in Calls : Wrote(b)' = Wrote(b) /\ JobOf(b)' = JobOf(b)
    BY <1>4, <1>6 DEF Wrote, JobOf
  <2>2. \A b \in Calls' : /\ handlers'[b].todo \subseteq Writes(JobOf(b)')
                          /\ handlers'[b].pc \in {"reading", "calling", "failed"} => Wrote(b)' = {}
                          /\ handlers'[b].pc = "ended" => handlers'[b].todo = {}
    BY <1>1, <1>5, <1>6, <2>1 DEF MarkInv
  <2>3. \A b \in Calls' : \A k \in Wrote(b)' : data'[k] \in Calls' /\ (~late' => b <= data'[k])
    BY <1>1, <1>4, <1>5, <2>1 DEF MarkInv
  <2>4. \A k \in Key : data'[k] \in Calls' => k \in Wrote(data[k])'
    BY <1>1, <1>4, <1>5, <2>1 DEF MarkInv
  <2> QED  BY <1>4, <2>2, <2>3, <2>4 DEF MarkInv
<1>10. Asked' /\ InputsGiven'
  BY <1>1, <1>4 DEF Asked, InputsGiven
<1>11. CountInv'
  BY <1>1, <1>2, <1>4, <1>5, DataAssumption DEF CountInv, DataTypeOK
<1>12. OneAtWork'
  BY <1>1, <1>2, <1>3, <1>5, <1>6 DEF OneAtWork
<1>13. ReadsEarlier'
  <2>1. \A pair \in readback : pair[1] \in Calls /\ pair[2] \in Calls
    BY <1>1 DEF DataTypeOK
  <2> QED  BY <1>1, <1>4, <1>6, <2>1 DEF ReadsEarlier
<1> QED
  BY <1>7, <1>8, <1>9, <1>10, <1>11, <1>12, <1>13 DEF DataInv

LEMMA WorkerKeeps ==
  ASSUME DataInv, WorkerNext
  PROVE  DataInv'
<1>1. CASE ExcuteNil
  BY <1>1, AsideKeeps DEF ExcuteNil, DataInv, DataTypeOK
<1> QED
  BY <1>1, ExcuteKeeps, RollKeeps, FailKeeps, TimeoutKeeps DEF WorkerNext

-----------------------------------------------------------------------------
(* The theorems.                                                           *)

LEMMA InitHolds ==
  ASSUME DataInit
  PROVE  DataInv
<1>1. /\ Calls = {} /\ Last = 0 /\ handlers \in Seq(Handler)
  BY DEF DataInit, Calls, Last
<1>2. jobs \in Streams /\ jobs \in Seq(JobConfig)
  BY DataAssumption DEF DataInit
<1>3. \A i \in Runs(jobs) : i \in Nat /\ 0 < i
  BY <1>2 DEF Runs
<1>4. Completed = {}
  BY <1>3 DEF DataInit, Completed
<1>5. DataTypeOK
  BY <1>1, <1>2 DEF DataInit, DataTypeOK
<1>6. StageInv /\ OneAtWork
  BY <1>1, <1>4 DEF DataInit, StageInv, OneAtWork
<1>7. MarkInv
  BY <1>1, DataAssumption DEF DataInit, MarkInv
<1>8. Asked /\ InputsGiven /\ ReadsEarlier
  BY DEF DataInit, Asked, InputsGiven, ReadsEarlier
<1>9. CountInv
  BY <1>1, <1>3, DataAssumption DEF DataInit, CountInv
<1> QED
  BY <1>5, <1>6, <1>7, <1>8, <1>9 DEF DataInv

LEMMA NextKeeps ==
  ASSUME DataInv, [DataNext]_dataVars
  PROVE  DataInv'
<1>1. up \in BOOLEAN
  BY DEF DataInv, DataTypeOK
<1>2. CASE ViewBegin
  BY <1>2, AsideKeeps DEF ViewBegin, MayClash
<1>3. CASE ViewEnd
  BY <1>1, <1>3, AsideKeeps DEF ViewEnd
<1>4. CASE UNCHANGED dataVars
  BY <1>1, <1>4, AsideKeeps DEF dataVars, DataInv, DataTypeOK
<1> QED
  BY <1>2, <1>3, <1>4, HandlerKeeps, WorkerKeeps DEF DataNext

LEMMA DataInvariant == DataSpec => []DataInv
<1>1. DataInit => DataInv
  BY InitHolds
<1>2. DataInv /\ [DataNext]_dataVars => DataInv'
  BY NextKeeps
<1> QED
  BY <1>1, <1>2, PTL DEF DataSpec

\* The variables of JobData keep their types; in particular CurrentStage is
\* always a job of the road.
THEOREM DataTypeCorrect == DataSpec => []DataTypeOK
<1>1. DataInv => DataTypeOK
  BY DEF DataInv
<1> QED  BY <1>1, DataInvariant, PTL

\* In every stream that keeps the data-flow rule, whatever fails or times
\* out, each job finds each of its inputs.
THEOREM DataInputsGiven == DataSpec => []InputsGiven
<1>1. DataInv => InputsGiven
  BY DEF DataInv
<1> QED  BY <1>1, DataInvariant, PTL

\* A completed stage's outputs stay jobs' outputs; without a late write they
\* are the newest stage's and of one attempt.
THEOREM DataOutputsInTurn == DataSpec => []OutputsInTurn
<1>1. ASSUME DataInv
      PROVE  OutputsInTurn
  <2>1. /\ DataTypeOK /\ StageInv /\ MarkInv
    BY <1>1 DEF DataInv
  <2>2. ASSUME NEW i \in Completed
        PROVE  \E c \in Calls : /\ handlers[c].stage = i
                                /\ \A b \in Calls : c < b => i < handlers[b].stage
                                /\ \A k \in Writes(jobs[i]) :
                                     data[k] \in Calls /\ (~late => c <= data[k])
    <3>1. PICK c \in Calls : /\ handlers[c].stage = i /\ handlers[c].pc = "ended"
                             /\ \A b \in Calls : c < b => i < handlers[b].stage
      BY <2>1 DEF StageInv
    <3>2. Wrote(c) = Writes(jobs[i])
      BY <2>1, <3>1 DEF MarkInv, Wrote, JobOf
    <3> QED  BY <2>1, <3>1, <3>2 DEF MarkInv
  <2>3. /\ Calls = 1..Last /\ Last \in Nat
        /\ \A b \in Calls : handlers[b].stage \in Nat
        /\ \A a, b \in Calls : a < b => handlers[a].stage <= handlers[b].stage
    BY <2>1, CallNumbers, RoadJobs DEF StageInv
  <2>4. \A i \in Completed : \A k \in Writes(jobs[i]) : data[k] \in Calls
    BY <2>2
  <2>5. ASSUME ~late
        PROVE  LastWins /\ WholeOutputs
    <3>1. LastWins
      <4> SUFFICES ASSUME NEW i \in Completed, NEW k \in Writes(jobs[i])
                   PROVE  data[k] \in Calls /\ handlers[data[k]].stage >= i
        BY DEF LastWins
      <4>1. PICK c \in Calls : handlers[c].stage = i /\ data[k] \in Calls /\ c <= data[k]
        BY <2>2, <2>5
      <4>2. CASE c = data[k]
        BY <2>3, <4>1, <4>2
      <4>3. CASE c < data[k]
        BY <2>3, <4>1, <4>3
      <4> QED  BY <2>3, <4>1, <4>2, <4>3
    <3>2. WholeOutputs
      <4> SUFFICES ASSUME NEW i \in Completed, NEW k \in Writes(jobs[i]), NEW l \in Writes(jobs[i]),
                          data[k] \in Calls, handlers[data[k]].stage = i,
                          data[l] \in Calls, handlers[data[l]].stage = i
                   PROVE  data[k] = data[l]
        BY DEF WholeOutputs
      <4>1. PICK c \in Calls : /\ handlers[c].stage = i
                               /\ \A b \in Calls : c < b => i < handlers[b].stage
                               /\ c <= data[k] /\ c <= data[l]
        BY <2>2, <2>5
      <4>2. i \in Nat /\ ~(c < data[k]) /\ ~(c < data[l])
        BY <2>3, <4>1
      <4> QED  BY <2>3, <4>1, <4>2
    <3> QED  BY <3>1, <3>2
  <2> QED  BY <2>4, <2>5 DEF OutputsInTurn
<1> QED  BY <1>1, DataInvariant, PTL

\* No job reads its own stage's work, its own or another attempt's, unless a
\* timeout cut one of the two.
THEOREM DataReadsEarlier == DataSpec => []ReadsEarlier
<1>1. DataInv => ReadsEarlier
  BY DEF DataInv
<1> QED  BY <1>1, DataInvariant, PTL

\* However a task goes, its handlers are called no more than its jobs and its
\* budget of errors allow, and two are at work only after a timeout.
THEOREM DataCallsBounded == DataSpec => []CallsBounded
<1>1. ASSUME DataInv
      PROVE  CallsBounded
  <2>1. DataTypeOK /\ CountInv /\ OneAtWork
    BY <1>1 DEF DataInv
  <2>2. stage # 0 => stage \in Nat /\ stage <= Len(jobs)
    BY <2>1, RoadJobs DEF DataTypeOK
  <2>3. Len(jobs) \in Nat /\ Last \in Nat
    BY <2>1, RoadJobs, CallNumbers
  <2>4. Last <= Len(jobs) + MaxHit
    <3>1. CASE stage = 0
      BY <2>1, <2>3, <3>1, DataAssumption DEF CountInv
    <3>2. CASE stage # 0
      BY <2>1, <2>2, <2>3, <3>2, DataAssumption DEF CountInv, DataTypeOK
    <3> QED  BY <3>1, <3>2
  <2> QED  BY <2>1, <2>4 DEF CallsBounded, OneAtWork
<1> QED  BY <1>1, DataInvariant, PTL

-----------------------------------------------------------------------------
(* The task keeps the promise of TaskLifecycle, which knows nothing of     *)
(* roads, handlers or metadata: of all streams the one of this task has a  *)
(* life, and it begins with the first call of excute.                      *)

DataPhase ==
  CASE work = "done" -> "finished"
    [] work = "dead" -> "dead"
    [] OTHER         -> IF Last = 0 THEN "new" ELSE "live"

Life == INSTANCE TaskLifecycle WITH
          Task <- Streams,
          Stages <- [s \in Streams |-> Cardinality(Runs(s))],
          phase <- [s \in Streams |-> IF s = jobs THEN DataPhase ELSE "new"],
          progress <- [s \in Streams |-> IF s = jobs THEN arrived ELSE 0],
          hits <- [s \in Streams |-> IF s = jobs THEN errorHit ELSE 0],
          stopping <- FALSE

DataFollowsLife == Life!LifeSpec

Before(i) == {j \in Runs(jobs) : j < i}

\* Arrived counts the jobs of the road that are behind CurrentStage, though
\* Roll passes over those of other kinds.
InStep ==
  stage # 0 => arrived = Cardinality(Before(stage)) + (IF work = "done" THEN 1 ELSE 0)

\* A road is finite, and one job more is one more behind.
LEMMA RoadCounts ==
  ASSUME DataTypeOK, NEW i \in Runs(jobs)
  PROVE  /\ IsFiniteSet(Runs(jobs)) /\ Cardinality(Runs(jobs)) \in Nat
         /\ Cardinality(Before(i)) \in Nat
         /\ Cardinality(Before(i) \cup {i}) = Cardinality(Before(i)) + 1
         /\ Cardinality(Before(i)) + 1 <= Cardinality(Runs(jobs))
<1>1. Len(jobs) \in Nat /\ Runs(jobs) \subseteq 1..Len(jobs) /\ i \in Nat
  BY RoadJobs DEF Runs
<1>2. IsFiniteSet(1..Len(jobs))
  BY <1>1, FS_Interval
<1>3. IsFiniteSet(Runs(jobs))
  BY <1>1, <1>2, FS_Subset
<1>4. IsFiniteSet(Before(i)) /\ i \notin Before(i) /\ Before(i) \cup {i} \subseteq Runs(jobs)
  <2>1. Before(i) \subseteq Runs(jobs) /\ i \notin Before(i)
    BY <1>1 DEF Before
  <2> QED
    BY <1>3, <2>1, FS_Subset
<1>5. Cardinality(Before(i) \cup {i}) = Cardinality(Before(i)) + 1
  BY <1>4, FS_AddElement
<1>6. /\ Cardinality(Before(i)) \in Nat /\ Cardinality(Runs(jobs)) \in Nat
      /\ Cardinality(Before(i) \cup {i}) <= Cardinality(Runs(jobs))
  BY <1>3, <1>4, FS_Subset, FS_CardinalityType
<1> QED
  BY <1>3, <1>5, <1>6

\* Roll's next job is the one after the stage, and nothing is between them.
LEMMA NextCounts ==
  ASSUME DataTypeOK, NEW i \in Runs(jobs), NEW n \in Runs(jobs), i < n,
         \A j \in Runs(jobs) : i < j => n <= j
  PROVE  /\ Cardinality(Before(n)) = Cardinality(Before(i)) + 1
         /\ Cardinality(Before(i)) + 1 < Cardinality(Runs(jobs))
<1>1. \A j \in Runs(jobs) : j \in Nat
  BY RoadJobs
<1>2. Before(n) = Before(i) \cup {i}
  BY <1>1 DEF Before
<1>3. /\ Cardinality(Before(i)) \in Nat /\ Cardinality(Runs(jobs)) \in Nat
      /\ Cardinality(Before(i) \cup {i}) = Cardinality(Before(i)) + 1
  BY RoadCounts
<1>4. Cardinality(Before(n)) + 1 <= Cardinality(Runs(jobs))
  BY RoadCounts
<1> QED
  BY <1>2, <1>3, <1>4

\* After the last job, all of the road is behind.
LEMMA AllCounted ==
  ASSUME DataTypeOK, NEW i \in Runs(jobs), \A j \in Runs(jobs) : j <= i
  PROVE  Cardinality(Before(i)) + 1 = Cardinality(Runs(jobs))
<1>1. \A j \in Runs(jobs) : j \in Nat
  BY RoadJobs
<1>2. Runs(jobs) = Before(i) \cup {i}
  BY <1>1 DEF Before
<1> QED
  BY <1>2, RoadCounts

\* While a job runs, Arrived is the number of jobs before it.
LEMMA BusyStage ==
  ASSUME DataTypeOK, CountInv, InStep, work = "busy"
  PROVE  stage \in Runs(jobs) /\ arrived = Cardinality(Before(stage))
<1>1. stage # 0 /\ stage \in Runs(jobs)
  BY DEF CountInv, DataTypeOK
<1>2. PICK i \in Runs(jobs) : i = stage
  BY <1>1
<1>3. Cardinality(Before(i)) \in Nat
  BY RoadCounts
<1> QED
  BY <1>1, <1>2, <1>3 DEF InStep

LEMMA InStepStart == DataInit => InStep
<1> SUFFICES ASSUME DataInit, stage # 0
             PROVE  arrived = 0 /\ Cardinality(Before(stage)) = 0 /\ work = "idle"
  BY DEF InStep
<1>1. DataTypeOK
  BY InitHolds DEF DataInv
<1>2. stage \in Runs(jobs) /\ \A i \in Runs(jobs) : stage <= i /\ i \in Nat
  BY <1>1, RoadJobs DEF DataInit
<1>3. Before(stage) = {}
  BY <1>2 DEF Before
<1> QED
  BY <1>3, FS_EmptySet DEF DataInit

LEMMA InStepKept ==
  ASSUME DataInv, InStep, [DataNext]_dataVars
  PROVE  InStep'
<1>1. /\ DataTypeOK /\ stage \in Runs(jobs) \cup {0} /\ 0 \notin Runs(jobs)
      /\ \A i \in Runs(jobs) : i \in Nat
  BY RoadJobs DEF DataInv, DataTypeOK
<1>2. work = "busy" => stage # 0
  BY DEF DataInv, CountInv
<1>3. CASE Roll
  <2>1. PICK n \in Runs(jobs) : stage < n /\ stage' = n /\ \A i \in Runs(jobs) : stage < i => n <= i
    BY <1>3 DEF Roll
  <2>2. arrived = Cardinality(Before(stage)) /\ stage \in Runs(jobs)
    BY <1>1, <1>3, BusyStage DEF Roll, DataInv
  <2> QED
    BY <1>1, <1>3, <2>1, <2>2, NextCounts DEF Roll, InStep, Before
<1>4. CASE RollEnd
  BY <1>1, <1>2, <1>4, RoadCounts DEF RollEnd, InStep, Before
<1>5. CASE ~Roll /\ ~RollEnd
  <2>1. /\ UNCHANGED <<jobs, stage, arrived>>
        /\ work' # work => work' # "done" /\ work # "done"
    BY <1>5 DEF DataNext, WorkerNext, HandlerNext, Read, CallFails, CallAnswers, AnswersNull, Write, WriteNil,
                Return, Excute, ExcuteNil, Fail, Timeout, BreakOutWithError, ViewBegin, ViewEnd, dataVars, taskVars
  <2> QED
    BY <2>1 DEF InStep, Before
<1> QED
  BY <1>3, <1>4, <1>5

\* What a step of the task's own stream is to the whole mapping.
LEMMA LifeStart == DataInit => Life!LifeInit
<1> SUFFICES ASSUME DataInit PROVE Life!LifeInit
  OBVIOUS
<1>1. DataPhase = "new" /\ arrived = 0 /\ errorHit = 0
  BY DEF DataInit, DataPhase, Last
<1> QED
  BY <1>1 DEF Life!LifeInit

LEMMA LifeStep ==
  ASSUME DataInv, InStep, [DataNext]_dataVars
  PROVE  [Life!LifeNext]_Life!lifeVars
<1>s. PICK s \in Streams : s = jobs
  BY DEF DataInv, DataTypeOK
<1>1. /\ DataTypeOK /\ CountInv /\ jobs \in Streams
      /\ stage \in Runs(jobs) \cup {0} /\ 0 \notin Runs(jobs)
      /\ Last \in Nat /\ arrived \in Nat /\ errorHit \in Nat /\ MaxHit \in Nat
  BY RoadJobs, CallNumbers, DataAssumption DEF DataInv, DataTypeOK
<1>2. work = "busy" => DataPhase = "live" /\ stage \in Runs(jobs) /\ errorHit <= MaxHit
  BY <1>1 DEF CountInv, DataPhase
<1>3. CASE Excute
  <2>1. Last' = Last + 1 /\ work' = "busy" /\ UNCHANGED <<jobs, arrived, errorHit>>
    <3>1. handlers \in Seq(Handler)
      BY <1>1 DEF DataTypeOK
    <3> QED
      BY <1>3, <3>1 DEF Excute, Last, taskVars, history
  <2>2. DataPhase' = "live"
    BY <1>1, <2>1 DEF DataPhase
  <2>3. CASE Last = 0
    <3>1. DataPhase = "new"
      BY <1>3, <2>3 DEF DataPhase, Excute
    <3>2. Life!Take(s)
      BY <1>s, <1>1, <2>1, <2>2, <3>1 DEF Life!Take
    <3> QED
      BY <3>2 DEF Life!LifeNext
  <2>4. CASE Last # 0
    <3>1. DataPhase = "live"
      BY <1>3, <2>4 DEF DataPhase, Excute
    <3> QED
      BY <2>1, <2>2, <3>1 DEF Life!lifeVars
  <2> QED
    BY <2>3, <2>4
<1>4. CASE Roll
  <2>1. PICK n \in Runs(jobs) : stage < n /\ \A i \in Runs(jobs) : stage < i => n <= i
    BY <1>4 DEF Roll
  <2>2. arrived = Cardinality(Before(stage)) /\ stage \in Runs(jobs)
    BY <1>1, <1>4, BusyStage DEF Roll
  <2>3. arrived + 1 < Cardinality(Runs(jobs))
    BY <1>1, <2>1, <2>2, NextCounts
  <2>4. DataPhase = "live" /\ DataPhase' = "live" /\ arrived' = arrived + 1 /\ UNCHANGED <<jobs, errorHit>>
    BY <1>1, <1>2, <1>4 DEF Roll, DataPhase, CountInv, Last
  <2>5. Life!Advance(s)
    BY <1>s, <1>1, <2>3, <2>4 DEF Life!Advance
  <2> QED
    BY <2>5 DEF Life!LifeNext
<1>5. CASE RollEnd
  <2>1. arrived = Cardinality(Before(stage)) /\ stage \in Runs(jobs)
    BY <1>1, <1>5, BusyStage DEF RollEnd
  <2>2. arrived + 1 = Cardinality(Runs(jobs))
    BY <1>1, <1>5, <2>1, AllCounted DEF RollEnd
  <2>3. DataPhase = "live" /\ DataPhase' = "finished" /\ arrived' = arrived + 1 /\ UNCHANGED <<jobs, errorHit>>
    BY <1>1, <1>2, <1>5 DEF RollEnd, DataPhase, CountInv
  <2>4. Life!Finish(s)
    BY <1>s, <1>1, <2>2, <2>3 DEF Life!Finish
  <2> QED
    BY <2>4 DEF Life!LifeNext
<1>6. CASE Fail \/ Timeout
  <2>1. /\ DataPhase = "live" /\ errorHit' = errorHit + 1 /\ UNCHANGED <<jobs, arrived>>
        /\ work' = IF errorHit < MaxHit THEN "idle" ELSE "dead"
    BY <1>2, <1>6 DEF Fail, Timeout, BreakOutWithError
  <2>2. Last' = Last /\ Last # 0
    BY <1>1, <1>6 DEF Fail, Timeout, CountInv, DataTypeOK, Last
  <2>3. CASE errorHit < MaxHit
    <3>1. DataPhase' = "live"
      BY <2>1, <2>2, <2>3 DEF DataPhase
    <3>2. Life!Survive(s)
      BY <1>s, <1>1, <2>1, <2>3, <3>1 DEF Life!Survive
    <3> QED
      BY <3>2 DEF Life!LifeNext
  <2>4. CASE errorHit = MaxHit
    <3>1. DataPhase' = "dead"
      BY <1>1, <2>1, <2>2, <2>4 DEF DataPhase
    <3>2. Life!Die(s)
      BY <1>s, <1>1, <2>1, <2>4, <3>1 DEF Life!Die
    <3> QED
      BY <3>2 DEF Life!LifeNext
  <2>5. errorHit <= MaxHit
    BY <1>2, <1>6 DEF Fail, Timeout
  <2> QED
    BY <1>1, <2>3, <2>4, <2>5
<1>7. CASE HandlerNext \/ ExcuteNil \/ ViewBegin \/ ViewEnd \/ UNCHANGED dataVars
  <2>1. Last' = Last
    BY <1>1, <1>7 DEF HandlerNext, Read, CallFails, CallAnswers, AnswersNull, Write, WriteNil, Return, SetHandler,
                      ExcuteNil, ViewBegin, ViewEnd, dataVars, DataTypeOK, Last
  <2>2. UNCHANGED <<jobs, arrived, errorHit, work>>
    BY <1>7 DEF HandlerNext, Read, CallFails, CallAnswers, AnswersNull, Write, WriteNil, Return,
                ExcuteNil, ViewBegin, ViewEnd, dataVars, taskVars
  <2> QED
    BY <2>1, <2>2 DEF DataPhase, Life!lifeVars
<1> QED
  BY <1>3, <1>4, <1>5, <1>6, <1>7 DEF DataNext, WorkerNext

\* A task with its metadata keeps the promise of TaskLifecycle: whatever its
\* handlers do to the map, and those that were given up, Roll takes it through
\* the road's jobs in order and the errors bring it to one end
\* (task/task.go:92-132, task/handle.go:34-64).
THEOREM DataKeepsPromise == DataSpec => DataFollowsLife
<1>1. DataInit => Life!LifeInit
  BY LifeStart
<1>2. DataInv /\ InStep /\ [DataNext]_dataVars => [Life!LifeNext]_Life!lifeVars
  BY LifeStep
<1>3. DataInit => InStep
  BY InStepStart
<1>4. DataInv /\ InStep /\ [DataNext]_dataVars => InStep'
  BY InStepKept
<1>5. DataSpec => []InStep
  BY <1>3, <1>4, DataInvariant, PTL DEF DataSpec
<1> QED
  BY <1>1, <1>2, <1>5, DataInvariant, PTL DEF DataSpec, DataFollowsLife, Life!LifeSpec
=============================================================================
