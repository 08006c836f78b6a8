--------------------------- MODULE TaskFlowProofs ---------------------------
(***************************************************************************)
(* Proofs about the queue and about the flow that is built on it.          *)
(*                                                                         *)
(* RetryQueue, for every set of tasks and every capacity, in the most      *)
(* general environment: its types, that a task is in it at most once, how  *)
(* far its promised pops are backed by tasks, and that it implements       *)
(* TaskBuffer.  Nothing of this uses what TaskFlow adds.                   *)
(*                                                                         *)
(* TaskFlow, for every number of tasks, jobs, workers and retries: its     *)
(* types, that a task has one owner, is dropped only by a server that goes *)
(* down, resumes at the right job and is closed once and for a cause; and  *)
(* that it implements two smaller specifications: RetryQueue's, on whose   *)
(* environment it keeps within its terms, and TaskLifecycle's promise to   *)
(* the sender of a task.                                                   *)
(***************************************************************************)
EXTENDS TaskFlow, FiniteSetTheorems, TLAPS

-----------------------------------------------------------------------------
(* The side entry as a sequence.                                           *)

\* A send on a channel puts the element after those that are there.
LEMMA AppendElements ==
  ASSUME NEW S, NEW s \in Seq(S), NEW e \in S
  PROVE  /\ Append(s, e) \in Seq(S)
         /\ Len(Append(s, e)) = Len(s) + 1
         /\ \A i \in 1..Len(s) : Append(s, e)[i] = s[i]
         /\ Append(s, e)[Len(s) + 1] = e
OBVIOUS

\* A receive takes the first element and leaves the others in order.
LEMMA TailElements ==
  ASSUME NEW S, NEW s \in Seq(S), s # <<>>
  PROVE  /\ Len(s) \in Nat /\ Len(s) > 0
         /\ Head(s) = s[1]
         /\ Head(s) \in S
         /\ Tail(s) \in Seq(S)
         /\ Len(Tail(s)) = Len(s) - 1
         /\ \A i \in 1..Len(Tail(s)) : Tail(s)[i] = s[i + 1]
OBVIOUS

\* After a rewind, the side entry holds what it held and the rewound task.
LEMMA RewindOnSide ==
  ASSUME side \in Seq(Task), NEW t \in Task, side' = Append(side, t)
  PROVE  \A u : OnSide(u)' <=> OnSide(u) \/ u = t
<1>1. /\ Len(side) \in Nat
      /\ Len(side') = Len(side) + 1
      /\ \A i \in 1..Len(side) : side'[i] = side[i]
      /\ side'[Len(side) + 1] = t
  BY AppendElements
<1>2. \A i : i \in 1..Len(side') <=> i \in 1..Len(side) \/ i = Len(side) + 1
  BY <1>1
<1> QED BY <1>1, <1>2 DEF OnSide

\* The listener's receive takes one task off the side entry, when no task is
\* there twice.
LEMMA ReceiveOnSide ==
  ASSUME side \in Seq(Task), side # <<>>, side' = Tail(side),
         \A i, j \in 1..Len(side) : side[i] = side[j] => i = j
  PROVE  /\ OnSide(Head(side))
         /\ \A u : OnSide(u)' <=> OnSide(u) /\ u # Head(side)
<1>1. /\ Len(side) \in Nat /\ Len(side) > 0
      /\ Head(side) = side[1]
      /\ Len(side') = Len(side) - 1
      /\ \A i \in 1..Len(side') : side'[i] = side[i + 1]
  BY TailElements
<1>2. OnSide(Head(side))
  BY <1>1 DEF OnSide
<1>3. ASSUME NEW u, OnSide(u)'
      PROVE  OnSide(u) /\ u # Head(side)
  <2>1. PICK i \in 1..Len(side') : side'[i] = u
    BY <1>3 DEF OnSide
  <2>2. i + 1 \in 1..Len(side) /\ side[i + 1] = u /\ i + 1 # 1 /\ 1 \in 1..Len(side)
    BY <1>1, <2>1
  <2> QED BY <1>1, <2>2 DEF OnSide
<1>4. ASSUME NEW u, OnSide(u), u # Head(side)
      PROVE  OnSide(u)'
  <2>1. PICK i \in 1..Len(side) : side[i] = u
    BY <1>4 DEF OnSide
  <2>2. i # 1
    BY <1>1, <1>4, <2>1
  <2>3. i - 1 \in 1..Len(side') /\ side'[i - 1] = side[(i - 1) + 1] /\ (i - 1) + 1 = i
    BY <1>1, <2>1, <2>2
  <2> QED BY <2>1, <2>3 DEF OnSide
<1> QED BY <1>2, <1>3, <1>4

-----------------------------------------------------------------------------
(* Types.                                                                  *)

\* The initial queue has the types.
LEMMA QueueInitTypes == QueueInit => QueueTypeOK
<1> SUFFICES ASSUME QueueInit PROVE QueueTypeOK
  OBVIOUS
<1>1. side \in Seq(Task) /\ Len(side) = 0
  BY DEF QueueInit
<1>2. Len(side) <= SideCap
  BY <1>1, QueueAssumption
<1>3. badTask \notin Task
  BY QueueAssumption DEF QueueInit
<1>4. level \in [Task -> Nat]
  BY QueueAssumption DEF QueueInit
<1> QED BY <1>1, <1>2, <1>3, <1>4 DEF QueueInit, QueueTypeOK

\* A push or a rewind of a task keeps the types.
LEMMA ProducerTypes ==
  ASSUME QueueTypeOK, NEW t \in Task, PushTask(t) \/ Rewind(t)
  PROVE  QueueTypeOK'
<1>1. CASE PushTask(t)
  BY <1>1 DEF QueueTypeOK, PushTask, readerVars, listenerVars
<1>2. CASE Rewind(t)
  <2>1. side' \in Seq(Task) /\ Len(side') = Len(side) + 1 /\ Len(side) \in Nat
    <3>1. side \in Seq(Task) /\ side' = Append(side, t)
      BY <1>2 DEF Rewind, QueueTypeOK
    <3> QED BY <3>1, AppendElements
  <2>2. Len(side') <= SideCap
    BY <1>2, <2>1, QueueAssumption DEF Rewind
  <2> QED BY <1>2, <2>1, <2>2 DEF QueueTypeOK, Rewind, readerVars, listenerVars
<1> QED BY <1>1, <1>2

\* The reader and the consumer keep the types.
LEMMA ReaderTypes ==
  ASSUME QueueTypeOK, ReaderNext \/ ConsumerNext
  PROVE  QueueTypeOK'
<1>1. CASE ReaderTick
  BY <1>1 DEF QueueTypeOK, ReaderTick, listenerVars
<1>2. CASE ReaderPark
  BY <1>2 DEF QueueTypeOK, ReaderPark, listenerVars
<1>3. CASE HandOver
  BY <1>3 DEF QueueTypeOK, HandOver, listenerVars
<1>4. CASE ReaderStop
  BY <1>4 DEF QueueTypeOK, ReaderStop, listenerVars
<1>5. CASE ReaderSendsOnClosed
  BY <1>5 DEF QueueTypeOK, ReaderSendsOnClosed, readerVars, listenerVars
<1>6. ASSUME NEW t \in Task, PopTask(t)
      PROVE  QueueTypeOK'
  BY <1>6 DEF QueueTypeOK, PopTask, listenerVars
<1>7. CASE PopEmpty
  BY <1>7 DEF QueueTypeOK, PopEmpty, readerVars, listenerVars
<1> QED BY <1>1, <1>2, <1>3, <1>4, <1>5, <1>6, <1>7 DEF ReaderNext, ConsumerNext

\* The listener keeps the types, whatever number of errors its task has.
LEMMA ListenerTypes ==
  ASSUME QueueTypeOK,
         \/ ListenerLoop
         \/ ListenerReceive
         \/ \E hit \in Nat : ListenerPush(hit)
  PROVE  QueueTypeOK'
<1>1. CASE ListenerLoop
  BY <1>1, QueueAssumption DEF QueueTypeOK, ListenerLoop, readerVars
<1>2. CASE ListenerReceive
  <2>1. /\ Len(side) \in Nat
        /\ Head(side) \in Task
        /\ Tail(side) \in Seq(Task)
        /\ Len(Tail(side)) = Len(side) - 1
    BY <1>2, TailElements DEF ListenerReceive, QueueTypeOK
  <2>2. Len(side') <= SideCap
    <3>1. side' = Tail(side) /\ Len(side) <= SideCap
      BY <1>2 DEF ListenerReceive, QueueTypeOK
    <3>2. SideCap \in Nat
      BY QueueAssumption
    <3> QED BY <2>1, <3>1, <3>2
  <2> QED BY <1>2, <2>1, <2>2, QueueAssumption DEF QueueTypeOK, ListenerReceive, readerVars
<1>3. ASSUME NEW hit \in Nat, ListenerPush(hit)
      PROVE  QueueTypeOK'
  <2>1. badTask \in Task /\ level[badTask] + hit * HitBoost \in Nat
    <3>1. badTask \in Task
      BY <1>3 DEF QueueTypeOK, ListenerPush
    <3>2. level[badTask] \in Nat /\ HitBoost \in Nat
      BY <3>1, QueueAssumption DEF QueueTypeOK
    <3>3. hit * HitBoost \in Nat
      BY <3>2
    <3> QED BY <3>1, <3>2, <3>3
  <2>2. level' \in [Task -> Nat]
    BY <1>3, <2>1 DEF QueueTypeOK, ListenerPush
  <2>3. pq' \subseteq Task
    BY <1>3, <2>1 DEF QueueTypeOK, ListenerPush
  <2> QED BY <1>3, <2>2, <2>3, QueueAssumption DEF QueueTypeOK, ListenerPush, readerVars
<1> QED BY <1>1, <1>2, <1>3

\* Close keeps the types.
LEMMA CloseTypes == QueueTypeOK /\ Close => QueueTypeOK'
BY DEF QueueTypeOK, Close, CloseFlag, CloseDone, CloseReader, readerVars, listenerVars

\* Every step of the queue keeps the types.
LEMMA QueueStepTypes == QueueTypeOK /\ [QueueNext]_queueVars => QueueTypeOK'
<1> SUFFICES ASSUME QueueTypeOK, [QueueNext]_queueVars
             PROVE  QueueTypeOK'
  OBVIOUS
<1>1. CASE ReaderNext \/ ConsumerNext
  BY <1>1, ReaderTypes
<1>2. CASE ListenerNext
  BY <1>2, ListenerTypes, QueueAssumption DEF ListenerNext
<1>3. CASE ProducerNext
  BY <1>3, ProducerTypes DEF ProducerNext
<1>4. CASE Close
  BY <1>4, CloseTypes
<1>5. CASE UNCHANGED queueVars
  BY <1>5 DEF queueVars, QueueTypeOK
<1> QED BY <1>1, <1>2, <1>3, <1>4, <1>5 DEF QueueNext

\* The variables of the queue keep their types.
THEOREM QueueTypeCorrect == QueueSpec => []QueueTypeOK
BY QueueInitTypes, QueueStepTypes, PTL DEF QueueSpec

-----------------------------------------------------------------------------
(* A task is in the queue at most once.                                    *)

QueueInv == QueueTypeOK /\ OnePlace

\* The initial queue is empty.
LEMMA QueueInitOnePlace == QueueInit => OnePlace
BY DEF QueueInit, OnePlace, OnSide

\* A producer adds a task that is not inside, in one place.
LEMMA ProducerOnePlace ==
  ASSUME QueueInv, NEW t \in Task, ~InQueue(t), PushTask(t) \/ Rewind(t)
  PROVE  OnePlace'
<1>1. CASE PushTask(t)
  <2>1. /\ pq' = pq \cup {t} /\ side' = side /\ badTask' = badTask
        /\ \A u : OnSide(u)' <=> OnSide(u)
    BY <1>1 DEF PushTask, listenerVars, OnSide
  <2> QED BY <2>1 DEF OnePlace, QueueInv, InQueue
<1>2. CASE Rewind(t)
  <2>1. side \in Seq(Task) /\ side' = Append(side, t) /\ pq' = pq /\ badTask' = badTask
    BY <1>2 DEF Rewind, QueueInv, QueueTypeOK, listenerVars
  <2>2. \A u : OnSide(u)' <=> OnSide(u) \/ u = t
    BY <2>1, RewindOnSide
  <2>3. \A i, j \in 1..Len(side') : side'[i] = side'[j] => i = j
    <3>1. /\ Len(side) \in Nat
          /\ Len(side') = Len(side) + 1
          /\ \A i \in 1..Len(side) : side'[i] = side[i]
          /\ side'[Len(side) + 1] = t
      BY <2>1, AppendElements
    <3>2. \A i \in 1..Len(side) : side'[i] # t
      BY <3>1 DEF InQueue, OnSide
    <3>3. \A i \in 1..Len(side') : i \in 1..Len(side) \/ i = Len(side) + 1
      BY <3>1
    <3>4. \A i, j \in 1..Len(side) : side'[i] = side'[j] => i = j
      BY <3>1 DEF QueueInv, OnePlace
    <3> QED BY <3>1, <3>2, <3>3, <3>4
  <2> QED BY <2>1, <2>2, <2>3 DEF OnePlace, QueueInv, InQueue
<1> QED BY <1>1, <1>2

\* The listener moves a task from the side entry to its hands and from there to
\* the heap, leaving none behind.
LEMMA ListenerOnePlace ==
  ASSUME QueueInv,
         \/ ListenerLoop
         \/ ListenerReceive
         \/ \E hit \in Nat : ListenerPush(hit)
  PROVE  OnePlace'
<1>1. CASE ListenerLoop
  <2>1. UNCHANGED <<pq, side, badTask>>
    BY <1>1 DEF ListenerLoop
  <2> QED BY <2>1 DEF OnePlace, QueueInv, OnSide
<1>2. CASE ListenerReceive
  <2>1. /\ side \in Seq(Task) /\ side # <<>> /\ side' = Tail(side)
        /\ pq' = pq /\ badTask' = Head(side)
        /\ \A i, j \in 1..Len(side) : side[i] = side[j] => i = j
    BY <1>2 DEF ListenerReceive, QueueInv, QueueTypeOK, OnePlace
  <2>2. /\ OnSide(Head(side))
        /\ \A u : OnSide(u)' <=> OnSide(u) /\ u # Head(side)
    BY <2>1, ReceiveOnSide
  <2>3. \A i, j \in 1..Len(side') : side'[i] = side'[j] => i = j
    <3>1. /\ Len(side) \in Nat /\ Len(side') = Len(side) - 1
          /\ \A i \in 1..Len(side') : side'[i] = side[i + 1]
      BY <2>1, TailElements
    <3>2. \A i \in 1..Len(side') : i + 1 \in 1..Len(side)
      BY <3>1
    <3> QED BY <2>1, <3>1, <3>2
  <2>4. Head(side) \in Task
    BY <2>1, TailElements
  <2> QED BY <2>1, <2>2, <2>3, <2>4 DEF OnePlace, QueueInv
<1>3. ASSUME NEW hit \in Nat, ListenerPush(hit)
      PROVE  OnePlace'
  <2>1. /\ side' = side /\ badTask' = NoTask /\ badTask \in Task
        /\ pq' = pq \/ pq' = pq \cup {badTask}
    BY <1>3 DEF ListenerPush, QueueInv, QueueTypeOK
  <2>2. NoTask \notin pq' /\ NoTask \notin Task
    BY <2>1, QueueAssumption DEF QueueInv, QueueTypeOK
  <2> QED BY <2>1, <2>2 DEF OnePlace, QueueInv, OnSide
<1> QED BY <1>1, <1>2, <1>3

\* The reader, the consumer and Close add no task.
LEMMA OthersOnePlace ==
  ASSUME QueueInv, ReaderNext \/ ConsumerNext \/ Close
  PROVE  OnePlace'
<1>1. UNCHANGED <<side, badTask>> /\ pq' \subseteq pq
  BY DEF ReaderNext, ReaderTick, ReaderPark, HandOver, ReaderStop, ReaderSendsOnClosed,
         ConsumerNext, PopTask, PopEmpty, Close, CloseFlag, CloseDone, CloseReader,
         readerVars, listenerVars
<1> QED BY <1>1 DEF OnePlace, QueueInv, OnSide

\* Every step of the queue keeps its invariant.
LEMMA QueueStepInv == QueueInv /\ [QueueNext]_queueVars => QueueInv'
<1> SUFFICES ASSUME QueueInv, [QueueNext]_queueVars
             PROVE  OnePlace'
  BY QueueStepTypes DEF QueueInv
<1>1. CASE ReaderNext \/ ConsumerNext \/ Close
  BY <1>1, OthersOnePlace
<1>2. CASE ListenerNext
  BY <1>2, ListenerOnePlace, QueueAssumption DEF ListenerNext
<1>3. CASE ProducerNext
  BY <1>3, ProducerOnePlace DEF ProducerNext
<1>4. CASE UNCHANGED queueVars
  BY <1>4 DEF queueVars, QueueInv, OnePlace, OnSide
<1> QED BY <1>1, <1>2, <1>3, <1>4 DEF QueueNext

\* No task is in the queue twice.
THEOREM QueueOnePlace == QueueSpec => []OnePlace
<1>1. QueueInit => QueueInv
  BY QueueInitTypes, QueueInitOnePlace DEF QueueInv
<1>2. QueueInv => OnePlace
  BY DEF QueueInv
<1> QED BY <1>1, <1>2, QueueStepInv, PTL DEF QueueSpec

-----------------------------------------------------------------------------
(* Which tasks are inside after a step.                                    *)

\* A step that leaves the heap, the side entry and the listener's hands alone.
LEMMA QuietInQueue ==
  ASSUME UNCHANGED <<pq, side, badTask>>
  PROVE  \A u : InQueue(u)' <=> InQueue(u)
BY DEF InQueue, OnSide

\* A push or a rewind brings one task in.
LEMMA ProducerInQueue ==
  ASSUME QueueTypeOK, NEW t \in Task, PushTask(t) \/ Rewind(t)
  PROVE  \A u : InQueue(u)' <=> InQueue(u) \/ u = t
<1>1. CASE PushTask(t)
  BY <1>1 DEF PushTask, listenerVars, InQueue, OnSide
<1>2. CASE Rewind(t)
  <2>1. side \in Seq(Task) /\ side' = Append(side, t) /\ UNCHANGED <<pq, badTask>>
    BY <1>2 DEF Rewind, QueueTypeOK, listenerVars
  <2>2. \A u : OnSide(u)' <=> OnSide(u) \/ u = t
    BY <2>1, RewindOnSide
  <2> QED BY <2>1, <2>2 DEF InQueue
<1> QED BY <1>1, <1>2

\* A pop takes one task out.
LEMMA PopInQueue ==
  ASSUME QueueInv, NEW t \in Task, PopTask(t)
  PROVE  InQueue(t) /\ \A u \in Task : InQueue(u)' <=> InQueue(u) /\ u # t
<1>1. /\ t \in pq /\ pq' = pq \ {t} /\ UNCHANGED <<side, badTask>>
      /\ ~OnSide(t) /\ badTask # t
  BY DEF PopTask, listenerVars, QueueInv, OnePlace
<1>2. \A u : OnSide(u)' <=> OnSide(u)
  BY <1>1 DEF OnSide
<1> QED BY <1>1, <1>2 DEF InQueue

\* The listener's receive keeps every task inside.
LEMMA ReceiveInQueue ==
  ASSUME QueueInv, ListenerReceive
  PROVE  \A u \in Task : InQueue(u)' <=> InQueue(u)
<1>1. /\ side \in Seq(Task) /\ side # <<>> /\ side' = Tail(side)
      /\ pq' = pq /\ badTask' = Head(side) /\ badTask \notin Task
      /\ \A i, j \in 1..Len(side) : side[i] = side[j] => i = j
  BY DEF ListenerReceive, QueueInv, QueueTypeOK, OnePlace
<1>2. /\ OnSide(Head(side))
      /\ \A u : OnSide(u)' <=> OnSide(u) /\ u # Head(side)
  BY <1>1, ReceiveOnSide
<1> QED BY <1>1, <1>2 DEF InQueue

\* The listener's push keeps every task inside, but for its own when the queue is
\* closed.
LEMMA PushInQueue ==
  ASSUME QueueInv, NEW hit, ListenerPush(hit)
  PROVE  /\ badTask \in Task /\ InQueue(badTask)
         /\ \A u \in Task : InQueue(u)' <=> InQueue(u) /\ ~(Flagged /\ u = badTask)
<1>1. /\ badTask \in Task /\ badTask' = NoTask /\ side' = side /\ NoTask \notin Task
      /\ pq' = IF Flagged THEN pq ELSE pq \cup {badTask}
      /\ badTask \notin pq /\ ~OnSide(badTask)
  BY QueueAssumption DEF ListenerPush, QueueInv, QueueTypeOK, OnePlace
<1>2. \A u : OnSide(u)' <=> OnSide(u)
  BY <1>1 DEF OnSide
<1> QED BY <1>1, <1>2 DEF InQueue

-----------------------------------------------------------------------------
(* The queue implements the abstract buffer.                               *)

\* The empty queue is the empty buffer.
LEMMA QueueInitBuffer == QueueInit => Buffer!BufferInit
BY QueueAssumption DEF QueueInit, Buffer!BufferInit, Returning, OnSide, Flagged

\* The reader's steps and the listener's first are no steps of the buffer: the
\* heap, the side entry and the flag stay.
LEMMA StutterBuffer ==
  ASSUME UNCHANGED <<pq, side, badTask>>, Flagged' <=> Flagged
  PROVE  UNCHANGED Buffer!bufferVars
BY DEF Buffer!bufferVars, Returning, OnSide, Flagged

\* A pop hands the task out.
LEMMA PopHandsOut ==
  ASSUME NEW t \in Task, PopTask(t)
  PROVE  Buffer!HandOut(t)
BY DEF PopTask, Buffer!HandOut, Returning, OnSide, Flagged, listenerVars

\* A producer hands a task in, or gives it back.
LEMMA ProducerBuffer ==
  ASSUME QueueInv, NEW t \in Task, ~InQueue(t), PushTask(t) \/ Rewind(t)
  PROVE  Buffer!Accept(t) \/ Buffer!GiveBack(t)
<1>1. CASE PushTask(t)
  <2>1. Returning' = Returning /\ Flagged' = Flagged
    BY <1>1 DEF PushTask, listenerVars, Returning, OnSide, Flagged
  <2> QED BY <1>1, <2>1 DEF PushTask, Buffer!Accept, InQueue, Returning
<1>2. CASE Rewind(t)
  <2>1. side \in Seq(Task) /\ side' = Append(side, t) /\ UNCHANGED <<pq, badTask, closing>>
    BY <1>2 DEF Rewind, QueueInv, QueueTypeOK, listenerVars
  <2>2. \A u : OnSide(u)' <=> OnSide(u) \/ u = t
    BY <2>1, RewindOnSide
  <2>3. Returning' = Returning \cup {t}
    BY <2>1, <2>2 DEF Returning
  <2> QED BY <2>1, <2>3 DEF Buffer!GiveBack, InQueue, Returning, Flagged
<1> QED BY <1>1, <1>2

\* The listener gives a task back to the heap, or drops it once the queue is
\* closed; while it only takes it off the side entry, the task keeps returning.
LEMMA ListenerBuffer ==
  ASSUME QueueInv, ListenerNext
  PROVE  \/ \E t \in Task : Buffer!Requeue(t) \/ Buffer!Discard(t)
         \/ UNCHANGED Buffer!bufferVars
<1>1. CASE ListenerLoop
  <2>1. UNCHANGED <<pq, side, badTask, closing>>
    BY <1>1 DEF ListenerLoop
  <2> QED BY <2>1, StutterBuffer DEF Flagged
<1>2. CASE ListenerReceive
  <2>1. /\ side \in Seq(Task) /\ side # <<>> /\ side' = Tail(side)
        /\ UNCHANGED <<pq, closing>> /\ badTask' = Head(side) /\ badTask \notin Task
        /\ \A i, j \in 1..Len(side) : side[i] = side[j] => i = j
    BY <1>2 DEF ListenerReceive, QueueInv, QueueTypeOK, OnePlace
  <2>2. /\ OnSide(Head(side))
        /\ \A u : OnSide(u)' <=> OnSide(u) /\ u # Head(side)
    BY <2>1, ReceiveOnSide
  <2>3. Returning' = Returning
    BY <2>1, <2>2 DEF Returning
  <2> QED BY <2>1, <2>3 DEF Buffer!bufferVars, Flagged
<1>3. ASSUME NEW hit \in Hits, ListenerPush(hit)
      PROVE  \E t \in Task : Buffer!Requeue(t) \/ Buffer!Discard(t)
  <2>1. /\ badTask \in Task /\ badTask' \notin Task /\ UNCHANGED <<side, closing>>
        /\ pq' = IF Flagged THEN pq ELSE pq \cup {badTask}
    BY <1>3, QueueAssumption DEF ListenerPush, QueueInv, QueueTypeOK
  <2>2. badTask \in Returning
    BY <2>1 DEF Returning
  <2>3. Returning' = Returning \ {badTask}
    <3>1. \A u : OnSide(u)' <=> OnSide(u)
      BY <2>1 DEF OnSide
    <3>2. ~OnSide(badTask)
      BY <2>1 DEF QueueInv, OnePlace
    <3> QED BY <2>1, <3>1, <3>2 DEF Returning
  <2>4. CASE Flagged
    BY <2>1, <2>2, <2>3, <2>4 DEF Buffer!Discard, Flagged
  <2>5. CASE ~Flagged
    BY <2>1, <2>2, <2>3, <2>5 DEF Buffer!Requeue, Flagged
  <2> QED BY <2>4, <2>5
<1> QED BY <1>1, <1>2, <1>3 DEF ListenerNext

\* Close shuts the buffer with its first statement.
LEMMA CloseBuffer ==
  ASSUME Close
  PROVE  Buffer!Shut \/ UNCHANGED Buffer!bufferVars
<1>1. CASE CloseFlag
  BY <1>1 DEF CloseFlag, Buffer!Shut, Returning, OnSide, Flagged, listenerVars
<1>2. CASE CloseDone \/ CloseReader
  <2>1. UNCHANGED <<pq, side, badTask>> /\ Flagged /\ Flagged'
    BY <1>2 DEF CloseDone, CloseReader, Flagged, listenerVars
  <2> QED BY <2>1, StutterBuffer
<1> QED BY <1>1, <1>2 DEF Close

\* Every step of the queue is a step of the buffer or none.
LEMMA QueueStepBuffer ==
  QueueInv /\ [QueueNext]_queueVars => [Buffer!BufferNext]_Buffer!bufferVars
<1> SUFFICES ASSUME QueueInv, [QueueNext]_queueVars
             PROVE  [Buffer!BufferNext]_Buffer!bufferVars
  OBVIOUS
<1>1. CASE ReaderNext \/ PopEmpty \/ UNCHANGED queueVars
  <2>1. UNCHANGED <<pq, side, badTask, closing>>
    BY <1>1 DEF ReaderNext, ReaderTick, ReaderPark, HandOver, ReaderStop,
                ReaderSendsOnClosed, PopEmpty, queueVars, readerVars, listenerVars
  <2> QED BY <2>1, StutterBuffer DEF Flagged
<1>2. ASSUME NEW t \in Task, PopTask(t)
      PROVE  [Buffer!BufferNext]_Buffer!bufferVars
  BY <1>2, PopHandsOut DEF Buffer!BufferNext
<1>3. CASE ListenerNext
  BY <1>3, ListenerBuffer DEF Buffer!BufferNext
<1>4. CASE ProducerNext
  BY <1>4, ProducerBuffer DEF ProducerNext, Buffer!BufferNext
<1>5. CASE Close
  BY <1>5, CloseBuffer DEF Buffer!BufferNext
<1> QED BY <1>1, <1>2, <1>3, <1>4, <1>5 DEF QueueNext, ConsumerNext

\* The queue keeps the promise of TaskBuffer.
THEOREM QueueKeepsTasks == QueueSpec => KeepsTasks
<1>1. QueueInit => QueueInv
  BY QueueInitTypes, QueueInitOnePlace DEF QueueInv
<1> QED BY <1>1, QueueStepInv, QueueInitBuffer, QueueStepBuffer, PTL
        DEF QueueSpec, KeepsTasks, Buffer!BufferSpec

-----------------------------------------------------------------------------
(* The reader's check is out of date by one pop at most.                   *)

ClaimsInv == QueueTypeOK /\ ClaimsBacked

\* The heap is a finite set; its size is 0 only when it is empty, and follows a
\* task that comes or goes.
LEMMA HeapSize ==
  ASSUME QueueTypeOK
  PROVE  /\ Cardinality(pq) \in Nat
         /\ pq # {} => Cardinality(pq) >= 1
         /\ \A t \in Task : Cardinality(pq \cup {t}) >= Cardinality(pq)
         /\ \A t \in pq : Cardinality(pq \ {t}) = Cardinality(pq) - 1
<1>1. IsFiniteSet(pq)
  BY FS_Subset, QueueAssumption DEF QueueTypeOK
<1>2. Cardinality(pq) \in Nat
  BY <1>1, FS_CardinalityType
<1>3. pq # {} => Cardinality(pq) # 0
  BY <1>1, FS_EmptySet
<1>4. ASSUME NEW t \in Task
      PROVE  Cardinality(pq \cup {t}) >= Cardinality(pq)
  <2>1. Cardinality(pq \cup {t}) = IF t \in pq THEN Cardinality(pq) ELSE Cardinality(pq) + 1
    BY <1>1, FS_AddElement
  <2> QED BY <1>2, <2>1
<1>5. ASSUME NEW t \in pq
      PROVE  Cardinality(pq \ {t}) = Cardinality(pq) - 1
  BY <1>1, <1>5, FS_RemoveElement
<1> QED BY <1>2, <1>3, <1>4, <1>5

\* Every step keeps the claims backed: a tick needs a heap that is not empty, a
\* hand-over moves a claim from the reader to the consumer, and a pop uses one up.
LEMMA QueueStepClaims == ClaimsInv /\ [QueueNext]_queueVars => ClaimsInv'
<1> SUFFICES ASSUME ClaimsInv, [QueueNext]_queueVars
             PROVE  ClaimsBacked'
  BY QueueStepTypes DEF ClaimsInv
<1> USE DEF ClaimsInv
<1>1. Cardinality(pq) \in Nat /\ (pq # {} => Cardinality(pq) >= 1)
  BY HeapSize
<1>2. CASE ReaderTick
  BY <1>1, <1>2 DEF ReaderTick, ClaimsBacked, Claims
<1>3. CASE ReaderPark \/ HandOver \/ ReaderStop
  BY <1>1, <1>3 DEF ReaderPark, HandOver, ReaderStop, ClaimsBacked, Claims
<1>4. CASE ReaderSendsOnClosed \/ PopEmpty \/ UNCHANGED queueVars
  <2>1. UNCHANGED <<pq, reader, calling>>
    BY <1>4 DEF ReaderSendsOnClosed, PopEmpty, queueVars, readerVars
  <2> QED BY <2>1 DEF ClaimsBacked, Claims
<1>5. ASSUME NEW t \in Task, PopTask(t)
      PROVE  ClaimsBacked'
  <2>1. Cardinality(pq') = Cardinality(pq) - 1
    BY <1>5, HeapSize DEF PopTask
  <2> QED BY <1>1, <1>5, <2>1 DEF PopTask, ClaimsBacked, Claims
<1>6. ASSUME Cardinality(pq') >= Cardinality(pq), UNCHANGED <<reader, calling>>,
             Cardinality(pq') \in Nat
      PROVE  ClaimsBacked'
  BY <1>1, <1>6 DEF ClaimsBacked, Claims
<1>7. Cardinality(pq') \in Nat
  <2>1. QueueTypeOK'
    BY QueueStepTypes
  <2>2. IsFiniteSet(pq')
    BY <2>1, FS_Subset, QueueAssumption DEF QueueTypeOK
  <2> QED BY <2>2, FS_CardinalityType
<1>8. ASSUME NEW t \in Task, PushTask(t) \/ Rewind(t)
      PROVE  ClaimsBacked'
  <2>1. (pq' = pq \/ pq' = pq \cup {t}) /\ UNCHANGED <<reader, calling>>
    BY <1>8 DEF PushTask, Rewind, readerVars
  <2>2. Cardinality(pq') >= Cardinality(pq)
    BY <1>1, <2>1, HeapSize
  <2> QED BY <1>6, <1>7, <2>1, <2>2
<1>9. CASE ListenerNext
  <2>1. UNCHANGED <<reader, calling>> /\ (pq' = pq \/ (badTask \in Task /\ pq' = pq \cup {badTask}))
    <3>1. CASE ListenerLoop
      BY <3>1 DEF ListenerLoop, readerVars
    <3>2. CASE ListenerReceive
      BY <3>2 DEF ListenerReceive, readerVars
    <3>3. ASSUME NEW hit \in Hits, ListenerPush(hit)
          PROVE  UNCHANGED <<reader, calling>> /\ badTask \in Task
                 /\ (pq' = pq \/ pq' = pq \cup {badTask})
      BY <3>3 DEF ListenerPush, readerVars, QueueTypeOK
    <3> QED BY <1>9, <3>1, <3>2, <3>3 DEF ListenerNext
  <2>2. Cardinality(pq') >= Cardinality(pq)
    BY <1>1, <2>1, HeapSize
  <2> QED BY <1>6, <1>7, <2>1, <2>2
<1>10. CASE Close
  <2>1. /\ pq' = pq /\ calling' = calling
        /\ reader' = reader \/ reader' = "stopped"
    <3>1. CASE CloseFlag \/ CloseReader
      BY <3>1 DEF CloseFlag, CloseReader, readerVars
    <3>2. CASE CloseDone
      BY <3>2 DEF CloseDone
    <3> QED BY <1>10, <3>1, <3>2 DEF Close
  <2> QED BY <1>1, <2>1 DEF ClaimsBacked, Claims
<1> QED BY <1>2, <1>3, <1>4, <1>5, <1>8, <1>9, <1>10
        DEF QueueNext, ReaderNext, ConsumerNext, ProducerNext

\* The reader's length check is never out of date by two pops.
THEOREM QueueClaimsBacked == QueueSpec => []ClaimsBacked
<1>1. QueueInit => ClaimsInv
  <2> SUFFICES ASSUME QueueInit PROVE ClaimsBacked
    BY QueueInitTypes DEF ClaimsInv
  <2>1. Cardinality(pq) = 0
    BY FS_EmptySet DEF QueueInit
  <2> QED BY <2>1 DEF QueueInit, ClaimsBacked, Claims
<1>2. ClaimsInv => ClaimsBacked
  BY DEF ClaimsInv
<1> QED BY <1>1, <1>2, QueueStepClaims, PTL DEF QueueSpec

-----------------------------------------------------------------------------
(* The channel that Close closes under the reader.                         *)

\* Once done is closed no reader is parked in the inner select, so that the
\* close of its channel can only be met by one that enters the select later.
ParkedInv == ParkedNeverPanics /\ (DoneClosed => reader # "offering")

\* Close wakes a parked reader before it closes the reader's channel.
LEMMA CloseParked ==
  ASSUME ParkedInv, Close
  PROVE  ParkedInv'
<1>1. CASE CloseFlag
  BY <1>1 DEF CloseFlag, ParkedInv, ParkedNeverPanics, DoneClosed, readerVars, Running
<1>2. CASE CloseDone
  BY <1>2 DEF CloseDone, ParkedInv, ParkedNeverPanics, DoneClosed, Running
<1>3. CASE CloseReader
  BY <1>3 DEF CloseReader, ParkedInv, ParkedNeverPanics, DoneClosed, readerVars, Running
<1> QED BY <1>1, <1>2, <1>3 DEF Close

\* The reader parks only while done is open, and only its select can panic.
LEMMA ReaderParked ==
  ASSUME ParkedInv, ReaderNext
  PROVE  ParkedInv'
<1>1. Running => panic # "send on closed channel"
  BY DEF Running
<1>2. CASE ReaderTick
  BY <1>1, <1>2 DEF ReaderTick, ParkedInv, ParkedNeverPanics, DoneClosed
<1>3. CASE ReaderPark
  BY <1>1, <1>3 DEF ReaderPark, ParkedInv, ParkedNeverPanics, DoneClosed
<1>4. CASE HandOver
  BY <1>1, <1>4 DEF HandOver, ParkedInv, ParkedNeverPanics, DoneClosed
<1>5. CASE ReaderStop
  BY <1>1, <1>5 DEF ReaderStop, ParkedInv, ParkedNeverPanics, DoneClosed
<1>6. CASE ReaderSendsOnClosed
  BY <1>6 DEF ReaderSendsOnClosed, ParkedInv, ParkedNeverPanics, DoneClosed, readerVars
<1> QED BY <1>2, <1>3, <1>4, <1>5, <1>6 DEF ReaderNext

\* Producers, consumer and listener leave the reader and its channel alone.
LEMMA OthersParked ==
  ASSUME ParkedInv, ConsumerNext \/ ListenerNext \/ ProducerNext \/ UNCHANGED queueVars
  PROVE  ParkedInv'
<1>1. /\ UNCHANGED <<reader, closing>>
      /\ panic' = panic \/ panic' = "pop of an empty heap"
  BY DEF ConsumerNext, PopTask, PopEmpty, ListenerNext, ListenerLoop, ListenerReceive, ListenerPush,
         ProducerNext, PushTask, Rewind, readerVars, queueVars
<1> QED BY <1>1 DEF ParkedInv, ParkedNeverPanics, DoneClosed

\* A reader that is parked on its channel when the server shuts down ends and
\* does not panic: only one that passed its length check and had yet to enter
\* the select can meet the closed channel (queue.go:155-160, 199-203).
THEOREM QueueParkedNeverPanics == QueueSpec => []ParkedNeverPanics
<1>1. QueueInit => ParkedInv
  BY DEF QueueInit, ParkedInv, ParkedNeverPanics, DoneClosed
<1>2. ParkedInv /\ [QueueNext]_queueVars => ParkedInv'
  BY CloseParked, ReaderParked, OthersParked DEF QueueNext
<1>3. ParkedInv => ParkedNeverPanics
  BY DEF ParkedInv
<1> QED BY <1>1, <1>2, <1>3, PTL DEF QueueSpec

-----------------------------------------------------------------------------
(* The flow: its types.                                                    *)

\* The initial state has the types.
LEMMA FlowInitTypes == FlowInit => FlowTypeOK
<1> SUFFICES ASSUME FlowInit PROVE FlowTypeOK
  OBVIOUS
<1>1. QueueTypeOK
  BY QueueInitTypes DEF FlowInit
<1>2. NoTask \notin Task
  BY QueueAssumption
<1> QED BY <1>1, <1>2 DEF FlowInit, QueueInit, FlowTypeOK

\* The queue's part of a step of the flow keeps the queue's types.
LEMMA FlowStepQueueTypes == FlowTypeOK /\ [FlowNext]_flowVars => QueueTypeOK'
<1> SUFFICES ASSUME FlowTypeOK, [FlowNext]_flowVars
             PROVE  QueueTypeOK'
  OBVIOUS
<1>1. QueueTypeOK
  BY DEF FlowTypeOK
<1>2. CASE UNCHANGED queueVars
  BY <1>1, <1>2, QueueStepTypes
<1>3. CASE ApiStep
  <2>1. ASSUME NEW t \in Task, Submit(t)
        PROVE  QueueTypeOK'
    BY <1>1, <2>1, ProducerTypes DEF Submit
  <2> QED BY <1>2, <1>3, <2>1 DEF ApiStep, SubmitRefused
<1>4. CASE ReaderStep
  BY <1>1, <1>4, ReaderTypes DEF ReaderStep, ReaderNext
<1>5. CASE ListenerStep
  <2>1. badTask \in Task => errorHit[badTask] \in Nat
    BY DEF FlowTypeOK
  <2> QED BY <1>1, <1>5, <2>1, ListenerTypes DEF ListenerStep
<1>6. CASE DispatchStep
  <2>1. CASE DispatchReceive
    BY <1>1, <2>1, ReaderTypes DEF DispatchReceive, ReaderNext
  <2>2. ASSUME NEW t \in Task, DispatchPop(t)
        PROVE  QueueTypeOK'
    BY <1>1, <2>2, ReaderTypes DEF DispatchPop, ConsumerNext
  <2>3. CASE DispatchPopEmpty
    BY <1>1, <2>3, ReaderTypes DEF DispatchPopEmpty, ConsumerNext
  <2> QED BY <1>2, <1>6, <2>1, <2>2, <2>3
          DEF DispatchStep, DispatchServe, DispatchServeError, DispatchStop
<1>7. ASSUME NEW w \in Worker, WorkerStep(w)
      PROVE  QueueTypeOK'
  <2>1. CASE RewindTask(w)
    <3>1. task[w] \in Task
      BY <2>1 DEF RewindTask, FlowTypeOK
    <3> QED BY <1>1, <2>1, <3>1, ProducerTypes DEF RewindTask
  <2> QED BY <1>2, <1>7, <2>1
          DEF WorkerStep, Locate, RollOn, RollEnd, Break, BreakForGood, ServeNext,
              ServeBusy, ServeError, Return
<1>8. CASE StopStep
  <2>1. CASE CloseQueue
    BY <1>1, <2>1, CloseTypes DEF CloseQueue
  <2> QED BY <1>2, <1>8, <2>1 DEF StopStep, StopDispatcher, StopPool
<1>9. CASE UNCHANGED flowVars
  BY <1>2, <1>9 DEF flowVars
<1> QED BY <1>3, <1>4, <1>5, <1>6, <1>7, <1>8, <1>9 DEF FlowNext

\* A step of the API, the queue's goroutines, the dispatcher or the shutdown
\* keeps the types of the rest.
LEMMA ServiceStepTypes ==
  ASSUME FlowTypeOK, QueueTypeOK',
         ApiStep \/ ReaderStep \/ ListenerStep \/ DispatchStep \/ StopStep
  PROVE  FlowTypeOK'
<1>1. CASE ApiStep
  <2>1. PICK t \in Task : Submit(t) \/ SubmitRefused(t)
    BY <1>1 DEF ApiStep
  <2>2. /\ request' \in [Task -> {"none", "refused", "accepted"}]
        /\ UNCHANGED <<dispatchVars, stopVars, workerVars, taskVars, calling>>
    BY <2>1 DEF Submit, SubmitRefused, PushTask, readerVars, queueVars, FlowTypeOK
  <2> QED BY <2>2 DEF FlowTypeOK, dispatchVars, stopVars, workerVars, taskVars
<1>2. CASE UNCHANGED flowOwnVars /\ UNCHANGED calling
  BY <1>2 DEF FlowTypeOK, flowOwnVars, dispatchVars, stopVars, workerVars, taskVars
<1>3. CASE ReaderStep
  BY <1>2, <1>3 DEF ReaderStep, ReaderTick, ReaderPark, ReaderStop, ReaderSendsOnClosed, readerVars
<1>4. CASE ListenerStep
  BY <1>2, <1>4 DEF ListenerStep, ListenerLoop, ListenerReceive, ListenerPush, readerVars
<1>5. CASE DispatchReceive \/ DispatchPopEmpty
  <2>1. UNCHANGED flowOwnVars /\ dispatcher = "waiting"
    BY <1>5 DEF DispatchReceive, DispatchPopEmpty
  <2> QED BY <2>1 DEF FlowTypeOK, flowOwnVars, dispatchVars, stopVars, workerVars, taskVars
<1>6. ASSUME NEW t \in Task, DispatchPop(t)
      PROVE  FlowTypeOK'
  BY <1>6 DEF DispatchPop, PopTask, FlowTypeOK, stopVars, workerVars, taskVars
<1>7. ASSUME NEW w \in Worker, DispatchServe(w)
      PROVE  FlowTypeOK'
  BY <1>7, QueueAssumption DEF DispatchServe, FlowTypeOK, queueVars, stopVars, taskVars
<1>8. CASE DispatchServeError \/ DispatchStop
  BY <1>8, QueueAssumption
  DEF DispatchServeError, DispatchStop, FlowTypeOK, queueVars, stopVars, workerVars, taskVars
<1>9. CASE CloseQueue
  BY <1>2, <1>9 DEF CloseQueue, Close, CloseFlag, CloseDone, CloseReader, readerVars
<1>10. CASE StopDispatcher \/ StopPool
  <2>1. /\ UNCHANGED <<request, dispatchVars, workerVars, taskVars, calling>>
        /\ stopAsked' \in BOOLEAN /\ poolOpen' \in BOOLEAN
    BY <1>10 DEF StopDispatcher, StopPool, FlowTypeOK, queueVars
  <2> QED BY <2>1 DEF FlowTypeOK, dispatchVars, workerVars, taskVars
<1> QED BY <1>1, <1>3, <1>4, <1>5, <1>6, <1>7, <1>8, <1>9, <1>10 DEF DispatchStep, StopStep

\* A step of a worker keeps the types of the rest.
LEMMA WorkerStepTypes ==
  ASSUME FlowTypeOK, QueueTypeOK', NEW w \in Worker, WorkerStep(w)
  PROVE  FlowTypeOK'
<1> DEFINE t == task[w]
<1>1. at[w] \in {"begin", "handling", "rolled", "broken"} => t \in Task
  BY DEF FlowTypeOK
<1>2. NoTask \notin Task
  BY QueueAssumption
<1>3. CASE Locate(w)
  BY <1>1, <1>3 DEF Locate, FlowTypeOK, queueVars, dispatchVars, stopVars
<1>4. CASE RollOn(w)
  BY <1>1, <1>4 DEF RollOn, FlowTypeOK, queueVars, dispatchVars, stopVars
<1>5. CASE RollEnd(w)
  BY <1>1, <1>2, <1>5 DEF RollEnd, FlowTypeOK, queueVars, dispatchVars, stopVars
<1>6. CASE Break(w)
  BY <1>1, <1>6 DEF Break, FlowTypeOK, queueVars, dispatchVars, stopVars
<1>7. CASE BreakForGood(w)
  BY <1>1, <1>2, <1>7 DEF BreakForGood, FlowTypeOK, queueVars, dispatchVars, stopVars
<1>8. ASSUME NEW v \in Worker, ServeNext(w, v)
      PROVE  FlowTypeOK'
  BY <1>1, <1>2, <1>8 DEF ServeNext, FlowTypeOK, queueVars, dispatchVars, stopVars, taskVars
<1>9. CASE ServeBusy(w)
  BY <1>1, <1>9 DEF ServeBusy, FlowTypeOK, queueVars, dispatchVars, stopVars
<1>10. CASE ServeError(w)
  BY <1>2, <1>10 DEF ServeError, FlowTypeOK, queueVars, dispatchVars, stopVars, taskVars
<1>11. CASE RewindTask(w)
  BY <1>2, <1>11 DEF RewindTask, Rewind, FlowTypeOK, readerVars, dispatchVars, stopVars, taskVars
<1>12. CASE Return(w)
  BY <1>2, <1>12 DEF Return, FlowTypeOK, queueVars, dispatchVars, stopVars, taskVars
<1> QED BY <1>3, <1>4, <1>5, <1>6, <1>7, <1>8, <1>9, <1>10, <1>11, <1>12 DEF WorkerStep

\* Every step keeps the types.
LEMMA FlowStepTypes == FlowTypeOK /\ [FlowNext]_flowVars => FlowTypeOK'
<1> SUFFICES ASSUME FlowTypeOK, [FlowNext]_flowVars
             PROVE  FlowTypeOK'
  OBVIOUS
<1>1. QueueTypeOK'
  BY FlowStepQueueTypes
<1>2. CASE UNCHANGED flowVars
  BY <1>1, <1>2
  DEF flowVars, queueVars, flowOwnVars, FlowTypeOK, dispatchVars, stopVars, workerVars, taskVars
<1> QED BY <1>1, <1>2, ServiceStepTypes, WorkerStepTypes DEF FlowNext

\* The variables of the flow keep their types.
THEOREM FlowTypeCorrect == FlowSpec => []FlowTypeOK
BY FlowInitTypes, FlowStepTypes, PTL DEF FlowSpec

-----------------------------------------------------------------------------
(* The inductive invariant.  To the four properties it adds that a task    *)
(* nobody has accepted is as createStreamTask left it.                     *)

Untouched ==
  \A t \in Task : request[t] # "accepted" =>
    stage[t] = 1 /\ reopen[t] = 0 /\ arrived[t] = 0 /\ errorHit[t] = 0 /\ closes[t] = 0

\* The part of SingleOwner that is about two places at once.
Exclusive ==
  /\ \A t \in Task : InQueue(t) => popped # t /\ \A w \in Worker : task[w] # t
  /\ \A w \in Worker : task[w] \in Task => task[w] # popped
  /\ \A v, w \in Worker : task[v] \in Task /\ task[v] = task[w] => v = w

FlowInv == FlowTypeOK /\ Untouched /\ SingleOwner /\ ResumePoint /\ ClosedForCause

\* The initial state satisfies it: nobody has a task, and no task has moved.
LEMMA FlowInitInv == FlowInit => FlowInv
<1> SUFFICES ASSUME FlowInit PROVE FlowInv
  OBVIOUS
<1>1. FlowTypeOK /\ OnePlace /\ NoTask \notin Task
  BY FlowInitTypes, QueueInitOnePlace, QueueAssumption DEF FlowInit
<1>2. \A t \in Task : ~Owned(t) /\ ~InQueue(t)
  BY <1>1 DEF FlowInit, QueueInit, Owned, InQueue, OnSide
<1>3. SingleOwner
  BY <1>1, <1>2 DEF FlowInit, SingleOwner
<1>4. ResumePoint
  BY <1>2 DEF FlowInit, ResumePoint
<1>5. ClosedForCause
  <2>1. \A t \in Task : Stages[t] \in Nat /\ Stages[t] > 0 /\ MaxHit \in Nat
    BY FlowAssumption
  <2> QED BY <2>1 DEF FlowInit, ClosedForCause
<1>6. Untouched
  BY DEF FlowInit, Untouched
<1> QED BY <1>1, <1>3, <1>4, <1>5, <1>6 DEF FlowInv

\* A step that moves tasks between owners, or lets one go, without changing what a
\* task says of itself, keeps the invariant when it creates no second owner.
LEMMA HandOverKeeps ==
  ASSUME FlowInv, OnePlace', Exclusive', UNCHANGED <<request, taskVars>>,
         \A u \in Task : Owned(u)' => Owned(u),
         \A w \in Worker : at'[w] = "handling" => at[w] = "handling" /\ task'[w] = task[w]
  PROVE  Untouched' /\ SingleOwner' /\ ResumePoint' /\ ClosedForCause'
<1>1. Untouched' /\ ClosedForCause'
  BY DEF FlowInv, Untouched, ClosedForCause, taskVars
<1>2. SingleOwner'
  BY DEF FlowInv, SingleOwner, Exclusive, taskVars
<1>3. ResumePoint'
  BY DEF FlowInv, ResumePoint, taskVars
<1> QED BY <1>1, <1>2, <1>3

\* A step of the queue's own goroutines, of Close, or of the dispatcher that only
\* touches the queue.
LEMMA QueueSideKeeps ==
  ASSUME FlowInv,
         ReaderStep \/ ListenerStep \/ DispatchReceive \/ DispatchPopEmpty \/ CloseQueue
  PROVE  Untouched' /\ SingleOwner' /\ ResumePoint' /\ ClosedForCause'
<1>1. QueueInv
  BY DEF FlowInv, FlowTypeOK, SingleOwner, QueueInv
<1>2. UNCHANGED flowOwnVars
  BY DEF ReaderStep, ListenerStep, DispatchReceive, DispatchPopEmpty, CloseQueue
<1>3. OnePlace' /\ \A u \in Task : InQueue(u)' => InQueue(u)
  <2>1. CASE ReaderStep \/ DispatchReceive \/ DispatchPopEmpty \/ CloseQueue
    <3>1. ReaderNext \/ ConsumerNext \/ Close
      BY <2>1 DEF ReaderStep, DispatchReceive, DispatchPopEmpty, CloseQueue, ReaderNext, ConsumerNext
    <3>2. UNCHANGED <<pq, side, badTask>>
      BY <2>1 DEF ReaderStep, ReaderTick, ReaderPark, ReaderStop, ReaderSendsOnClosed,
                  DispatchReceive, HandOver, DispatchPopEmpty, PopEmpty,
                  CloseQueue, Close, CloseFlag, CloseDone, CloseReader, listenerVars
    <3> QED BY <1>1, <3>1, <3>2, OthersOnePlace, QuietInQueue
  <2>2. CASE ListenerStep
    <3>1. badTask \in Task => errorHit[badTask] \in Nat
      BY DEF FlowInv, FlowTypeOK
    <3>2. OnePlace'
      BY <1>1, <2>2, <3>1, ListenerOnePlace DEF ListenerStep
    <3>3. CASE ListenerLoop
      BY <3>2, <3>3, QuietInQueue DEF ListenerLoop
    <3>4. CASE ListenerReceive
      BY <1>1, <3>2, <3>4, ReceiveInQueue
    <3>5. CASE badTask \in Task /\ ListenerPush(errorHit[badTask])
      BY <1>1, <3>2, <3>5, PushInQueue
    <3> QED BY <2>2, <3>3, <3>4, <3>5 DEF ListenerStep
  <2> QED BY <2>1, <2>2
<1>4. Exclusive'
  BY <1>2, <1>3 DEF Exclusive, FlowInv, SingleOwner, flowOwnVars, dispatchVars, workerVars
<1>5. \A u \in Task : Owned(u)' => Owned(u)
  BY <1>2, <1>3 DEF Owned, flowOwnVars, dispatchVars, workerVars
<1>6. UNCHANGED <<request, taskVars, at, task>>
  BY <1>2 DEF flowOwnVars, workerVars
<1> QED BY <1>3, <1>4, <1>5, <1>6, HandOverKeeps

\* The dispatcher pops a task, serves it or lets it go, or stops.
LEMMA DispatchKeeps ==
  ASSUME FlowInv,
         \/ \E t \in Task : DispatchPop(t)
         \/ \E w \in Worker : DispatchServe(w)
         \/ DispatchServeError \/ DispatchStop
  PROVE  Untouched' /\ SingleOwner' /\ ResumePoint' /\ ClosedForCause'
<1>1. QueueInv /\ FlowTypeOK /\ NoTask \notin Task
  BY QueueAssumption DEF FlowInv, FlowTypeOK, SingleOwner, QueueInv
<1>2. ASSUME UNCHANGED queueVars
      PROVE  OnePlace' /\ \A u : InQueue(u)' <=> InQueue(u)
  BY <1>1, <1>2, QuietInQueue DEF queueVars, QueueInv, OnePlace, OnSide
<1>3. ASSUME NEW t \in Task, DispatchPop(t)
      PROVE  Untouched' /\ SingleOwner' /\ ResumePoint' /\ ClosedForCause'
  <2>1. InQueue(t) /\ \A u \in Task : InQueue(u)' <=> InQueue(u) /\ u # t
    BY <1>1, <1>3, PopInQueue DEF DispatchPop
  <2>2. popped' = t /\ UNCHANGED <<request, at, task, taskVars>>
    BY <1>3 DEF DispatchPop, workerVars
  <2>3. OnePlace'
    BY <1>1, <1>3, OthersOnePlace DEF DispatchPop, ConsumerNext
  <2>4. Exclusive'
    BY <2>1, <2>2 DEF Exclusive, FlowInv, SingleOwner
  <2>5. \A u \in Task : Owned(u)' => Owned(u)
    BY <2>1, <2>2 DEF Owned
  <2> QED BY <2>2, <2>3, <2>4, <2>5, HandOverKeeps
<1>4. ASSUME NEW w \in Worker, DispatchServe(w)
      PROVE  Untouched' /\ SingleOwner' /\ ResumePoint' /\ ClosedForCause'
  <2>1. /\ popped \in Task /\ task[w] \notin Task /\ popped' = NoTask
        /\ task' = [task EXCEPT ![w] = popped] /\ at' = [at EXCEPT ![w] = "begin"]
        /\ UNCHANGED <<queueVars, request, taskVars>>
    BY <1>1, <1>4 DEF DispatchServe, FlowTypeOK
  <2>2. task \in [Worker -> Task \cup {NoTask}]
    BY <1>1 DEF FlowTypeOK
  <2>3. Exclusive'
    BY <1>1, <1>2, <2>1, <2>2 DEF Exclusive, FlowInv, SingleOwner
  <2>4. \A u \in Task : Owned(u)' => Owned(u)
    BY <1>1, <1>2, <2>1, <2>2 DEF Owned
  <2>5. \A x \in Worker : at'[x] = "handling" => at[x] = "handling" /\ task'[x] = task[x]
    <3>1. at \in [Worker -> {"idle", "begin", "handling", "rolled", "broken", "returning"}]
      BY <1>1 DEF FlowTypeOK
    <3> QED BY <2>1, <2>2, <3>1
  <2> QED BY <1>2, <2>1, <2>3, <2>4, <2>5, HandOverKeeps
<1>5. CASE DispatchServeError \/ DispatchStop
  <2>1. popped' \in {NoTask, popped} /\ UNCHANGED <<queueVars, request, at, task, taskVars>>
    BY <1>5 DEF DispatchServeError, DispatchStop, workerVars
  <2>2. Exclusive'
    BY <1>1, <1>2, <2>1 DEF Exclusive, FlowInv, SingleOwner
  <2>3. \A u \in Task : Owned(u)' => Owned(u)
    BY <1>1, <1>2, <2>1 DEF Owned
  <2> QED BY <1>2, <2>1, <2>2, <2>3, HandOverKeeps
<1> QED BY <1>3, <1>4, <1>5

\* The API hands a task in: nobody had it, and it starts at its first job.
LEMMA ApiKeeps ==
  ASSUME FlowInv, ApiStep
  PROVE  Untouched' /\ SingleOwner' /\ ResumePoint' /\ ClosedForCause'
<1>1. QueueInv /\ QueueTypeOK /\ FlowTypeOK
  BY DEF FlowInv, FlowTypeOK, SingleOwner, QueueInv
<1>2. PICK t \in Task : Submit(t) \/ SubmitRefused(t)
  BY DEF ApiStep
<1>3. /\ UNCHANGED <<popped, at, task, taskVars>>
      /\ request[t] = "none" /\ request'[t] \in {"accepted", "refused"}
      /\ \A u \in Task \ {t} : request'[u] = request[u]
  BY <1>1, <1>2 DEF Submit, SubmitRefused, dispatchVars, workerVars, FlowTypeOK
<1>4. ~Owned(t) /\ ~InQueue(t)
  BY <1>3 DEF FlowInv, SingleOwner, Owned
<1>5. stage[t] = 1 /\ reopen[t] = 0 /\ arrived[t] = 0 /\ closes[t] = 0
  BY <1>3 DEF FlowInv, Untouched
<1>6. Stages[t] \in Nat /\ Stages[t] >= 1
  BY FlowAssumption
<1>7. CASE Submit(t)
  <2>1. request'[t] = "accepted"
    BY <1>1, <1>7 DEF Submit, FlowTypeOK
  <2>2. \A u \in Task : InQueue(u)' <=> InQueue(u) \/ u = t
    BY <1>1, <1>7, ProducerInQueue DEF Submit
  <2>3. OnePlace'
    BY <1>1, <1>4, <1>7, ProducerOnePlace DEF Submit
  <2>4. \A u \in Task : Owned(u)' <=> Owned(u) \/ u = t
    BY <1>3, <2>2 DEF Owned
  <2>5. SingleOwner'
    <3>1. Exclusive'
      BY <1>3, <1>4, <2>2 DEF Exclusive, FlowInv, SingleOwner, Owned
    <3>2. \A u \in Task : Owned(u)' => request'[u] = "accepted" /\ closes'[u] = 0
      BY <1>3, <1>5, <2>1, <2>4 DEF FlowInv, SingleOwner, taskVars
    <3> QED BY <2>3, <3>1, <3>2 DEF Exclusive, SingleOwner
  <2>6. ResumePoint'
    BY <1>3, <1>5, <1>6, <2>4 DEF FlowInv, ResumePoint, taskVars
  <2>7. Untouched' /\ ClosedForCause'
    BY <1>3, <2>1 DEF FlowInv, Untouched, ClosedForCause, taskVars
  <2> QED BY <2>5, <2>6, <2>7
<1>8. CASE SubmitRefused(t)
  <2>1. request'[t] = "refused" /\ UNCHANGED queueVars
    BY <1>1, <1>8 DEF SubmitRefused, FlowTypeOK
  <2>2. OnePlace' /\ \A u : InQueue(u)' <=> InQueue(u)
    BY <1>1, <2>1, QuietInQueue DEF queueVars, QueueInv, OnePlace, OnSide
  <2>3. \A u \in Task : Owned(u)' <=> Owned(u)
    BY <1>3, <2>2 DEF Owned
  <2>4. SingleOwner'
    <3>1. Exclusive'
      BY <1>3, <2>2 DEF Exclusive, FlowInv, SingleOwner
    <3>2. \A u \in Task : Owned(u)' => request'[u] = "accepted" /\ closes'[u] = 0
      BY <1>3, <1>4, <2>3 DEF FlowInv, SingleOwner, taskVars
    <3> QED BY <2>2, <3>1, <3>2 DEF Exclusive, SingleOwner
  <2>5. ResumePoint' /\ ClosedForCause'
    BY <1>3, <2>3 DEF FlowInv, ResumePoint, ClosedForCause, taskVars
  <2>6. Untouched'
    BY <1>3, <1>5, <2>1 DEF FlowInv, Untouched, taskVars
  <2> QED BY <2>4, <2>5, <2>6
<1> QED BY <1>2, <1>7, <1>8

\* What a worker with a task in hand can rely on: it is the only owner, the task is
\* accepted and open, and its stage is the next to do.
LEMMA WorkerOwns ==
  ASSUME FlowInv, NEW w \in Worker, task[w] \in Task
  PROVE  /\ ~InQueue(task[w]) /\ popped # task[w]
         /\ \A v \in Worker : task[v] = task[w] => v = w
         /\ request[task[w]] = "accepted" /\ closes[task[w]] = 0
         /\ stage[task[w]] = arrived[task[w]] + 1
         /\ stage[task[w]] \in Nat /\ arrived[task[w]] \in Nat /\ errorHit[task[w]] \in Nat
         /\ stage[task[w]] <= Stages[task[w]]
         /\ reopen[task[w]] \in {0, stage[task[w]]}
         /\ errorHit[task[w]] <= MaxHit
         /\ Stages[task[w]] \in Nat /\ MaxHit \in Nat
<1>1. Owned(task[w])
  BY DEF Owned
<1>2. ~InQueue(task[w]) /\ popped # task[w] /\ \A v \in Worker : task[v] = task[w] => v = w
  BY DEF FlowInv, SingleOwner
<1>3. request[task[w]] = "accepted" /\ closes[task[w]] = 0
  BY <1>1 DEF FlowInv, SingleOwner
<1>4. errorHit[task[w]] <= MaxHit
  BY <1>3 DEF FlowInv, ClosedForCause
<1>5. /\ stage[task[w]] = arrived[task[w]] + 1
      /\ stage[task[w]] <= Stages[task[w]]
      /\ reopen[task[w]] \in {0, stage[task[w]]}
  BY <1>1 DEF FlowInv, ResumePoint
<1>6. stage[task[w]] \in Nat /\ arrived[task[w]] \in Nat /\ errorHit[task[w]] \in Nat
  BY DEF FlowInv, FlowTypeOK
<1> QED BY <1>2, <1>3, <1>4, <1>5, <1>6, FlowAssumption

\* A worker passes its task on, to another worker, to the side entry or to nobody,
\* or returns.
LEMMA WorkerPassesOn ==
  ASSUME FlowInv, NEW w \in Worker,
         \/ \E v \in Worker : ServeNext(w, v)
         \/ ServeError(w) \/ RewindTask(w) \/ Return(w)
  PROVE  Untouched' /\ SingleOwner' /\ ResumePoint' /\ ClosedForCause'
<1>1. QueueInv /\ QueueTypeOK /\ FlowTypeOK /\ NoTask \notin Task
  BY QueueAssumption DEF FlowInv, FlowTypeOK, SingleOwner, QueueInv
<1>2. /\ task \in [Worker -> Task \cup {NoTask}]
      /\ at \in [Worker -> {"idle", "begin", "handling", "rolled", "broken", "returning"}]
      /\ \A x \in Worker : task[x] \in Task <=> at[x] \in {"begin", "handling", "rolled", "broken"}
  BY <1>1 DEF FlowTypeOK
<1>3. ASSUME UNCHANGED queueVars
      PROVE  OnePlace' /\ \A u : InQueue(u)' <=> InQueue(u)
  BY <1>1, <1>3, QuietInQueue DEF queueVars, QueueInv, OnePlace, OnSide
<1>4. ASSUME NEW v \in Worker, ServeNext(w, v)
      PROVE  Untouched' /\ SingleOwner' /\ ResumePoint' /\ ClosedForCause'
  <2>1. /\ task[w] \in Task /\ task[v] = NoTask /\ v # w
        /\ task' = [task EXCEPT ![w] = NoTask, ![v] = task[w]]
        /\ at' = [at EXCEPT ![w] = "returning", ![v] = "begin"]
        /\ UNCHANGED <<queueVars, request, popped, taskVars>>
    BY <1>2, <1>4 DEF ServeNext, dispatchVars
  <2>2. Exclusive'
    BY <1>1, <1>2, <1>3, <2>1, WorkerOwns DEF Exclusive, FlowInv, SingleOwner
  <2>3. \A u \in Task : Owned(u)' => Owned(u)
    BY <1>1, <1>2, <1>3, <2>1 DEF Owned
  <2>4. \A x \in Worker : at'[x] = "handling" => at[x] = "handling" /\ task'[x] = task[x]
    BY <1>2, <2>1
  <2> QED BY <1>3, <2>1, <2>2, <2>3, <2>4, HandOverKeeps
<1>5. CASE ServeError(w) \/ Return(w)
  <2>1. /\ task' = task \/ task' = [task EXCEPT ![w] = NoTask]
        /\ at' = [at EXCEPT ![w] = "returning"] \/ at' = [at EXCEPT ![w] = "idle"]
        /\ at[w] # "handling"
        /\ UNCHANGED <<queueVars, request, popped, taskVars>>
    BY <1>5 DEF ServeError, Return, dispatchVars
  <2>2. Exclusive'
    BY <1>1, <1>2, <1>3, <2>1 DEF Exclusive, FlowInv, SingleOwner
  <2>3. \A u \in Task : Owned(u)' => Owned(u)
    BY <1>1, <1>2, <1>3, <2>1 DEF Owned
  <2>4. \A x \in Worker : at'[x] = "handling" => at[x] = "handling" /\ task'[x] = task[x]
    BY <1>2, <2>1
  <2> QED BY <1>3, <2>1, <2>2, <2>3, <2>4, HandOverKeeps
<1>6. CASE RewindTask(w)
  <2>1. /\ task[w] \in Task /\ Rewind(task[w])
        /\ task' = [task EXCEPT ![w] = NoTask]
        /\ at' = [at EXCEPT ![w] = "returning"]
        /\ UNCHANGED <<request, popped, taskVars>>
    BY <1>2, <1>6 DEF RewindTask, dispatchVars
  <2>2. \A u : InQueue(u)' <=> InQueue(u) \/ u = task[w]
    BY <1>1, <2>1, ProducerInQueue
  <2>3. OnePlace'
    BY <1>1, <2>1, WorkerOwns, ProducerOnePlace
  <2>4. Exclusive'
    BY <1>1, <1>2, <2>1, <2>2, WorkerOwns DEF Exclusive, FlowInv, SingleOwner
  <2>5. \A u \in Task : Owned(u)' => Owned(u)
    BY <1>1, <1>2, <2>1, <2>2 DEF Owned
  <2>6. \A x \in Worker : at'[x] = "handling" => at[x] = "handling" /\ task'[x] = task[x]
    BY <1>2, <2>1
  <2> QED BY <2>1, <2>3, <2>4, <2>5, <2>6, HandOverKeeps
<1> QED BY <1>4, <1>5, <1>6

\* A worker that keeps its task moves no other: the owners and the places stay.
LEMMA WorkerKeepsOwners ==
  ASSUME FlowInv, NEW w \in Worker,
         Locate(w) \/ RollOn(w) \/ Break(w) \/ ServeBusy(w)
  PROVE  /\ UNCHANGED <<queueVars, request, popped, task, closes>>
         /\ SingleOwner' /\ \A u \in Task : Owned(u)' => Owned(u)
<1>1. UNCHANGED <<queueVars, request, popped, task, closes>>
  BY DEF Locate, RollOn, Break, ServeBusy, dispatchVars
<1>2. QueueInv
  BY DEF FlowInv, FlowTypeOK, SingleOwner, QueueInv
<1>3. OnePlace' /\ \A u : InQueue(u)' <=> InQueue(u)
  BY <1>1, <1>2, QuietInQueue DEF queueVars, QueueInv, OnePlace, OnSide
<1>4. \A u \in Task : Owned(u)' <=> Owned(u)
  BY <1>1, <1>3 DEF Owned
<1>5. SingleOwner'
  <2>1. Exclusive'
    BY <1>1, <1>3 DEF Exclusive, FlowInv, SingleOwner
  <2>2. \A u \in Task : Owned(u)' => request'[u] = "accepted" /\ closes'[u] = 0
    BY <1>1, <1>4 DEF FlowInv, SingleOwner
  <2> QED BY <1>3, <2>1, <2>2 DEF Exclusive, SingleOwner
<1> QED BY <1>1, <1>4, <1>5

\* A worker runs a job of its task: to the job, past it, or back to it.
LEMMA WorkerRuns ==
  ASSUME FlowInv, NEW w \in Worker,
         Locate(w) \/ RollOn(w) \/ Break(w) \/ ServeBusy(w)
  PROVE  Untouched' /\ SingleOwner' /\ ResumePoint' /\ ClosedForCause'
<1> DEFINE t == task[w]
<1>1. /\ FlowTypeOK /\ Untouched /\ ResumePoint /\ ClosedForCause
      /\ stage \in [Task -> Nat] /\ reopen \in [Task -> Nat] /\ arrived \in [Task -> Nat]
      /\ errorHit \in [Task -> Nat]
      /\ at \in [Worker -> {"idle", "begin", "handling", "rolled", "broken", "returning"}]
      /\ \A x \in Worker : task[x] \in Task <=> at[x] \in {"begin", "handling", "rolled", "broken"}
  BY DEF FlowInv, FlowTypeOK
<1>2. t \in Task
  BY <1>1 DEF Locate, RollOn, Break, ServeBusy
<1>3. /\ request[t] = "accepted" /\ closes[t] = 0 /\ stage[t] = arrived[t] + 1
      /\ stage[t] \in Nat /\ arrived[t] \in Nat /\ errorHit[t] \in Nat
      /\ stage[t] <= Stages[t] /\ reopen[t] \in {0, stage[t]} /\ errorHit[t] <= MaxHit
      /\ Stages[t] \in Nat /\ MaxHit \in Nat
      /\ \A v \in Worker : task[v] = t => v = w
  BY <1>2, WorkerOwns
<1>4. /\ UNCHANGED <<request, task, closes>>
      /\ SingleOwner' /\ \A u \in Task : Owned(u)' => Owned(u)
  BY WorkerKeepsOwners
<1>5. \A u \in Task : u # t =>
        /\ stage'[u] = stage[u] /\ reopen'[u] = reopen[u]
        /\ arrived'[u] = arrived[u] /\ errorHit'[u] = errorHit[u]
  BY <1>1, <1>2 DEF Locate, RollOn, Break, ServeBusy
<1>6. /\ stage'[t] = arrived'[t] + 1 /\ stage'[t] <= Stages[t]
      /\ reopen'[t] \in {0, stage'[t]}
      /\ arrived'[t] < Stages[t] /\ errorHit'[t] <= MaxHit
      /\ at'[w] = "handling" => reopen'[t] = 0
  <2>1. CASE Locate(w)
    BY <1>1, <1>2, <1>3, <2>1 DEF Locate
  <2>2. CASE RollOn(w)
    <3>1. reopen[t] = 0
      BY <1>1, <2>2 DEF RollOn, ResumePoint
    <3> QED BY <1>1, <1>2, <1>3, <2>2, <3>1 DEF RollOn
  <2>3. CASE Break(w)
    BY <1>1, <1>2, <1>3, <2>3 DEF Break
  <2>4. CASE ServeBusy(w)
    BY <1>1, <1>2, <1>3, <2>4 DEF ServeBusy
  <2> QED BY <2>1, <2>2, <2>3, <2>4
<1>7. \A x \in Worker : x # w => at'[x] = at[x]
  BY <1>1 DEF Locate, RollOn, Break, ServeBusy
<1>8. Untouched'
  BY <1>1, <1>3, <1>4, <1>5 DEF Untouched
<1>9. ClosedForCause'
  BY <1>1, <1>3, <1>4, <1>5, <1>6 DEF ClosedForCause
<1>10. ResumePoint'
  <2>1. \A u \in Task : Owned(u)' =>
          stage'[u] = arrived'[u] + 1 /\ reopen'[u] \in {0, stage'[u]} /\ stage'[u] <= Stages[u]
    BY <1>1, <1>4, <1>5, <1>6 DEF ResumePoint
  <2>2. ASSUME NEW x \in Worker, at'[x] = "handling"
        PROVE  reopen'[task'[x]] = 0
    <3>1. CASE x = w
      BY <1>4, <1>6, <2>2, <3>1
    <3>2. CASE x # w
      <4>1. at[x] = "handling" /\ task[x] \in Task /\ task[x] # t
        BY <1>1, <1>3, <1>7, <2>2, <3>2
      <4> QED BY <1>1, <1>4, <1>5, <4>1 DEF ResumePoint
    <3> QED BY <3>1, <3>2
  <2> QED BY <2>1, <2>2 DEF ResumePoint
<1> QED BY <1>4, <1>8, <1>9, <1>10

\* A worker closes its task, after the last job or after one error too many, and
\* nobody has it any more.
LEMMA WorkerCloses ==
  ASSUME FlowInv, NEW w \in Worker, RollEnd(w) \/ BreakForGood(w)
  PROVE  Untouched' /\ SingleOwner' /\ ResumePoint' /\ ClosedForCause'
<1> DEFINE t == task[w]
<1>1. /\ QueueInv /\ Untouched /\ ResumePoint /\ ClosedForCause
      /\ NoTask \notin Task /\ task \in [Worker -> Task \cup {NoTask}]
      /\ reopen \in [Task -> Nat] /\ arrived \in [Task -> Nat]
      /\ errorHit \in [Task -> Nat] /\ closes \in [Task -> Nat]
      /\ at \in [Worker -> {"idle", "begin", "handling", "rolled", "broken", "returning"}]
      /\ \A x \in Worker : task[x] \in Task <=> at[x] \in {"begin", "handling", "rolled", "broken"}
  BY QueueAssumption DEF FlowInv, FlowTypeOK, QueueInv, SingleOwner
<1>2. /\ t \in Task /\ task' = [task EXCEPT ![w] = NoTask]
      /\ at' = [at EXCEPT ![w] = "returning"]
      /\ closes' = [closes EXCEPT ![t] = @ + 1]
      /\ UNCHANGED <<queueVars, request, popped, stage>>
  BY <1>1 DEF RollEnd, BreakForGood, dispatchVars
<1>3. /\ request[t] = "accepted" /\ closes[t] = 0 /\ stage[t] = arrived[t] + 1
      /\ arrived[t] \in Nat /\ errorHit[t] \in Nat
      /\ stage[t] <= Stages[t] /\ errorHit[t] <= MaxHit
      /\ Stages[t] \in Nat /\ MaxHit \in Nat
      /\ ~InQueue(t) /\ popped # t /\ \A v \in Worker : task[v] = t => v = w
  BY <1>2, WorkerOwns
<1>4. OnePlace' /\ \A u : InQueue(u)' <=> InQueue(u)
  BY <1>1, <1>2, QuietInQueue DEF queueVars, QueueInv, OnePlace, OnSide
<1>5. \A u \in Task : Owned(u)' => Owned(u) /\ u # t
  BY <1>1, <1>2, <1>3, <1>4 DEF Owned
<1>6. \A u \in Task : u # t =>
        /\ stage'[u] = stage[u] /\ reopen'[u] = reopen[u] /\ arrived'[u] = arrived[u]
        /\ errorHit'[u] = errorHit[u] /\ closes'[u] = closes[u]
  BY <1>1, <1>2 DEF RollEnd, BreakForGood
<1>7. SingleOwner'
  <2>1. Exclusive'
    BY <1>1, <1>2, <1>4 DEF Exclusive, FlowInv, SingleOwner
  <2>2. \A u \in Task : Owned(u)' => request'[u] = "accepted" /\ closes'[u] = 0
    BY <1>2, <1>5, <1>6 DEF FlowInv, SingleOwner
  <2> QED BY <1>4, <2>1, <2>2 DEF Exclusive, SingleOwner
<1>8. Untouched'
  BY <1>1, <1>2, <1>3, <1>6 DEF Untouched
<1>9. ResumePoint'
  <2>1. \A u \in Task : Owned(u)' =>
          stage'[u] = arrived'[u] + 1 /\ reopen'[u] \in {0, stage'[u]} /\ stage'[u] <= Stages[u]
    BY <1>1, <1>5, <1>6 DEF ResumePoint
  <2>2. ASSUME NEW x \in Worker, at'[x] = "handling"
        PROVE  reopen'[task'[x]] = 0
    <3>1. x # w /\ at[x] = "handling" /\ task'[x] = task[x]
      BY <1>1, <1>2, <2>2
    <3>2. task[x] \in Task /\ task[x] # t
      BY <1>1, <1>3, <3>1
    <3> QED BY <1>1, <1>6, <3>1, <3>2 DEF ResumePoint
  <2> QED BY <2>1, <2>2 DEF ResumePoint
<1>10. ClosedForCause'
  <2>1. /\ closes'[t] = 1
        /\ \/ arrived'[t] = Stages[t] /\ errorHit'[t] <= MaxHit
           \/ arrived'[t] < Stages[t] /\ errorHit'[t] = MaxHit + 1
    BY <1>1, <1>2, <1>3 DEF RollEnd, BreakForGood
  <2> QED BY <1>1, <1>6, <2>1 DEF ClosedForCause
<1> QED BY <1>7, <1>8, <1>9, <1>10

\* Every step keeps the invariant.
LEMMA FlowStepInv == FlowInv /\ [FlowNext]_flowVars => FlowInv'
<1> SUFFICES ASSUME FlowInv, [FlowNext]_flowVars
             PROVE  Untouched' /\ SingleOwner' /\ ResumePoint' /\ ClosedForCause'
  BY FlowStepTypes DEF FlowInv
<1>1. CASE ApiStep
  BY <1>1, ApiKeeps
<1>2. CASE ReaderStep \/ ListenerStep
  BY <1>2, QueueSideKeeps
<1>3. CASE DispatchStep
  BY <1>3, QueueSideKeeps, DispatchKeeps DEF DispatchStep
<1>4. ASSUME NEW w \in Worker, WorkerStep(w)
      PROVE  Untouched' /\ SingleOwner' /\ ResumePoint' /\ ClosedForCause'
  BY <1>4, WorkerRuns, WorkerCloses, WorkerPassesOn DEF WorkerStep
<1>5. CASE CloseQueue
  BY <1>5, QueueSideKeeps
<1>6. ASSUME UNCHANGED <<queueVars, request, popped, at, task, taskVars>>
      PROVE  Untouched' /\ SingleOwner' /\ ResumePoint' /\ ClosedForCause'
  <2>1. OnePlace' /\ \A u : InQueue(u)' <=> InQueue(u)
    BY <1>6, QuietInQueue DEF queueVars, FlowInv, SingleOwner, OnePlace, OnSide
  <2>2. Exclusive'
    BY <1>6, <2>1 DEF Exclusive, FlowInv, SingleOwner
  <2>3. \A u \in Task : Owned(u)' => Owned(u)
    BY <1>6, <2>1 DEF Owned
  <2> QED BY <1>6, <2>1, <2>2, <2>3, HandOverKeeps
<1>7. CASE StopDispatcher \/ StopPool \/ UNCHANGED flowVars
  BY <1>6, <1>7
  DEF StopDispatcher, StopPool, flowVars, flowOwnVars, dispatchVars, workerVars
<1> QED BY <1>1, <1>2, <1>3, <1>4, <1>5, <1>7 DEF FlowNext, StopStep

\* No task ever has two owners, and none has one once it is closed.
THEOREM FlowSingleOwner == FlowSpec => []SingleOwner
<1>1. FlowInv => SingleOwner
  BY DEF FlowInv
<1> QED BY <1>1, FlowInitInv, FlowStepInv, PTL DEF FlowSpec

\* A task always resumes at the job after the last that succeeded.
THEOREM FlowResumePoint == FlowSpec => []ResumePoint
<1>1. FlowInv => ResumePoint
  BY DEF FlowInv
<1> QED BY <1>1, FlowInitInv, FlowStepInv, PTL DEF FlowSpec

\* A task is closed at most once, finished or with its error budget spent.
THEOREM FlowClosedForCause == FlowSpec => []ClosedForCause
<1>1. FlowInv => ClosedForCause
  BY DEF FlowInv
<1> QED BY <1>1, FlowInitInv, FlowStepInv, PTL DEF FlowSpec

-----------------------------------------------------------------------------
(* The flow uses the queue as RetryQueue assumes.                          *)

\* Every step of the flow is a step of the queue or leaves it alone: a task is only
\* pushed or rewound from outside, and comes back with a number of errors within
\* the budget.
LEMMA FlowStepQueue == FlowInv /\ [FlowNext]_flowVars => [QueueNext]_queueVars
<1> SUFFICES ASSUME FlowInv, [FlowNext]_flowVars
             PROVE  [QueueNext]_queueVars
  OBVIOUS
<1>1. ASSUME NEW t \in Task, Submit(t)
      PROVE  QueueNext
  <2>1. PushTask(t) /\ request[t] = "none"
    BY <1>1 DEF Submit
  <2>2. ~InQueue(t)
    BY <2>1 DEF FlowInv, SingleOwner, Owned
  <2> QED BY <2>1, <2>2 DEF QueueNext, ProducerNext
<1>2. CASE ReaderStep
  BY <1>2 DEF ReaderStep, QueueNext, ReaderNext
<1>3. CASE ListenerStep
  <2>1. CASE badTask \in Task /\ ListenerPush(errorHit[badTask])
    <3>1. Owned(badTask) /\ errorHit[badTask] \in Nat
      BY <2>1 DEF Owned, InQueue, FlowInv, FlowTypeOK
    <3>2. errorHit[badTask] <= MaxHit
      BY <2>1, <3>1 DEF FlowInv, SingleOwner, ClosedForCause
    <3>3. errorHit[badTask] \in Hits
      BY <3>1, <3>2, FlowAssumption
    <3> QED BY <2>1, <3>3 DEF QueueNext, ListenerNext
  <2> QED BY <1>3, <2>1 DEF ListenerStep, QueueNext, ListenerNext
<1>4. CASE DispatchStep
  BY <1>4 DEF DispatchStep, DispatchReceive, DispatchPop, DispatchPopEmpty, DispatchServe,
              DispatchServeError, DispatchStop, QueueNext, ReaderNext, ConsumerNext
<1>5. ASSUME NEW w \in Worker, WorkerStep(w)
      PROVE  [QueueNext]_queueVars
  <2>1. CASE RewindTask(w)
    <3>1. task[w] \in Task /\ Rewind(task[w])
      BY <2>1 DEF RewindTask, FlowInv, FlowTypeOK
    <3>2. ~InQueue(task[w])
      BY <3>1, WorkerOwns
    <3> QED BY <3>1, <3>2 DEF QueueNext, ProducerNext
  <2> QED BY <1>5, <2>1
          DEF WorkerStep, Locate, RollOn, RollEnd, Break, BreakForGood, ServeNext,
              ServeBusy, ServeError, Return
<1>6. CASE StopStep
  BY <1>6 DEF StopStep, CloseQueue, StopDispatcher, StopPool, QueueNext
<1> QED BY <1>1, <1>2, <1>3, <1>4, <1>5, <1>6
        DEF FlowNext, ApiStep, SubmitRefused, flowVars

\* The queue inside the flow behaves as RetryQueue says.
THEOREM FlowImplementsQueue == FlowSpec => QueueSpec
<1>1. FlowInit => QueueInit
  BY DEF FlowInit
<1> QED BY <1>1, FlowInitInv, FlowStepInv, FlowStepQueue, PTL DEF FlowSpec, QueueSpec

\* So the flow's queue, too, keeps the promise of TaskBuffer, and its reader's check
\* is never out of date by two pops.
THEOREM FlowKeepsTasks == FlowSpec => KeepsTasks /\ []ClaimsBacked
BY FlowImplementsQueue, QueueKeepsTasks, QueueClaimsBacked

-----------------------------------------------------------------------------
(* What a step does to a task, seen from outside.                          *)

\* Run stops the dispatcher and the pool after the queue.
StopOrder == (stopAsked => ReaderClosed) /\ (~poolOpen => stopAsked)

OwnersKept == \A u \in Task : Owned(u)' <=> Owned(u)
LetGo(t)   == Owned(t) /\ \A u \in Task : Owned(u)' <=> Owned(u) /\ u # t

Quiet == OwnersKept /\ UNCHANGED <<request, arrived, errorHit, closes>>

Lost(t) == LetGo(t) /\ Flagged /\ UNCHANGED <<request, arrived, errorHit, closes, closing>>

Taken(t) ==
  /\ request[t] = "none" /\ ~Flagged
  /\ request' = [request EXCEPT ![t] = "accepted"]
  /\ \A u \in Task : Owned(u)' <=> Owned(u) \/ u = t
  /\ UNCHANGED <<arrived, errorHit, closes, closing>>

Refused(t) ==
  /\ request[t] = "none"
  /\ request' = [request EXCEPT ![t] = "refused"]
  /\ OwnersKept
  /\ UNCHANGED <<arrived, errorHit, closes, closing>>

Advanced(t) ==
  /\ Owned(t)
  /\ arrived[t] + 1 < Stages[t]
  /\ arrived' = [arrived EXCEPT ![t] = @ + 1]
  /\ OwnersKept
  /\ UNCHANGED <<request, errorHit, closes, closing>>

Finished(t) ==
  /\ LetGo(t)
  /\ arrived[t] + 1 = Stages[t]
  /\ arrived' = [arrived EXCEPT ![t] = @ + 1]
  /\ closes' = [closes EXCEPT ![t] = @ + 1]
  /\ UNCHANGED <<request, errorHit, closing>>

Survived(t) ==
  /\ Owned(t)
  /\ errorHit[t] < MaxHit
  /\ errorHit' = [errorHit EXCEPT ![t] = @ + 1]
  /\ OwnersKept
  /\ UNCHANGED <<request, arrived, closes, closing>>

Died(t) ==
  /\ LetGo(t)
  /\ errorHit[t] = MaxHit
  /\ errorHit' = [errorHit EXCEPT ![t] = @ + 1]
  /\ closes' = [closes EXCEPT ![t] = @ + 1]
  /\ UNCHANGED <<request, arrived, closing>>

Happens ==
  \/ Quiet
  \/ \E t \in Task :
       \/ Lost(t) \/ Taken(t) \/ Refused(t)
       \/ Advanced(t) \/ Finished(t) \/ Survived(t) \/ Died(t)

\* The dispatcher and the pool are only ever stopped after the queue.
LEMMA StopOrderStep == StopOrder /\ [FlowNext]_flowVars => StopOrder'
<1> SUFFICES ASSUME StopOrder, [FlowNext]_flowVars PROVE StopOrder'
  OBVIOUS
<1>1. CASE StopDispatcher \/ StopPool
  BY <1>1 DEF StopDispatcher, StopPool, StopOrder, ReaderClosed, queueVars
<1>2. ASSUME UNCHANGED stopVars, closing' = closing \/ closing # "closed"
      PROVE  StopOrder'
  BY <1>2 DEF StopOrder, ReaderClosed, stopVars
<1>3. CASE CloseQueue
  BY <1>2, <1>3 DEF CloseQueue, Close, CloseFlag, CloseDone, CloseReader, flowOwnVars
<1>4. CASE ApiStep
  BY <1>2, <1>4 DEF ApiStep, Submit, SubmitRefused, PushTask, queueVars
<1>5. CASE ReaderStep \/ ListenerStep
  BY <1>2, <1>5
  DEF ReaderStep, ReaderTick, ReaderPark, ReaderStop, ReaderSendsOnClosed,
      ListenerStep, ListenerLoop, ListenerReceive, ListenerPush, flowOwnVars
<1>6. CASE DispatchStep
  BY <1>2, <1>6
  DEF DispatchStep, DispatchReceive, HandOver, DispatchPop, PopTask, DispatchPopEmpty, PopEmpty,
      DispatchServe, DispatchServeError, DispatchStop, flowOwnVars, queueVars
<1>7. ASSUME NEW w \in Worker, WorkerStep(w)
      PROVE  StopOrder'
  BY <1>2, <1>7
  DEF WorkerStep, Locate, RollOn, RollEnd, Break, BreakForGood, ServeNext,
      ServeBusy, ServeError, RewindTask, Rewind, Return, queueVars
<1>8. CASE UNCHANGED flowVars
  BY <1>2, <1>8 DEF flowVars, flowOwnVars, queueVars
<1> QED BY <1>1, <1>3, <1>4, <1>5, <1>6, <1>7, <1>8 DEF FlowNext, StopStep

\* The owners outside the queue stay: the owners are those inside it.
LEMMA OwnersFollow ==
  ASSUME UNCHANGED <<popped, task>>, NEW u, InQueue(u)' <=> InQueue(u)
  PROVE  Owned(u)' <=> Owned(u)
BY DEF Owned

\* The API hands a task in, or is refused.
LEMMA ApiHappens ==
  ASSUME FlowInv, NEW t \in Task, Submit(t) \/ SubmitRefused(t)
  PROVE  Taken(t) \/ Refused(t)
<1>1. CASE Submit(t)
  <2>1. \A u : InQueue(u)' <=> InQueue(u) \/ u = t
    BY <1>1, ProducerInQueue DEF Submit, FlowInv, FlowTypeOK
  <2>2. \A u \in Task : Owned(u)' <=> Owned(u) \/ u = t
    BY <1>1, <2>1 DEF Submit, Owned, dispatchVars, workerVars
  <2> QED BY <1>1, <2>2 DEF Submit, PushTask, Taken, taskVars
<1>2. CASE SubmitRefused(t)
  <2>1. OwnersKept
    BY <1>2, QuietInQueue, OwnersFollow
    DEF SubmitRefused, OwnersKept, queueVars, dispatchVars, workerVars
  <2> QED BY <1>2, <2>1 DEF SubmitRefused, Refused, queueVars, taskVars
<1> QED BY <1>1, <1>2

\* Nothing but the listener's push moves a task when the queue's goroutines or Close
\* take a step, and that only drops it when the queue is closed.
LEMMA QueueHappens ==
  ASSUME FlowInv,
         ReaderStep \/ ListenerStep \/ DispatchReceive \/ DispatchPopEmpty \/ CloseQueue
  PROVE  Quiet \/ \E t \in Task : Lost(t)
<1>1. UNCHANGED <<popped, task, request, arrived, errorHit, closes>>
  BY DEF ReaderStep, ListenerStep, DispatchReceive, DispatchPopEmpty, CloseQueue,
         flowOwnVars, dispatchVars, workerVars, taskVars
<1>2. QueueInv
  BY DEF FlowInv, FlowTypeOK, SingleOwner, QueueInv
<1>3. ASSUME \A u \in Task : InQueue(u)' <=> InQueue(u)
      PROVE  Quiet
  BY <1>1, <1>3, OwnersFollow DEF Quiet, OwnersKept
<1>4. CASE ReaderStep \/ DispatchReceive \/ DispatchPopEmpty \/ CloseQueue
  <2>1. UNCHANGED <<pq, side, badTask>>
    BY <1>4 DEF ReaderStep, ReaderTick, ReaderPark, ReaderStop, ReaderSendsOnClosed,
                DispatchReceive, HandOver, DispatchPopEmpty, PopEmpty,
                CloseQueue, Close, CloseFlag, CloseDone, CloseReader, listenerVars
  <2> QED BY <1>3, <2>1, QuietInQueue
<1>5. CASE ListenerStep
  <2>1. CASE ListenerLoop
    BY <1>3, <2>1, QuietInQueue DEF ListenerLoop
  <2>2. CASE ListenerReceive
    BY <1>2, <1>3, <2>2, ReceiveInQueue
  <2>3. CASE ListenerPush(errorHit[badTask])
    <3>1. /\ badTask \in Task /\ InQueue(badTask)
          /\ \A u \in Task : InQueue(u)' <=> InQueue(u) /\ ~(Flagged /\ u = badTask)
      BY <1>2, <2>3, PushInQueue
    <3>2. CASE Flagged
      <4>1. popped # badTask /\ \A w \in Worker : task[w] # badTask
        BY <3>1 DEF FlowInv, SingleOwner
      <4>2. LetGo(badTask)
        BY <1>1, <3>1, <3>2, <4>1 DEF LetGo, Owned
      <4>3. closing' = closing
        BY <2>3 DEF ListenerPush
      <4> QED BY <1>1, <3>1, <3>2, <4>2, <4>3 DEF Lost
    <3>3. CASE ~Flagged
      BY <1>3, <3>1, <3>3
    <3> QED BY <3>2, <3>3
  <2> QED BY <1>5, <2>1, <2>2, <2>3 DEF ListenerStep
<1> QED BY <1>4, <1>5

\* The dispatcher passes its task on; it drops it only when the pool is stopped.
LEMMA DispatchHappens ==
  ASSUME FlowInv, StopOrder,
         \/ \E t \in Task : DispatchPop(t)
         \/ \E w \in Worker : DispatchServe(w)
         \/ DispatchServeError \/ DispatchStop
  PROVE  Quiet \/ \E t \in Task : Lost(t)
<1>1. QueueInv /\ FlowTypeOK /\ NoTask \notin Task
  BY QueueAssumption DEF FlowInv, FlowTypeOK, SingleOwner, QueueInv
<1>2. UNCHANGED <<request, arrived, errorHit, closes>>
  BY DEF DispatchPop, DispatchServe, DispatchServeError, DispatchStop, taskVars
<1>3. ASSUME NEW t \in Task, DispatchPop(t)
      PROVE  OwnersKept
  <2>1. InQueue(t) /\ \A u \in Task : InQueue(u)' <=> InQueue(u) /\ u # t
    BY <1>1, <1>3, PopInQueue DEF DispatchPop
  <2>2. popped' = t /\ popped \notin Task /\ task' = task
    BY <1>1, <1>3 DEF DispatchPop, workerVars, FlowTypeOK
  <2> QED BY <2>1, <2>2 DEF OwnersKept, Owned
<1>4. ASSUME NEW w \in Worker, DispatchServe(w)
      PROVE  OwnersKept
  <2>1. /\ popped \in Task /\ task[w] \notin Task /\ popped' = NoTask
        /\ task' = [task EXCEPT ![w] = popped]
        /\ task \in [Worker -> Task \cup {NoTask}]
    BY <1>1, <1>4 DEF DispatchServe, FlowTypeOK
  <2>2. \A u : InQueue(u)' <=> InQueue(u)
    BY <1>4, QuietInQueue DEF DispatchServe, queueVars
  <2> QED BY <1>1, <2>1, <2>2 DEF OwnersKept, Owned
<1>5. CASE DispatchServeError
  <2>1. /\ popped \in Task /\ popped' = NoTask /\ task' = task
        /\ \A u : InQueue(u)' <=> InQueue(u)
        /\ closing' = closing
    BY <1>1, <1>5, QuietInQueue DEF DispatchServeError, FlowTypeOK, queueVars, workerVars
  <2>2. ~InQueue(popped) /\ \A w \in Worker : task[w] # popped
    BY <2>1 DEF FlowInv, SingleOwner
  <2>3. LetGo(popped)
    BY <1>1, <2>1, <2>2 DEF LetGo, Owned
  <2>4. Flagged
    BY <1>5 DEF DispatchServeError, StopOrder, ReaderClosed, Flagged
  <2> QED BY <1>2, <2>1, <2>3, <2>4 DEF Lost
<1>6. CASE DispatchStop
  <2>1. UNCHANGED <<pq, side, badTask, popped, task>>
    BY <1>6 DEF DispatchStop, queueVars, workerVars
  <2>2. OwnersKept
    BY <2>1, QuietInQueue, OwnersFollow DEF OwnersKept
  <2> QED BY <1>2, <2>2 DEF Quiet
<1> QED BY <1>2, <1>3, <1>4, <1>5, <1>6 DEF Quiet

\* A worker advances its task, meets an error, closes it or passes it on; it drops it
\* only when the pool is stopped.
LEMMA WorkerHappens ==
  ASSUME FlowInv, StopOrder, NEW w \in Worker, WorkerStep(w)
  PROVE  Happens
<1> DEFINE t == task[w]
<1>1. /\ QueueInv /\ FlowTypeOK /\ NoTask \notin Task
      /\ task \in [Worker -> Task \cup {NoTask}]
      /\ t \in Task <=> at[w] \in {"begin", "handling", "rolled", "broken"}
  BY QueueAssumption DEF FlowInv, FlowTypeOK, SingleOwner, QueueInv
<1>2. ASSUME t \in Task
      PROVE  /\ ~InQueue(t) /\ popped # t /\ Owned(t)
             /\ \A v \in Worker : task[v] = t => v = w
             /\ stage[t] = arrived[t] + 1 /\ stage[t] <= Stages[t]
             /\ stage[t] \in Nat /\ arrived[t] \in Nat /\ errorHit[t] \in Nat
             /\ errorHit[t] <= MaxHit /\ Stages[t] \in Nat /\ MaxHit \in Nat
  BY <1>2, WorkerOwns DEF Owned
<1>3. ASSUME UNCHANGED <<queueVars, popped, task>>
      PROVE  OwnersKept
  BY <1>3, QuietInQueue, OwnersFollow DEF OwnersKept, queueVars
<1>4. ASSUME UNCHANGED <<queueVars, popped>>, t \in Task, task' = [task EXCEPT ![w] = NoTask]
      PROVE  LetGo(t)
  <2>1. \A u : InQueue(u)' <=> InQueue(u)
    BY <1>4, QuietInQueue DEF queueVars
  <2>2. ~InQueue(t) /\ popped # t /\ Owned(t) /\ \A v \in Worker : task[v] = t => v = w
    BY <1>2, <1>4
  <2> QED BY <1>1, <1>4, <2>1, <2>2 DEF LetGo, Owned
<1>5. CASE Locate(w) \/ ServeBusy(w) \/ Return(w)
  BY <1>3, <1>5 DEF Locate, ServeBusy, Return, dispatchVars, taskVars, Quiet, Happens
<1>6. CASE RollOn(w)
  BY <1>1, <1>2, <1>3, <1>6 DEF RollOn, dispatchVars, queueVars, Advanced, Happens
<1>7. CASE RollEnd(w)
  BY <1>1, <1>2, <1>4, <1>7 DEF RollEnd, dispatchVars, queueVars, Finished, Happens
<1>8. CASE Break(w)
  BY <1>1, <1>2, <1>3, <1>8 DEF Break, dispatchVars, queueVars, Survived, Happens
<1>9. CASE BreakForGood(w)
  <2>1. t \in Task /\ errorHit[t] = MaxHit
    BY <1>1, <1>2, <1>9 DEF BreakForGood
  <2>2. LetGo(t)
    BY <1>4, <1>9, <2>1 DEF BreakForGood, dispatchVars
  <2>3. Died(t)
    BY <1>9, <2>1, <2>2 DEF BreakForGood, queueVars, Died
  <2> QED BY <2>1, <2>3 DEF Happens
<1>10. ASSUME NEW v \in Worker, ServeNext(w, v)
       PROVE  Quiet
  <2>1. /\ t \in Task /\ task[v] = NoTask /\ v # w
        /\ task' = [task EXCEPT ![w] = NoTask, ![v] = t]
        /\ UNCHANGED <<queueVars, popped, request, arrived, errorHit, closes>>
    BY <1>1, <1>10 DEF ServeNext, FlowTypeOK, dispatchVars, taskVars
  <2>2. \A u : InQueue(u)' <=> InQueue(u)
    BY <2>1, QuietInQueue DEF queueVars
  <2>3. OwnersKept
    BY <1>1, <2>1, <2>2 DEF OwnersKept, Owned
  <2> QED BY <2>1, <2>3 DEF Quiet
<1>11. CASE ServeError(w)
  <2>1. Flagged
    BY <1>11 DEF ServeError, StopOrder, ReaderClosed, Flagged
  <2> QED BY <1>1, <1>4, <1>11, <2>1
          DEF ServeError, dispatchVars, queueVars, taskVars, Lost, Happens
<1>12. CASE RewindTask(w)
  <2>1. /\ t \in Task /\ Rewind(t) /\ task' = [task EXCEPT ![w] = NoTask]
        /\ UNCHANGED <<popped, request, arrived, errorHit, closes>>
    BY <1>1, <1>12 DEF RewindTask, dispatchVars, taskVars
  <2>2. \A u : InQueue(u)' <=> InQueue(u) \/ u = t
    BY <1>1, <2>1, ProducerInQueue DEF QueueInv
  <2>3. \A v \in Worker : task[v] = t => v = w
    BY <1>2, <2>1
  <2>4. OwnersKept
    BY <1>1, <2>1, <2>2, <2>3 DEF OwnersKept, Owned
  <2> QED BY <2>1, <2>4 DEF Quiet, Happens
<1> QED BY <1>5, <1>6, <1>7, <1>8, <1>9, <1>10, <1>11, <1>12 DEF WorkerStep, Happens

\* Every step is one of these, as far as a task can tell.
LEMMA StepHappens == FlowInv /\ StopOrder /\ [FlowNext]_flowVars => Happens
<1> SUFFICES ASSUME FlowInv, StopOrder, [FlowNext]_flowVars PROVE Happens
  OBVIOUS
<1>1. ASSUME UNCHANGED <<pq, side, badTask, popped, task, request, arrived, errorHit, closes>>
      PROVE  Quiet
  BY <1>1, QuietInQueue, OwnersFollow DEF Quiet, OwnersKept
<1>2. CASE ApiStep
  BY <1>2, ApiHappens DEF ApiStep, Happens
<1>3. CASE ReaderStep \/ ListenerStep \/ CloseQueue
  BY <1>3, QueueHappens DEF Happens
<1>4. CASE DispatchStep
  BY <1>4, QueueHappens, DispatchHappens DEF DispatchStep, Happens
<1>5. ASSUME NEW w \in Worker, WorkerStep(w)
      PROVE  Happens
  BY <1>5, WorkerHappens
<1>6. CASE StopDispatcher \/ StopPool \/ UNCHANGED flowVars
  BY <1>1, <1>6
  DEF StopDispatcher, StopPool, flowVars, flowOwnVars, queueVars, dispatchVars, workerVars,
      taskVars, Happens
<1> QED BY <1>2, <1>3, <1>4, <1>5, <1>6 DEF FlowNext, StopStep

\* Close never takes its flag back.
LEMMA FlagStays == FlowInv /\ [FlowNext]_flowVars => (Flagged => Flagged')
<1> SUFFICES ASSUME FlowInv, [QueueNext]_queueVars, Flagged PROVE Flagged'
  BY FlowStepQueue
<1>1. closing' = closing \/ Close
  BY DEF QueueNext, ReaderNext, ReaderTick, ReaderPark, HandOver, ReaderStop, ReaderSendsOnClosed,
         ConsumerNext, PopTask, PopEmpty, ListenerNext, ListenerLoop, ListenerReceive,
         ListenerPush, ProducerNext, PushTask, Rewind, queueVars
<1> QED BY <1>1 DEF Flagged, Close, CloseFlag, CloseDone, CloseReader

-----------------------------------------------------------------------------
(* No task is lost while the server is up.                                 *)

LossInv == FlowInv /\ StopOrder /\ NoLoss

\* Initially no task has been accepted.
LEMMA LossInit == FlowInit => LossInv
<1> SUFFICES ASSUME FlowInit PROVE StopOrder /\ NoLoss
  BY FlowInitInv DEF LossInv
<1> QED BY DEF FlowInit, StopOrder, NoLoss

\* A task that is let go is closed, or the queue is.
LEMMA LossStep == LossInv /\ [FlowNext]_flowVars => LossInv'
<1> SUFFICES ASSUME LossInv, [FlowNext]_flowVars PROVE NoLoss'
  BY FlowStepInv, StopOrderStep DEF LossInv
<1>1. FlowInv /\ NoLoss /\ Happens /\ (Flagged => Flagged')
  BY StepHappens, FlagStays DEF LossInv
<1>2. request \in [Task -> {"none", "refused", "accepted"}] /\ closes \in [Task -> Nat]
  BY <1>1 DEF FlowInv, FlowTypeOK
<1>3. CASE Quiet
  BY <1>1, <1>3 DEF Quiet, OwnersKept, NoLoss
<1>4. ASSUME NEW t \in Task,
             Lost(t) \/ Taken(t) \/ Refused(t) \/ Advanced(t) \/ Survived(t)
      PROVE  NoLoss'
  BY <1>1, <1>2, <1>4
  DEF Lost, LetGo, Taken, Refused, Advanced, Survived, OwnersKept, NoLoss
<1>5. ASSUME NEW t \in Task, Finished(t) \/ Died(t)
      PROVE  NoLoss'
  BY <1>1, <1>2, <1>5 DEF Finished, Died, LetGo, NoLoss
<1> QED BY <1>1, <1>3, <1>4, <1>5 DEF Happens

\* An accepted task that is not closed is in somebody's hands until Close.
THEOREM FlowNoLoss == FlowSpec => []NoLoss
<1>1. LossInv => NoLoss
  BY DEF LossInv
<1> QED BY <1>1, LossInit, LossStep, PTL DEF FlowSpec

-----------------------------------------------------------------------------
(* The flow keeps the promise of TaskLifecycle.                            *)

PhaseMap == [t \in Task |-> Phase(t)]

\* What the phase of a task says of it.
LEMMA PhaseIs ==
  ASSUME FlowTypeOK, NEW t \in Task
  PROVE  /\ request[t] = "none" => Phase(t) = "new"
         /\ request[t] = "refused" => Phase(t) = "refused"
         /\ request[t] = "accepted" /\ closes[t] = 0 /\ Owned(t) => Phase(t) = "live"
         /\ request[t] = "accepted" /\ closes[t] = 0 /\ ~Owned(t) => Phase(t) = "lost"
         /\ request[t] = "accepted" /\ closes[t] # 0 /\ arrived[t] = Stages[t] => Phase(t) = "finished"
         /\ request[t] = "accepted" /\ closes[t] # 0 /\ arrived[t] # Stages[t] => Phase(t) = "dead"
BY DEF Phase

\* A task of which a step changes nothing the phase depends on keeps its phase.
LEMMA PhaseStays ==
  ASSUME NEW t, request'[t] = request[t], closes'[t] = closes[t], arrived'[t] = arrived[t],
         Owned(t)' <=> Owned(t)
  PROVE  Phase(t)' = Phase(t)
BY DEF Phase

\* A step that changes the phase of one task changes the map there.
LEMMA PhaseMoves ==
  ASSUME NEW t \in Task, NEW p, Phase(t)' = p,
         \A u \in Task : u # t => Phase(u)' = Phase(u)
  PROVE  PhaseMap' = [PhaseMap EXCEPT ![t] = p]
BY DEF PhaseMap

\* In the initial state every task is new.
LEMMA LifeInitHolds == FlowInit => Life!LifeInit
<1> SUFFICES ASSUME FlowInit PROVE Life!LifeInit
  OBVIOUS
<1>1. \A t \in Task : Phase(t) = "new"
  BY PhaseIs, FlowInitTypes DEF FlowInit
<1>2. ~Flagged
  BY DEF FlowInit, QueueInit, Flagged
<1> QED BY <1>1, <1>2 DEF FlowInit, Life!LifeInit

\* Each thing that happens to a task is a step of its life.
LEMMA StepLives == LossInv /\ [FlowNext]_flowVars => [Life!LifeNext]_Life!lifeVars
<1> SUFFICES ASSUME LossInv, [FlowNext]_flowVars
             PROVE  [Life!LifeNext]_Life!lifeVars
  OBVIOUS
<1>1. /\ FlowTypeOK /\ FlowTypeOK' /\ SingleOwner /\ SingleOwner'
      /\ Happens /\ (Flagged => Flagged')
  BY FlowStepInv, StepHappens, FlagStays DEF LossInv, FlowInv
<1>2. /\ request \in [Task -> {"none", "refused", "accepted"}] /\ closes \in [Task -> Nat]
      /\ arrived \in [Task -> Nat] /\ errorHit \in [Task -> Nat]
  BY <1>1 DEF FlowTypeOK
<1>3. \A u \in Task : Owned(u) => request[u] = "accepted" /\ closes[u] = 0
  BY <1>1 DEF SingleOwner
<1>4. \A u \in Task : Owned(u) => Phase(u) = "live"
  BY <1>1, <1>3, PhaseIs
<1>5. CASE Quiet
  <2>1. \A u \in Task : Phase(u)' = Phase(u)
    BY <1>5, PhaseStays DEF Quiet, OwnersKept
  <2>2. PhaseMap' = PhaseMap /\ arrived' = arrived /\ errorHit' = errorHit
    BY <1>5, <2>1 DEF PhaseMap, Quiet
  <2>3. CASE ~Flagged'
    <3>1. Flagged' = Flagged
      BY <1>1, <2>3 DEF Flagged
    <3> QED BY <2>2, <3>1 DEF Life!lifeVars, PhaseMap
  <2>4. CASE Flagged'
    <3>1. Flagged' = TRUE
      BY <2>4 DEF Flagged
    <3> QED BY <2>2, <3>1 DEF Life!LifeNext, Life!ShutDown, PhaseMap
  <2> QED BY <2>3, <2>4
<1>6. ASSUME NEW t \in Task, Lost(t)
      PROVE  Life!Lose(t)
  <2>1. \A u \in Task : u # t => Phase(u)' = Phase(u)
    BY <1>6, PhaseStays DEF Lost, LetGo
  <2>2. Phase(t)' = "lost"
    <3>1. request'[t] = "accepted" /\ closes'[t] = 0 /\ ~Owned(t)'
      BY <1>3, <1>6 DEF Lost, LetGo
    <3> QED BY <3>1 DEF Phase
  <2>3. PhaseMap' = [PhaseMap EXCEPT ![t] = "lost"] /\ PhaseMap[t] = "live"
    BY <1>4, <1>6, <2>1, <2>2, PhaseMoves DEF PhaseMap, Lost, LetGo
  <2> QED BY <1>6, <2>3 DEF Life!Lose, Lost, Flagged, PhaseMap
<1>7. ASSUME NEW t \in Task, Taken(t)
      PROVE  Life!Take(t)
  <2>1. \A u \in Task : u # t => Phase(u)' = Phase(u)
    BY <1>2, <1>7, PhaseStays DEF Taken
  <2>2. Phase(t)' = "live"
    <3>1. request'[t] = "accepted" /\ Owned(t)'
      BY <1>2, <1>7 DEF Taken
    <3>2. closes'[t] = 0
      BY <1>1, <3>1 DEF SingleOwner
    <3> QED BY <3>1, <3>2 DEF Phase
  <2>3. PhaseMap' = [PhaseMap EXCEPT ![t] = "live"] /\ PhaseMap[t] = "new"
    BY <1>1, <1>7, <2>1, <2>2, PhaseMoves, PhaseIs DEF PhaseMap, Taken
  <2> QED BY <1>7, <2>3 DEF Life!Take, Taken, Flagged, PhaseMap
<1>8. ASSUME NEW t \in Task, Refused(t)
      PROVE  Life!Refuse(t)
  <2>1. \A u \in Task : u # t => Phase(u)' = Phase(u)
    BY <1>2, <1>8, PhaseStays DEF Refused, OwnersKept
  <2>2. Phase(t)' = "refused"
    BY <1>2, <1>8 DEF Refused, Phase
  <2>3. PhaseMap' = [PhaseMap EXCEPT ![t] = "refused"] /\ PhaseMap[t] = "new"
    BY <1>1, <1>8, <2>1, <2>2, PhaseMoves, PhaseIs DEF PhaseMap, Refused
  <2> QED BY <1>8, <2>3 DEF Life!Refuse, Refused, Flagged, PhaseMap
<1>9. ASSUME NEW t \in Task, Advanced(t) \/ Survived(t)
      PROVE  Life!Advance(t) \/ Life!Survive(t)
  <2>1. \A u \in Task : u # t => Phase(u)' = Phase(u)
    BY <1>2, <1>9, PhaseStays DEF Advanced, Survived, OwnersKept
  <2>2. Owned(t) /\ Owned(t)'
    BY <1>9 DEF Advanced, Survived, OwnersKept
  <2>3. Phase(t) = "live" /\ Phase(t)' = "live"
    <3>1. request'[t] = "accepted" /\ closes'[t] = 0
      BY <1>1, <2>2 DEF SingleOwner
    <3> QED BY <1>4, <2>2, <3>1 DEF Phase
  <2>4. PhaseMap' = PhaseMap /\ PhaseMap[t] = "live"
    BY <2>1, <2>3 DEF PhaseMap
  <2> QED BY <1>9, <2>4
          DEF Life!Advance, Life!Survive, Advanced, Survived, Flagged, PhaseMap
<1>10. ASSUME NEW t \in Task, Finished(t)
       PROVE  Life!Finish(t)
  <2>1. \A u \in Task : u # t => Phase(u)' = Phase(u)
    BY <1>2, <1>10, PhaseStays DEF Finished, LetGo
  <2>2. Phase(t)' = "finished"
    <3>1. request'[t] = "accepted" /\ closes'[t] # 0 /\ arrived'[t] = Stages[t]
      BY <1>2, <1>3, <1>10 DEF Finished, LetGo
    <3> QED BY <3>1 DEF Phase
  <2>3. PhaseMap' = [PhaseMap EXCEPT ![t] = "finished"] /\ PhaseMap[t] = "live"
    BY <1>4, <1>10, <2>1, <2>2, PhaseMoves DEF PhaseMap, Finished, LetGo
  <2> QED BY <1>10, <2>3 DEF Life!Finish, Finished, Flagged, PhaseMap
<1>11. ASSUME NEW t \in Task, Died(t)
       PROVE  Life!Die(t)
  <2>1. \A u \in Task : u # t => Phase(u)' = Phase(u)
    BY <1>2, <1>11, PhaseStays DEF Died, LetGo
  <2>2. Phase(t)' = "dead"
    <3>1. request'[t] = "accepted" /\ closes'[t] # 0
      BY <1>2, <1>3, <1>11 DEF Died, LetGo
    <3>2. arrived'[t] # Stages[t]
      <4>1. arrived[t] < Stages[t] /\ Stages[t] \in Nat
        BY <1>3, <1>11, FlowAssumption DEF LossInv, FlowInv, ClosedForCause, Died, LetGo
      <4> QED BY <1>2, <1>11, <4>1 DEF Died
    <3> QED BY <3>1, <3>2 DEF Phase
  <2>3. PhaseMap' = [PhaseMap EXCEPT ![t] = "dead"] /\ PhaseMap[t] = "live"
    BY <1>4, <1>11, <2>1, <2>2, PhaseMoves DEF PhaseMap, Died, LetGo
  <2> QED BY <1>11, <2>3 DEF Life!Die, Died, Flagged, PhaseMap
<1> QED BY <1>1, <1>5, <1>6, <1>7, <1>8, <1>9, <1>10, <1>11 DEF Happens, Life!LifeNext

\* The flow keeps the promise of TaskLifecycle.
THEOREM FlowKeepsPromise == FlowSpec => KeepsPromise
BY LossInit, LossStep, LifeInitHolds, StepLives, PTL DEF FlowSpec, KeepsPromise, Life!LifeSpec

-----------------------------------------------------------------------------
(* How many tasks the server has in hand.                                  *)

Load == {t \in Task : Owned(t)}

\* pushTaskUnsafe does not look at MaxSize, so what comes back from the workers
\* overfills the heap (queue.go:186-193); but a push is refused as long as it
\* does, and the places outside the heap are few: the side entry, the listener's
\* hand, the dispatcher's, and one for each worker.
LoadBounded == Cardinality(Load) <= MaxSize + SideCap + 2 + Cardinality(Worker)

\* What a finite set is mapped to.
LEMMA ImageSize ==
  ASSUME NEW S, NEW T, IsFiniteSet(S), NEW f \in [S -> T]
  PROVE  /\ IsFiniteSet({f[x] : x \in S})
         /\ Cardinality({f[x] : x \in S}) \in Nat
         /\ Cardinality({f[x] : x \in S}) <= Cardinality(S)
<1> DEFINE I == {f[x] : x \in S}
<1>1. f \in Surjection(S, I)
  BY DEF Surjection
<1>2. IsFiniteSet(I) /\ Cardinality(I) <= Cardinality(S)
  BY <1>1, FS_Surjection
<1> QED
  BY <1>2, FS_CardinalityType

LEMMA UnionSize ==
  ASSUME NEW S, NEW T, IsFiniteSet(S), IsFiniteSet(T)
  PROVE  /\ IsFiniteSet(S \cup T)
         /\ Cardinality(S \cup T) \in Nat
         /\ Cardinality(S \cup T) <= Cardinality(S) + Cardinality(T)
<1>1. IsFiniteSet(S \cup T) /\ Cardinality(S \cup T) = Cardinality(S) + Cardinality(T) - Cardinality(S \cap T)
  BY FS_Union
<1>2. IsFiniteSet(S \cap T)
  BY FS_Intersection
<1>3. Cardinality(S) \in Nat /\ Cardinality(T) \in Nat /\ Cardinality(S \cap T) \in Nat /\ Cardinality(S \cup T) \in Nat
  BY <1>1, <1>2, FS_CardinalityType
<1> QED
  BY <1>1, <1>3

\* The places outside the heap.
LEMMA OutsideHeap ==
  ASSUME FlowTypeOK
  PROVE  Cardinality(Load \ pq) <= SideCap + 2 + Cardinality(Worker)
<1> DEFINE S == {side[i] : i \in 1..Len(side)}
           W == {task[w] : w \in Worker}
           H == {badTask, popped}
<1>1. /\ side \in Seq(Task) /\ Len(side) \in Nat /\ Len(side) <= SideCap /\ SideCap \in Nat
      /\ task \in [Worker -> Task \cup {NoTask}] /\ IsFiniteSet(Worker) /\ Cardinality(Worker) \in Nat
  <2>1. /\ side \in Seq(Task) /\ Len(side) <= SideCap /\ SideCap \in Nat
        /\ task \in [Worker -> Task \cup {NoTask}]
    BY QueueAssumption DEF FlowTypeOK, QueueTypeOK
  <2>2. Len(side) \in Nat
    BY <2>1
  <2>3. IsFiniteSet(Worker) /\ Cardinality(Worker) \in Nat
    BY FlowAssumption, FS_CardinalityType
  <2> QED
    BY <2>1, <2>2, <2>3
<1>2. IsFiniteSet(S) /\ Cardinality(S) \in Nat /\ Cardinality(S) <= Len(side)
  <2> DEFINE places == 1..Len(side)
  <2>1. Len(side) \in Nat
    BY <1>1
  <2>2. IsFiniteSet(places) /\ Cardinality(places) = Len(side)
    <3>1. 1 \in Int /\ Len(side) \in Int
      BY <2>1
    <3>2. /\ IsFiniteSet(places)
          /\ Cardinality(places) = IF 1 > Len(side) THEN 0 ELSE Len(side) - 1 + 1
      BY ONLY <3>1, FS_Interval
    <3>3. (IF 1 > Len(side) THEN 0 ELSE Len(side) - 1 + 1) = Len(side)
      BY ONLY <2>1
    <3> QED
      BY ONLY <3>2, <3>3
  <2>3. side \in [places -> Task] /\ S = {side[i] : i \in places}
    BY <1>1
  <2> HIDE DEF places, S
  <2>4. /\ IsFiniteSet({side[i] : i \in places})
        /\ Cardinality({side[i] : i \in places}) \in Nat
        /\ Cardinality({side[i] : i \in places}) <= Cardinality(places)
    BY <2>2, <2>3, ImageSize
  <2> QED
    BY <2>2, <2>3, <2>4
<1>3. IsFiniteSet(W) /\ Cardinality(W) \in Nat /\ Cardinality(W) <= Cardinality(Worker)
  <2>1. task \in [Worker -> Task \cup {NoTask}] /\ IsFiniteSet(Worker)
    BY <1>1
  <2> QED
    BY <2>1, ImageSize
<1>4. IsFiniteSet(H) /\ Cardinality(H) \in Nat /\ Cardinality(H) <= 2
  <2>1. /\ IsFiniteSet({badTask}) /\ Cardinality({badTask}) = 1
        /\ IsFiniteSet({popped}) /\ Cardinality({popped}) = 1
    BY FS_Singleton
  <2>2. H = {badTask} \cup {popped}
    OBVIOUS
  <2> QED
    BY <2>1, <2>2, UnionSize
<1>5. Load \ pq \subseteq (S \cup H) \cup W
  BY <1>1 DEF Load, Owned, InQueue, OnSide
<1> HIDE DEF S, W, H
<1>6. /\ IsFiniteSet(S \cup H) /\ Cardinality(S \cup H) \in Nat
      /\ Cardinality(S \cup H) <= Cardinality(S) + Cardinality(H)
  BY <1>2, <1>4, UnionSize
<1>7. /\ IsFiniteSet((S \cup H) \cup W) /\ Cardinality((S \cup H) \cup W) \in Nat
      /\ Cardinality((S \cup H) \cup W) <= Cardinality(S \cup H) + Cardinality(W)
  BY <1>3, <1>6, UnionSize
<1>8. Cardinality(Load \ pq) \in Nat /\ Cardinality(Load \ pq) <= Cardinality((S \cup H) \cup W)
  BY <1>5, <1>7, FS_Subset, FS_CardinalityType
<1> QED
  BY <1>1, <1>2, <1>3, <1>4, <1>6, <1>7, <1>8

\* A task that has been pushed finds the heap within its size.
LEMMA PushedWithin ==
  ASSUME FlowTypeOK, FlowTypeOK', NEW t \in Task, Submit(t)
  PROVE  Cardinality(pq') <= MaxSize
<1>1. QueueTypeOK /\ pq' = pq \cup {t} /\ Cardinality(pq) < MaxSize /\ IsFiniteSet(pq) /\ MaxSize \in Nat
  BY FS_Subset, QueueAssumption DEF Submit, PushTask, FlowTypeOK, QueueTypeOK
<1>2. Cardinality(pq) \in Nat /\ (Cardinality(pq') = Cardinality(pq) \/ Cardinality(pq') = Cardinality(pq) + 1)
  BY <1>1, FS_AddElement, FS_CardinalityType
<1> QED
  BY <1>1, <1>2

LEMMA LoadStep ==
  ASSUME LossInv, LoadBounded, [FlowNext]_flowVars
  PROVE  LoadBounded'
<1>1. /\ FlowInv /\ FlowTypeOK /\ FlowTypeOK' /\ Happens /\ request \in [Task -> {"none", "refused", "accepted"}]
  BY StepHappens, FlowStepTypes DEF LossInv, FlowInv, FlowTypeOK
<1>2. /\ MaxSize \in Nat /\ SideCap \in Nat /\ Cardinality(Worker) \in Nat
      /\ IsFiniteSet(Load) /\ IsFiniteSet(Load') /\ IsFiniteSet(pq')
      /\ Cardinality(Load) \in Nat /\ Cardinality(pq') \in Nat
  <2>1. IsFiniteSet(Task) /\ Load \subseteq Task /\ Load' \subseteq Task /\ pq' \subseteq Task
    BY <1>1, QueueAssumption DEF Load, FlowTypeOK, QueueTypeOK
  <2> QED
    BY <2>1, QueueAssumption, FlowAssumption, FS_Subset, FS_CardinalityType
<1>3. CASE Load' \subseteq Load
  <2>1. Cardinality(Load') \in Nat /\ Cardinality(Load') <= Cardinality(Load)
    BY <1>2, <1>3, FS_Subset, FS_CardinalityType
  <2> QED
    BY <1>2, <2>1 DEF LoadBounded
<1>4. CASE ~ (Load' \subseteq Load)
  <2>1. PICK t \in Task : Taken(t)
    BY <1>1, <1>4 DEF Happens, Quiet, Lost, LetGo, Refused, Advanced, Finished, Survived, Died, OwnersKept, Load
  <2>2. request' # request
    BY <1>1, <2>1 DEF Taken
  <2>3. ApiStep
    BY <2>2 DEF FlowNext, flowVars, flowOwnVars, ReaderStep, ListenerStep, DispatchStep, DispatchReceive, DispatchPop,
                DispatchPopEmpty, DispatchServe, DispatchServeError, DispatchStop, WorkerStep, Locate, RollOn, RollEnd,
                Break, BreakForGood, ServeNext, ServeBusy, ServeError, RewindTask, Return, StopStep, CloseQueue,
                StopDispatcher, StopPool
  <2>4. Cardinality(pq') <= MaxSize
    <3>1. ASSUME NEW u \in Task, SubmitRefused(u)
          PROVE  FALSE
      <4>1. request'[t] = "accepted" /\ request[t] = "none"
        BY <1>1, <2>1 DEF Taken
      <4> QED
        BY <1>1, <3>1, <4>1 DEF SubmitRefused
    <3> QED
      BY <1>1, <2>3, <3>1, PushedWithin DEF ApiStep
  <2>5. Cardinality((Load \ pq)') <= SideCap + 2 + Cardinality(Worker)
    <3>1. (FlowTypeOK => Cardinality(Load \ pq) <= SideCap + 2 + Cardinality(Worker))'
      BY OutsideHeap, PTL
    <3> QED
      BY <1>1, <3>1
  <2>6. Load' \subseteq pq' \cup (Load \ pq)' /\ IsFiniteSet((Load \ pq)')
    BY <1>2, FS_Difference
  <2>7. Cardinality(pq' \cup (Load \ pq)') <= Cardinality(pq') + Cardinality((Load \ pq)')
        /\ Cardinality(Load') <= Cardinality(pq' \cup (Load \ pq)')
        /\ IsFiniteSet(pq' \cup (Load \ pq)')
    BY <1>2, <2>6, UnionSize, FS_Subset
  <2>8. /\ Cardinality(Load') \in Nat /\ Cardinality((Load \ pq)') \in Nat
        /\ Cardinality(pq' \cup (Load \ pq)') \in Nat
    BY <1>2, <2>6, <2>7, FS_CardinalityType
  <2> QED
    BY <1>2, <2>4, <2>5, <2>7, <2>8 DEF LoadBounded
<1> QED
  BY <1>3, <1>4

\* The server never has more tasks in hand than the heap may hold, the side
\* entry, the listener, the dispatcher and the workers: retries overfill the
\* heap by no more than that (queue.go:84-96, 186-193).
THEOREM FlowLoadBounded == FlowSpec => []LoadBounded
<1>1. FlowInit => LoadBounded
  <2> SUFFICES ASSUME FlowInit PROVE LoadBounded
    OBVIOUS
  <2>1. FlowInv
    BY FlowInitInv
  <2>2. ASSUME NEW t \in Task PROVE ~ Owned(t)
    BY QueueAssumption DEF FlowInit, QueueInit, Owned, InQueue, OnSide
  <2>3. Load = {} /\ Cardinality(Load) = 0
    BY <2>2, FS_EmptySet DEF Load
  <2>4. MaxSize \in Nat /\ SideCap \in Nat /\ Cardinality(Worker) \in Nat
    BY QueueAssumption, FlowAssumption, FS_CardinalityType
  <2> QED
    BY <2>3, <2>4 DEF LoadBounded
<1>2. LossInv /\ LoadBounded /\ [FlowNext]_flowVars => LoadBounded'
  BY LoadStep
<1> QED
  BY <1>1, <1>2, LossInit, LossStep, PTL DEF FlowSpec
=============================================================================
