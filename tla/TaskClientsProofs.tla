-------------------------- MODULE TaskClientsProofs --------------------------
(***************************************************************************)
(* Proof, for any number of jobs, that a client who says the task is       *)
(* complete has printed its last state.  The two senders interleave as     *)
(* they like, so the messages are not in the order of the task's states;   *)
(* what the proof rests on is that a message that says the end is decided  *)
(* before it is marshalled, that its lines are put on the wire together,   *)
(* and that the client leaves at the first blank line after the event.     *)
(***************************************************************************)
EXTENDS TaskClients, SequenceTheorems, TLAPS

Over == Finished \/ dead
Ends == {"finished", "dead"}
Events == {"update", "heartbeat"} \cup Ends

Message == [event : Events, data : Nat \cup {Nothing}]
Line == [kind : {"event", "data", "blank"}, value : Events \cup Nat \cup {Nothing}]

ClientType ==
  /\ arrived \in 0 .. Jobs
  /\ sending \subseteq 1 .. arrived
  /\ dead \in BOOLEAN /\ finish \in BOOLEAN
  /\ done => Over
  /\ beat \in {"idle", "heartbeat", "dead"} /\ (beat = "dead" => dead)
  /\ post \in [Sender -> Message \cup {Nothing}]
  /\ wire \in Seq(Line)

\* A message that says the end is of the last state.
PostsFinal ==
  \A s \in Sender :
    post[s] # Nothing /\ post[s].event \in Ends => Over /\ post[s].data \in {Nothing, arrived}

\* What is on the wire are whole messages, but for lines of the first that have
\* been read: an event, its data and a blank line.
Framed(w) ==
  /\ w # <<>> => w[Len(w)].kind = "blank"
  /\ \A i \in 1 .. Len(w) : w[i].kind # "blank" =>
       i + 1 \in 1 .. Len(w) /\ w[i + 1].kind = IF w[i].kind = "event" THEN "data" ELSE "blank"

WireFinal ==
  /\ Framed(wire)
  /\ \A i \in 1 .. Len(wire) :
       wire[i].kind = "event" /\ wire[i].value \in Ends => Over /\ wire[i + 1].value = arrived

\* Where a client is that has read the event of the end: in that message.
ReaderFinal ==
  mode = "stream" /\ cli = "reading" /\ finish =>
    /\ Over /\ wire # <<>>
    /\ \/ wire[1].kind = "data" /\ wire[1].value = arrived
       \/ wire[1].kind = "blank" /\ shown = arrived

NotYet == cli \in {"asking", "looking", "registered", "entering"} => ~finish

ClientInv == ClientType /\ PostsFinal /\ WireFinal /\ ReaderFinal /\ NotYet /\ DoneIsFinal

-----------------------------------------------------------------------------
(* The task and what is decided about it.                                  *)

LEMMA ClientInitInv == ClientInit => ClientInv
<1> SUFFICES ASSUME ClientInit
             PROVE  ClientInv
  OBVIOUS
<1>1. ClientType
  <2>1. arrived \in 0 .. Jobs /\ sending \subseteq 1 .. arrived
    BY ClientAssumption DEF ClientInit
  <2>2. wire \in Seq(Line) /\ post \in [Sender -> Message \cup {Nothing}]
    BY DEF ClientInit
  <2> QED
    BY <2>1, <2>2 DEF ClientInit, ClientType
<1>2. PostsFinal
  BY DEF ClientInit, PostsFinal
<1>3. WireFinal
  BY DEF ClientInit, WireFinal, Framed
<1>4. ReaderFinal /\ NotYet /\ DoneIsFinal
  BY DEF ClientInit, ReaderFinal, NotYet, DoneIsFinal
<1> QED
  BY <1>1, <1>2, <1>3, <1>4 DEF ClientInv

\* Steps that change none of what the invariant is about.
LEMMA ClientQuiet ==
  ASSUME ClientInv, UNCHANGED <<arrived, sending, dead, finish, done, beat, post, wire, mode, cli, shown>>
  PROVE  ClientInv'
<1>1. ClientType'
  BY DEF ClientInv, ClientType, Over, Finished
<1>2. PostsFinal' /\ WireFinal'
  BY DEF ClientInv, PostsFinal, WireFinal, Framed, Over, Finished
<1>3. ReaderFinal' /\ NotYet' /\ DoneIsFinal'
  BY DEF ClientInv, ReaderFinal, NotYet, DoneIsFinal, Over, Finished
<1> QED
  BY <1>1, <1>2, <1>3 DEF ClientInv

\* A task that is over stays as it is; one that is not has said nothing final.
LEMMA WorkInv ==
  ASSUME ClientInv, Roll \/ Die \/ CloseTask
  PROVE  ClientInv'
<1>1. UNCHANGED <<finish, beat, post, wire, mode, cli, shown>>
  BY DEF Roll, Die, CloseTask, readVars, trackVars, apiVars
<1>2. Over => Over' /\ arrived' = arrived
  BY DEF Roll, Die, CloseTask, Over, Finished
<1>3. ClientType'
  <2>1. arrived' \in 0 .. Jobs /\ sending' \subseteq 1 .. arrived'
    <3>1. CASE Roll
      BY <3>1, ClientAssumption DEF Roll, ClientInv, ClientType, Finished
    <3>2. CASE Die \/ CloseTask
      BY <3>2 DEF Die, CloseTask, ClientInv, ClientType, trackVars
    <3> QED
      BY <3>1, <3>2
  <2>2. dead' \in BOOLEAN /\ (dead => dead') /\ (done' => Over')
    <3>1. dead' \in BOOLEAN /\ (dead => dead')
      BY DEF Roll, Die, CloseTask, ClientInv, ClientType
    <3>2. CASE CloseTask
      BY <1>2, <3>1, <3>2 DEF CloseTask, Over
    <3>3. CASE Roll \/ Die
      <4>1. done' = done
        BY <3>3 DEF Roll, Die
      <4> QED
        BY <1>2, <3>1, <4>1 DEF ClientInv, ClientType
    <3> QED
      BY <3>2, <3>3
  <2> QED
    BY <1>1, <2>1, <2>2 DEF ClientInv, ClientType
<1>4. PostsFinal'
  BY <1>1, <1>2 DEF ClientInv, PostsFinal
<1>5. WireFinal'
  BY <1>1, <1>2 DEF ClientInv, WireFinal, Framed
<1>6. ReaderFinal' /\ NotYet' /\ DoneIsFinal'
  BY <1>1, <1>2 DEF ClientInv, ReaderFinal, NotYet, DoneIsFinal, Over, Finished
<1> QED
  BY <1>3, <1>4, <1>5, <1>6 DEF ClientInv

-----------------------------------------------------------------------------
(* The senders.                                                            *)

LEMMA PostInv ==
  ASSUME ClientInv, NEW s \in Sender, NEW m \in Message,
         post' = post \/ post' = [post EXCEPT ![s] = m],
         m.event \in Ends => Over /\ m.data \in {Nothing, arrived},
         sending' \subseteq sending,
         beat' \in {"idle", "heartbeat", "dead"}, beat' = "dead" => dead,
         UNCHANGED <<arrived, dead, finish, done, wire, mode, cli, shown>>
  PROVE  ClientInv'
<1>1. Over' = Over
  BY DEF Over, Finished
<1>2. ClientType'
  BY <1>1 DEF ClientInv, ClientType
<1>3. PostsFinal'
  BY <1>1 DEF ClientInv, PostsFinal, ClientType
<1>4. WireFinal'
  BY <1>1 DEF ClientInv, WireFinal, Framed
<1>5. ReaderFinal' /\ NotYet' /\ DoneIsFinal'
  BY <1>1 DEF ClientInv, ReaderFinal, NotYet, DoneIsFinal, Over, Finished
<1> QED
  BY <1>2, <1>3, <1>4, <1>5 DEF ClientInv

\* The tracker says "finished" of the last progress value or a closed task.
LEMMA NoticeInv ==
  ASSUME ClientInv, NEW v \in Nat, Notice(v), v >= Jobs => Over, sending' \subseteq sending
  PROVE  ClientInv'
<1> DEFINE m == [event |-> IF v >= Jobs THEN "finished" ELSE "update", data |-> Nothing]
<1>1. m \in Message /\ (m.event \in Ends => v >= Jobs) /\ m.data = Nothing
  BY DEF Message, Events, Ends
<1>2. "tracker" \in Sender /\ (post' = post \/ post' = [post EXCEPT !["tracker"] = m])
  BY DEF Notice, Decide, Sender
<1>3. UNCHANGED <<arrived, dead, beat, finish, done, wire, mode, cli, shown>>
  BY DEF Notice, taskVars, apiVars, readVars
<1> HIDE DEF m
<1>4. beat' \in {"idle", "heartbeat", "dead"} /\ (beat' = "dead" => dead)
  BY <1>3 DEF ClientInv, ClientType
<1> QED
  BY <1>1, <1>2, <1>3, <1>4, PostInv

LEMMA TrackInv ==
  ASSUME ClientInv, Track
  PROVE  ClientInv'
<1>1. CASE done /\ Notice(Jobs) /\ UNCHANGED sending
  <2>1. Jobs \in Nat /\ (Jobs >= Jobs => Over)
    BY <1>1, ClientAssumption DEF ClientInv, ClientType
  <2> QED
    BY <1>1, <2>1, NoticeInv
<1>2. ASSUME NEW v \in sending, Notice(v), sending' = sending \ {v}
      PROVE  ClientInv'
  <2>1. v \in Nat /\ (v >= Jobs => Over)
    BY ClientAssumption DEF ClientInv, ClientType, Over, Finished
  <2> QED
    BY <1>2, <2>1, NoticeInv
<1> QED
  BY <1>1, <1>2 DEF Track

LEMMA BeatInv ==
  ASSUME ClientInv, HeartbeatCheck \/ HeartbeatSend
  PROVE  ClientInv'
<1>1. UNCHANGED <<arrived, sending, dead, finish, done, wire, mode, cli, shown>>
  BY DEF HeartbeatCheck, HeartbeatSend, taskVars, trackVars, apiVars, readVars
<1> DEFINE m == [event |-> IF beat = "idle" THEN "update" ELSE beat, data |-> Nothing]
<1>2. m \in Message /\ m.data = Nothing /\ (m.event \in Ends => beat = "dead")
  BY DEF Message, Events, Ends, ClientInv, ClientType
<1>3. beat = "dead" => Over
  BY DEF ClientInv, ClientType, Over
<1>4. "heartbeat" \in Sender /\ (post' = post \/ post' = [post EXCEPT !["heartbeat"] = m])
  BY DEF HeartbeatCheck, HeartbeatSend, Decide, Sender
<1> HIDE DEF m
<1>5. beat' \in {"idle", "heartbeat", "dead"} /\ (beat' = "dead" => dead)
  BY DEF HeartbeatCheck, HeartbeatSend
<1> QED
  BY <1>1, <1>2, <1>3, <1>4, <1>5, PostInv

LEMMA MarshalInv ==
  ASSUME ClientInv, NEW s \in Sender, Marshal(s)
  PROVE  ClientInv'
<1>1. post[s] \in Message
  BY DEF Marshal, ClientInv, ClientType
<1>2. PICK m \in Message : m.event = post[s].event /\ m.data = arrived /\ post' = [post EXCEPT ![s] = m]
  <2>1. [post[s] EXCEPT !.data = arrived] \in Message
    BY <1>1 DEF Message, ClientInv, ClientType
  <2>2. post' = [post EXCEPT ![s] = [post[s] EXCEPT !.data = arrived]]
    BY DEF Marshal
  <2>3. [post[s] EXCEPT !.data = arrived].event = post[s].event
        /\ [post[s] EXCEPT !.data = arrived].data = arrived
    BY <1>1 DEF Message
  <2> QED
    BY <2>1, <2>2, <2>3
<1>3. m.event \in Ends => Over
  BY <1>2 DEF Marshal, ClientInv, PostsFinal
<1>4. UNCHANGED <<arrived, sending, dead, beat, finish, done, wire, mode, cli, shown>>
  BY DEF Marshal, taskVars, trackVars, apiVars, readVars
<1>5. beat' \in {"idle", "heartbeat", "dead"} /\ (beat' = "dead" => dead)
  BY <1>4 DEF ClientInv, ClientType
<1> QED
  BY <1>2, <1>3, <1>4, <1>5, PostInv

-----------------------------------------------------------------------------
(* The wire.                                                               *)

LEMMA LinesAppended ==
  ASSUME NEW w \in Seq(Line), Framed(w), NEW m \in Message
  PROVE  /\ w \o Lines(m) \in Seq(Line)
         /\ Len(w \o Lines(m)) = Len(w) + 3
         /\ \A i \in 1 .. Len(w) : (w \o Lines(m))[i] = w[i]
         /\ (w \o Lines(m))[Len(w) + 1] = [kind |-> "event", value |-> m.event]
         /\ (w \o Lines(m))[Len(w) + 2] = [kind |-> "data", value |-> m.data]
         /\ (w \o Lines(m))[Len(w) + 3] = [kind |-> "blank", value |-> Nothing]
         /\ Framed(w \o Lines(m))
<1> DEFINE v == w \o Lines(m)
<1>1. Lines(m) \in Seq(Line) /\ Len(Lines(m)) = 3
  BY DEF Lines, Line, Message
<1>2. v \in Seq(Line) /\ Len(v) = Len(w) + 3 /\ Len(w) \in Nat
  <2>1. v \in Seq(Line) /\ Len(v) = Len(w) + Len(Lines(m))
    BY <1>1, ConcatProperties
  <2> QED
    BY <1>1, <2>1
<1>3. \A i \in 1 .. Len(w) : v[i] = w[i]
  BY <1>1
<1>4. /\ v[Len(w) + 1] = [kind |-> "event", value |-> m.event]
      /\ v[Len(w) + 2] = [kind |-> "data", value |-> m.data]
      /\ v[Len(w) + 3] = [kind |-> "blank", value |-> Nothing]
  <2>1. \A j \in 1 .. 3 : v[Len(w) + j] = Lines(m)[j]
    BY <1>1, <1>2
  <2> QED
    BY <2>1 DEF Lines
<1> HIDE DEF v
<1>5. Framed(v)
  <2>1. v # <<>> /\ v[Len(v)].kind = "blank"
    BY <1>2, <1>4
  <2>2. ASSUME NEW i \in 1 .. Len(v), v[i].kind # "blank"
        PROVE  i + 1 \in 1 .. Len(v) /\ v[i + 1].kind = IF v[i].kind = "event" THEN "data" ELSE "blank"
    <3>1. CASE i \in 1 .. Len(w)
      <4>1. i + 1 \in 1 .. Len(w) /\ w[i + 1].kind = IF w[i].kind = "event" THEN "data" ELSE "blank"
        BY <1>3, <2>2, <3>1 DEF Framed
      <4> QED
        BY <1>2, <1>3, <3>1, <4>1
    <3>2. CASE i = Len(w) + 1 \/ i = Len(w) + 2
      BY <1>2, <1>4, <3>2
    <3> QED
      BY <1>2, <1>4, <2>2, <3>1, <3>2
  <2> QED
    BY <2>1, <2>2 DEF Framed
<1> QED
  BY <1>2, <1>3, <1>4, <1>5 DEF v

LEMMA SendInv ==
  ASSUME ClientInv, NEW s \in Sender, SendEventMessage(s)
  PROVE  ClientInv'
<1> DEFINE m == post[s]
<1>1. m \in Message /\ m.data # Nothing /\ (m.event \in Ends => Over /\ m.data = arrived)
  BY DEF SendEventMessage, ClientInv, ClientType, PostsFinal
<1>2. UNCHANGED <<arrived, sending, dead, beat, finish, done, mode, cli, shown>> /\ Over' = Over
  BY DEF SendEventMessage, taskVars, trackVars, apiVars, Over, Finished
<1>3. wire \in Seq(Line) /\ Framed(wire)
  BY DEF ClientInv, ClientType, WireFinal
<1>4. wire' = wire \/ wire' = wire \o Lines(m)
  BY DEF SendEventMessage
<1>5. ClientType'
  <2>1. wire' \in Seq(Line)
    BY <1>1, <1>3, <1>4, LinesAppended
  <2>2. post' \in [Sender -> Message \cup {Nothing}]
    BY DEF SendEventMessage, ClientInv, ClientType
  <2> QED
    BY <1>2, <2>1, <2>2 DEF ClientInv, ClientType
<1>6. PostsFinal'
  BY <1>2 DEF SendEventMessage, ClientInv, ClientType, PostsFinal
<1>7. WireFinal'
  <2>1. CASE wire' = wire
    BY <1>2, <2>1 DEF ClientInv, WireFinal, Framed
  <2>2. CASE wire' = wire \o Lines(m)
    <3>1. Len(wire') = Len(wire) + 3 /\ Len(wire) \in Nat /\ Framed(wire')
          /\ (\A i \in 1 .. Len(wire) : wire'[i] = wire[i])
          /\ wire'[Len(wire) + 1] = [kind |-> "event", value |-> m.event]
          /\ wire'[Len(wire) + 2] = [kind |-> "data", value |-> m.data]
          /\ wire'[Len(wire) + 3] = [kind |-> "blank", value |-> Nothing]
      BY <1>1, <1>3, <2>2, LinesAppended
    <3>2. ASSUME NEW i \in 1 .. Len(wire'), wire'[i].kind = "event", wire'[i].value \in Ends
          PROVE  Over /\ wire'[i + 1].value = arrived
      <4>1. CASE i \in 1 .. Len(wire)
        <5>1. i + 1 \in 1 .. Len(wire)
          BY <3>1, <3>2, <4>1, <1>3 DEF Framed
        <5> QED
          BY <3>1, <3>2, <4>1, <5>1 DEF ClientInv, WireFinal
      <4>2. CASE i = Len(wire) + 1
        <5>1. wire'[i].value = m.event /\ wire'[i + 1].value = m.data
          BY <3>1, <4>2
        <5> QED
          BY <1>1, <3>2, <5>1
      <4> QED
        BY <3>1, <3>2, <4>1, <4>2
    <3> QED
      BY <1>2, <3>1, <3>2 DEF WireFinal, Framed
  <2> QED
    BY <1>4, <2>1, <2>2
<1>8. ReaderFinal'
  <2>1. wire # <<>> => wire' # <<>> /\ wire'[1] = wire[1]
    <3> SUFFICES ASSUME wire # <<>>, wire' = wire \o Lines(m)
                 PROVE  wire' # <<>> /\ wire'[1] = wire[1]
      BY <1>4
    <3>1. 1 \in 1 .. Len(wire)
      BY <1>3
    <3>2. Len(wire') = Len(wire) + 3 /\ \A i \in 1 .. Len(wire) : wire'[i] = wire[i]
      BY <1>1, <1>3, LinesAppended
    <3> QED
      BY <1>3, <3>1, <3>2
  <2> QED
    BY <1>2, <2>1 DEF ClientInv, ReaderFinal
<1>9. NotYet' /\ DoneIsFinal'
  BY <1>2 DEF ClientInv, NotYet, DoneIsFinal, Over, Finished
<1> QED
  BY <1>5, <1>6, <1>7, <1>8, <1>9 DEF ClientInv

-----------------------------------------------------------------------------
(* The client.                                                             *)

LEMMA ServeInv ==
  ASSUME ClientInv, ServeStep
  PROVE  ClientInv'
<1>1. UNCHANGED <<arrived, sending, dead, beat, finish, done, post, wire, mode, shown>> /\ Over' = Over
  BY DEF ServeStep, Register, RegisterOther, Answer, Look, Listen, Join, taskVars, trackVars, apiVars,
         readVars, Over, Finished
<1>2. cli \in {"asking", "looking", "registered", "entering"} /\ cli' \notin {"asking", "done"}
  BY DEF ServeStep, Register, RegisterOther, Answer, Look, Listen, Join
<1>3. ClientType'
  BY <1>1 DEF ClientInv, ClientType
<1>4. PostsFinal' /\ WireFinal'
  BY <1>1 DEF ClientInv, PostsFinal, WireFinal, Framed
<1>5. ReaderFinal' /\ NotYet' /\ DoneIsFinal'
  BY <1>1, <1>2 DEF ClientInv, ReaderFinal, NotYet, DoneIsFinal
<1> QED
  BY <1>3, <1>4, <1>5 DEF ClientInv

\* Whoever leaves takes nothing along; to be done he must have seen the end.
LEMMA LeaveInv ==
  ASSUME ClientInv, NEW how \in {"done", "panicked", "cut"}, Leave(how),
         how = "done" => Over /\ shown = arrived,
         UNCHANGED <<arrived, sending, dead, beat, done, post, mode>>
  PROVE  ClientInv'
<1>1. wire' = <<>> /\ cli' = how /\ UNCHANGED <<finish, shown>> /\ Over' = Over
  BY DEF Leave, Over, Finished
<1>2. ClientType'
  BY <1>1 DEF ClientInv, ClientType
<1>3. PostsFinal'
  BY <1>1 DEF ClientInv, PostsFinal
<1>4. WireFinal'
  BY <1>1 DEF WireFinal, Framed
<1>5. ReaderFinal' /\ NotYet' /\ DoneIsFinal'
  BY <1>1 DEF ReaderFinal, NotYet, DoneIsFinal, Over, Finished
<1> QED
  BY <1>2, <1>3, <1>4, <1>5 DEF ClientInv

\* What is left of the wire after a line is read.
LEMMA LineRead ==
  ASSUME ClientInv, wire # <<>>, UNCHANGED <<arrived, dead>>, wire' = Tail(wire)
  PROVE  /\ wire' \in Seq(Line) /\ WireFinal'
         /\ Head(wire) = wire[1] /\ wire[1] \in Line
         /\ wire[1].kind # "blank" =>
              /\ wire' # <<>> /\ wire'[1] = wire[2]
              /\ wire'[1].kind = IF wire[1].kind = "event" THEN "data" ELSE "blank"
<1>1. wire \in Seq(Line) /\ Framed(wire) /\ Over' = Over
  BY DEF ClientInv, ClientType, WireFinal, Over, Finished
<1>2. /\ wire' \in Seq(Line) /\ Len(wire) \in Nat \ {0} /\ Len(wire') = Len(wire) - 1
      /\ \A i \in 1 .. Len(wire') : wire'[i] = wire[i + 1]
      /\ Head(wire) = wire[1] /\ wire[1] \in Line
  BY <1>1
<1>3. Framed(wire')
  <2>1. wire' # <<>> => wire'[Len(wire')].kind = "blank"
    BY <1>1, <1>2 DEF Framed
  <2>2. ASSUME NEW i \in 1 .. Len(wire'), wire'[i].kind # "blank"
        PROVE  i + 1 \in 1 .. Len(wire') /\ wire'[i + 1].kind = IF wire'[i].kind = "event" THEN "data" ELSE "blank"
    <3>1. i + 1 \in 1 .. Len(wire) /\ wire'[i] = wire[i + 1]
      BY <1>2
    <3>2. i + 2 \in 1 .. Len(wire) /\ wire[i + 2].kind = IF wire[i + 1].kind = "event" THEN "data" ELSE "blank"
      BY <1>1, <2>2, <3>1 DEF Framed
    <3> QED
      BY <1>2, <3>1, <3>2
  <2> QED
    BY <2>1, <2>2 DEF Framed
<1>4. ASSUME NEW i \in 1 .. Len(wire'), wire'[i].kind = "event", wire'[i].value \in Ends
      PROVE  Over /\ wire'[i + 1].value = arrived
  <2>1. i + 1 \in 1 .. Len(wire) /\ wire'[i] = wire[i + 1]
    BY <1>2
  <2>2. Over /\ wire[i + 2].value = arrived
    BY <1>4, <2>1 DEF ClientInv, WireFinal
  <2>3. i + 1 \in 1 .. Len(wire')
    BY <1>3, <1>4 DEF Framed
  <2> QED
    BY <1>2, <2>2, <2>3
<1>5. wire[1].kind # "blank" =>
        /\ wire' # <<>> /\ wire'[1] = wire[2]
        /\ wire'[1].kind = IF wire[1].kind = "event" THEN "data" ELSE "blank"
  <2> SUFFICES ASSUME wire[1].kind # "blank"
               PROVE  wire' # <<>> /\ wire'[1] = wire[2]
                      /\ wire'[1].kind = IF wire[1].kind = "event" THEN "data" ELSE "blank"
    OBVIOUS
  <2>1. 2 \in 1 .. Len(wire) /\ wire[2].kind = IF wire[1].kind = "event" THEN "data" ELSE "blank"
    BY <1>1, <1>2 DEF Framed
  <2>2. 1 \in 1 .. Len(wire')
    BY <1>2, <2>1
  <2> QED
    BY <1>2, <2>1, <2>2
<1>6. WireFinal'
  BY <1>1, <1>3, <1>4 DEF WireFinal, Framed
<1> QED
  BY <1>2, <1>5, <1>6

LEMMA ReadInv ==
  ASSUME ClientInv, ReadEvent \/ ReadData \/ ReadBlank
  PROVE  ClientInv'
<1>1. UNCHANGED <<arrived, sending, dead, beat, done, post, mode>> /\ wire # <<>> /\ cli = "reading"
      /\ Over' = Over
  BY DEF ReadEvent, ReadData, ReadBlank, Reads, taskVars, trackVars, apiVars, Over, Finished
<1> DEFINE k == Head(wire).kind
<1>2. (k = "event" /\ ReadEvent) \/ (k = "data" /\ ReadData) \/ (k = "blank" /\ ReadBlank)
  <2>1. (ReadEvent => k = "event") /\ (ReadData => k = "data") /\ (ReadBlank => k = "blank")
    BY DEF ReadEvent, ReadData, ReadBlank, Reads
  <2> HIDE DEF k
  <2> QED
    BY <2>1
<1>3. wire[1] = Head(wire)
  BY <1>1 DEF ClientInv, ClientType
<1>4. CASE k = "blank" /\ finish /\ mode = "stream"
  <2>1. Leave("done")
    BY <1>2, <1>4 DEF ReadBlank
  <2>2. Over /\ shown = arrived
    BY <1>1, <1>2, <1>3, <1>4 DEF ClientInv, ReaderFinal
  <2> QED
    BY <1>1, <2>1, <2>2, LeaveInv
<1>5. CASE k = "data" /\ Leave("panicked")
  BY <1>1, <1>5, LeaveInv
<1>6. CASE /\ wire' = Tail(wire) /\ cli' = cli
           /\ k = "blank" => ~(finish /\ mode = "stream") /\ UNCHANGED <<finish, shown>>
           /\ k = "data" => finish' = finish /\ shown' = Head(wire).value
           /\ k = "event" => shown' = shown /\ finish' = (finish \/ Head(wire).value \in Ends)
  <2>1. /\ wire' \in Seq(Line) /\ WireFinal' /\ wire[1] \in Line
        /\ wire[1].kind # "blank" =>
             /\ wire' # <<>> /\ wire'[1] = wire[2]
             /\ wire'[1].kind = IF wire[1].kind = "event" THEN "data" ELSE "blank"
    BY <1>1, <1>6, LineRead
  <2>2. finish' \in BOOLEAN
    BY <1>2, <1>6 DEF ClientInv, ClientType
  <2>3. ClientType'
    BY <1>1, <2>1, <2>2 DEF ClientInv, ClientType
  <2>4. PostsFinal'
    BY <1>1 DEF ClientInv, PostsFinal
  <2>5. NotYet' /\ DoneIsFinal'
    BY <1>1, <1>6 DEF NotYet, DoneIsFinal
  <2>6. ReaderFinal'
    <3> SUFFICES ASSUME mode = "stream", finish'
                 PROVE  ReaderFinal'
      BY <1>1 DEF ReaderFinal
    <3>1. CASE k = "event"
      <4>1. ~finish
        BY <1>1, <1>2, <1>3, <3>1 DEF ClientInv, ReaderFinal
      <4>2. wire[1].value \in Ends /\ wire[1].kind = "event"
        BY <1>2, <1>3, <1>6, <3>1, <4>1
      <4>3. 1 \in 1 .. Len(wire)
        BY <1>1 DEF ClientInv, ClientType
      <4>4. Over /\ wire[2].value = arrived
        BY <4>2, <4>3 DEF ClientInv, WireFinal
      <4> QED
        BY <1>1, <2>1, <4>2, <4>4 DEF ReaderFinal
    <3>2. CASE k = "data"
      <4>1. Over /\ wire[1].value = arrived /\ wire[1].kind = "data"
        BY <1>1, <1>2, <1>3, <1>6, <3>2 DEF ClientInv, ReaderFinal
      <4> QED
        BY <1>1, <1>3, <1>6, <2>1, <3>2, <4>1 DEF ReaderFinal
    <3>3. CASE k = "blank"
      BY <1>6, <3>3
    <3> QED
      BY <1>2, <3>1, <3>2, <3>3
  <2> QED
    BY <2>1, <2>3, <2>4, <2>5, <2>6 DEF ClientInv
<1> QED
  BY <1>2, <1>4, <1>5, <1>6 DEF ReadEvent, ReadData, ReadBlank, Ends

-----------------------------------------------------------------------------
LEMMA ClientStepInv ==
  ASSUME ClientInv, [ClientNext]_clientVars
  PROVE  ClientInv'
<1>1. CASE Announce \/ Push \/ Attach \/ NoticeEnds \/ TrackNext \/ TrackExpire \/ Stop \/ CloseSource \/ CleanUp
  BY <1>1, ClientQuiet
     DEF Announce, Push, Attach, NoticeEnds, TrackNext, TrackExpire, Stop, CloseSource, CleanUp,
         taskVars, trackVars, apiVars, readVars
<1>2. CASE UNCHANGED clientVars
  BY <1>2, ClientQuiet DEF clientVars, taskVars, trackVars, apiVars, readVars
<1>3. CASE ReadEnd \/ Break
  <2>1. Leave("cut") /\ UNCHANGED <<arrived, sending, dead, beat, done, post, mode>>
    BY <1>3 DEF ReadEnd, Break, taskVars, trackVars, apiVars
  <2> QED
    BY <2>1, LeaveInv
<1> QED
  BY <1>1, <1>2, <1>3, WorkInv, TrackInv, BeatInv, MarshalInv, SendInv, ServeInv, ReadInv
     DEF ClientNext, WorkStep, TrackStep, BeatStep, SendStep, ReadStep

\* Whatever the tracker and the heartbeat send around each other, a client that
\* says the task is complete has printed its last state (run.go:211-247).
THEOREM ClientDoneIsFinal == LiveClientSpec => []DoneIsFinal
<1>1. ClientInv => DoneIsFinal
  BY DEF ClientInv
<1>2. ClientInv /\ [ClientNext]_clientVars => ClientInv'
  BY ClientStepInv
<1>3. ClientSpec => []DoneIsFinal
  BY <1>1, <1>2, ClientInitInv, PTL DEF ClientSpec
<1> QED
  BY <1>3 DEF LiveClientSpec
=============================================================================
