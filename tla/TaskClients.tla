----------------------------- MODULE TaskClients -----------------------------
(***************************************************************************)
(* Who follows a task: CompleteStream in stream mode (api/push.go) with    *)
(* the command line client that reads its events (cli/cmd/run.go), or a    *)
(* viewer through TaskLook (api/look.go), and the registry both use, with  *)
(* its daily clean-up (op/crontab.go).  The task and its tracker are       *)
(* TaskWatch's, more coarsely: what the clients cannot tell apart is left  *)
(* out.                                                                    *)
(*                                                                         *)
(* Tracker and heartbeat send on one broadcast with no lock: each looks at *)
(* IsStop, marshals the task and hands the message to the event source, so *)
(* an older state of the task can be sent after a newer one.  The data of  *)
(* a message is the number of jobs done when it was marshalled; what       *)
(* handlers do to the task between two jobs is JobData's.  Of a message's  *)
(* four lines the id is left out.                                          *)
(***************************************************************************)
EXTENDS Naturals, Sequences

CONSTANTS
  Jobs,     \* JobsPipline.Len()
  Nothing,  \* no message, no data yet
  MaxWire   \* bound: lines that wait to be read when a heartbeat comes

ASSUME ClientAssumption == Jobs \in Nat \ {0} /\ Nothing \notin Nat /\ MaxWire \in Nat

VARIABLES
  task,        \* "created", "announced", "refused", "pushed", or "served" by the dispatcher
  arrived,     \* Task.Arrived
  dead,        \* the errors are spent, Health() = 0
  done,        \* Task.done is closed
  tracked,     \* Task.Tracking, from the configuration
  sending,     \* the progress values on their way to the tracking goroutine
  tracker,     \* where tracking is
  value,       \* the progress it has in hand
  bc,          \* the broadcast: "none", "open", "stopping", "stopped"
  beat,        \* the event the heartbeat has decided on
  post,        \* what tracker and heartbeat have in hand for the event source
  source,      \* the event source is open
  registered,  \* op.Tasks has the task
  mode,        \* how the client came: "stream" or "look"
  cli,         \* the client
  conn,        \* its connection
  wire,        \* the lines on their way to it
  finish,      \* its flag: an event said that this is the end
  shown,       \* the data it has printed last
  lists        \* the metadata holds a value that Go cannot compare

taskVars   == <<task, arrived, dead, done, tracked>>
trackVars  == <<sending, tracker, value>>
apiVars    == <<registered, mode, lists>>
readVars   == <<wire, finish, shown>>
clientVars == <<taskVars, trackVars, bc, beat, post, source, apiVars, cli, conn, readVars>>

Sender == {"tracker", "heartbeat"}

ClientInit ==
  /\ task = "created" /\ arrived = 0 /\ dead = FALSE /\ done = FALSE
  /\ tracked \in BOOLEAN
  /\ sending = {} /\ tracker = "off" /\ value = 0
  /\ bc = "none" /\ beat = "idle" /\ source = TRUE
  /\ post = [s \in Sender |-> Nothing]
  /\ registered = FALSE
  /\ mode \in {"stream", "look"}
  /\ lists \in BOOLEAN
  /\ cli = "asking" /\ conn = "none"
  /\ wire = <<>> /\ finish = FALSE /\ shown = Nothing

Finished == arrived = Jobs
Live     == bc \in {"open", "stopping"}  \* IsStop is false

-----------------------------------------------------------------------------
(* The task.                                                               *)

Announce ==
  /\ task = "created"
  /\ task' = "announced"
  /\ bc' = "open"
  /\ UNCHANGED <<arrived, dead, done, tracked, trackVars, beat, post, source, apiVars, cli, conn, readVars>>

\* A refused push leaves the broadcast beating.
Push ==
  /\ task = "announced"
  /\ task' \in {"pushed", "refused"}
  /\ UNCHANGED <<arrived, dead, done, tracked, trackVars, bc, beat, post, source, apiVars, cli, conn, readVars>>

Roll ==
  /\ task \in {"pushed", "served"} /\ ~Finished /\ ~dead
  /\ arrived' = arrived + 1
  /\ sending' = sending \cup {arrived'}
  /\ UNCHANGED <<task, dead, done, tracked, tracker, value, bc, beat, post, source, apiVars, cli, conn, readVars>>

Die ==
  /\ task \in {"pushed", "served"} /\ ~Finished /\ ~dead
  /\ dead' = TRUE
  /\ UNCHANGED <<task, arrived, done, tracked, trackVars, bc, beat, post, source, apiVars, cli, conn, readVars>>

CloseTask ==
  /\ Finished \/ dead
  /\ ~done /\ done' = TRUE
  /\ UNCHANGED <<task, arrived, dead, tracked, trackVars, bc, beat, post, source, apiVars, cli, conn, readVars>>

\* The dispatcher attaches the watchers after Serve, at any point of the run.
Attach ==
  /\ task = "pushed"
  /\ task' = "served"
  /\ tracker' = IF tracked THEN "select" ELSE "off"
  /\ UNCHANGED <<arrived, dead, done, tracked, sending, value, bc, beat, post, source, apiVars, cli, conn, readVars>>

-----------------------------------------------------------------------------
(* Boardcast.Send: IsStop, the task as JSON, the event source.             *)

Decide(s, event) ==
  post' = IF Live THEN [post EXCEPT ![s] = [event |-> event, data |-> Nothing]] ELSE post

Notice(v) ==
  /\ tracker = "select"
  /\ tracker' = "noticing"
  /\ value' = v
  /\ Decide("tracker", IF v >= Jobs THEN "finished" ELSE "update")
  /\ UNCHANGED <<taskVars, bc, beat, source, apiVars, cli, conn, readVars>>

Track ==
  \/ done /\ Notice(Jobs) /\ UNCHANGED sending
  \/ \E v \in sending : Notice(v) /\ sending' = sending \ {v}

\* After the message is sent, the first look at Arrived ...
NoticeEnds ==
  /\ tracker = "noticing" /\ post["tracker"] = Nothing
  /\ tracker' = "noticed"
  /\ bc' = IF (value >= Jobs \/ Finished) /\ bc = "open" THEN "stopping" ELSE bc
  /\ UNCHANGED <<taskVars, sending, value, beat, post, source, apiVars, cli, conn, readVars>>

\* ... and the second.
TrackNext ==
  /\ tracker = "noticed"
  /\ tracker' = IF value >= Jobs \/ Finished THEN "left" ELSE "select"
  /\ UNCHANGED <<taskVars, sending, value, bc, beat, post, source, apiVars, cli, conn, readVars>>

TrackExpire ==
  /\ tracker = "select"
  /\ tracker' = "expired"
  /\ UNCHANGED <<taskVars, sending, value, bc, beat, post, source, apiVars, cli, conn, readVars>>

\* The stop, 5 s after it was asked for.
Stop ==
  /\ bc = "stopping"
  /\ bc' = "stopped"
  /\ UNCHANGED <<taskVars, trackVars, beat, post, source, apiVars, cli, conn, readVars>>

\* Mutant: a task that has started is said to beat, dead or not.
HeartbeatCheckStarted ==
  /\ Live /\ beat = "idle" /\ post["heartbeat"] = Nothing
  /\ Len(wire) <= MaxWire
  /\ beat' = "heartbeat"
  /\ UNCHANGED <<taskVars, trackVars, bc, post, source, apiVars, cli, conn, readVars>>

\* The heartbeat's self-check.  Any event but "dead" says the same to a client.
HeartbeatCheck ==
  /\ Live /\ beat = "idle" /\ post["heartbeat"] = Nothing
  /\ Len(wire) <= MaxWire
  /\ beat' = IF dead THEN "dead" ELSE "heartbeat"
  /\ UNCHANGED <<taskVars, trackVars, bc, post, source, apiVars, cli, conn, readVars>>

HeartbeatSend ==
  /\ beat # "idle"
  /\ beat' = "idle"
  /\ Decide("heartbeat", beat)
  /\ UNCHANGED <<taskVars, trackVars, bc, source, apiVars, cli, conn, readVars>>

Marshal(s) ==
  /\ post[s] # Nothing /\ post[s].data = Nothing
  /\ post' = [post EXCEPT ![s].data = arrived]
  /\ UNCHANGED <<taskVars, trackVars, bc, beat, source, apiVars, cli, conn, readVars>>

Lines(message) ==
  << [kind |-> "event", value |-> message.event], [kind |-> "data", value |-> message.data],
     [kind |-> "blank", value |-> Nothing] >>

SendEventMessage(s) ==
  /\ post[s] # Nothing /\ post[s].data # Nothing
  /\ post' = [post EXCEPT ![s] = Nothing]
  /\ wire' = IF source /\ conn = "open" THEN wire \o Lines(post[s]) ELSE wire
  /\ UNCHANGED <<taskVars, trackVars, bc, beat, source, apiVars, cli, conn, finish, shown>>

\* The heartbeat's goroutine ends, when it has nothing in hand, and closes the
\* event source with its connections.
CloseSource ==
  /\ bc = "stopped" /\ source
  /\ beat = "idle" /\ post["heartbeat"] = Nothing
  /\ source' = FALSE
  /\ conn' = IF conn = "open" THEN "closed" ELSE conn
  /\ UNCHANGED <<taskVars, trackVars, bc, beat, post, apiVars, cli, readVars>>

-----------------------------------------------------------------------------
(* The API.                                                                *)

Register ==
  /\ task \in {"pushed", "served"} /\ mode = "stream" /\ cli = "asking"
  /\ registered' = TRUE
  /\ cli' = "registered"
  /\ UNCHANGED <<taskVars, trackVars, bc, beat, post, source, mode, lists, conn, readVars>>

\* For a viewer another request has pushed and registered the task.
RegisterOther ==
  /\ task \in {"pushed", "served"} /\ mode = "look" /\ cli = "asking"
  /\ registered' = TRUE
  /\ cli' = "looking"
  /\ UNCHANGED <<taskVars, trackVars, bc, beat, post, source, mode, lists, conn, readVars>>

\* The push is refused, the task not found, or it is over and its state the
\* whole answer.
Answer ==
  /\ \/ cli = "asking" /\ task = "refused"
     \/ cli = "looking" /\ (~registered \/ Finished \/ dead)
  /\ cli' = "answered"
  /\ UNCHANGED <<taskVars, trackVars, bc, beat, post, source, apiVars, conn, readVars>>

\* TaskLook finds the task and that it is not over.
Look ==
  /\ cli = "looking" /\ registered /\ ~Finished /\ ~dead
  /\ cli' = "registered"
  /\ UNCHANGED <<taskVars, trackVars, bc, beat, post, source, apiVars, conn, readVars>>

\* Listen looks at IsStop ...
Listen ==
  /\ cli = "registered"
  /\ cli' = IF Live THEN "entering" ELSE "answered"
  /\ UNCHANGED <<taskVars, trackVars, bc, beat, post, source, apiVars, conn, readVars>>

\* ... and then joins the event source, which may be closed by then.
Join ==
  /\ cli = "entering"
  /\ IF source THEN cli' = "reading" /\ conn' = "open"
               ELSE cli' = "answered" /\ UNCHANGED conn
  /\ UNCHANGED <<taskVars, trackVars, bc, beat, post, source, apiVars, readVars>>

\* crontab: a task that has not started yet, or started long ago.
CleanUp ==
  /\ registered
  /\ registered' = FALSE
  /\ UNCHANGED <<taskVars, trackVars, bc, beat, post, source, mode, lists, cli, conn, readVars>>

-----------------------------------------------------------------------------
(* completionTaskOutputParses, and any reader of events in its place for a *)
(* viewer, who stays until the connection is closed.                       *)

Reads(kind) ==
  /\ cli = "reading" /\ wire # <<>>
  /\ Head(wire).kind = kind
  /\ UNCHANGED <<taskVars, trackVars, bc, beat, post, source, apiVars>>

Leave(how) == cli' = how /\ conn' = "closed" /\ wire' = <<>> /\ UNCHANGED <<finish, shown>>

\* Mutant: the client leaves as soon as an event says so.
ReadEventLeaves ==
  /\ Reads("event")
  /\ IF mode = "stream" /\ Head(wire).value \in {"finished", "dead"}
       THEN Leave("done")
       ELSE wire' = Tail(wire) /\ UNCHANGED <<cli, conn, finish, shown>>

ReadEvent ==
  /\ Reads("event")
  /\ wire' = Tail(wire)
  /\ finish' = (finish \/ Head(wire).value \in {"finished", "dead"})
  /\ UNCHANGED <<cli, conn, shown>>

\* The values are compared with those printed before, which panics for two
\* lists or maps.
ReadData ==
  /\ Reads("data")
  /\ IF lists /\ shown # Nothing /\ mode = "stream"
       THEN Leave("panicked")
       ELSE wire' = Tail(wire) /\ shown' = Head(wire).value /\ UNCHANGED <<cli, conn, finish>>

ReadBlank ==
  /\ Reads("blank")
  /\ IF finish /\ mode = "stream"
       THEN Leave("done")
       ELSE wire' = Tail(wire) /\ UNCHANGED <<cli, conn, finish, shown>>

ReadEnd ==
  /\ cli = "reading" /\ wire = <<>> /\ conn = "closed"
  /\ Leave("cut")
  /\ UNCHANGED <<taskVars, trackVars, bc, beat, post, source, apiVars>>

\* The connection breaks, or the event source gives up a client that is slow:
\* what is not read yet is lost.
Break ==
  /\ cli = "reading" /\ conn = "open"
  /\ Leave("cut")
  /\ UNCHANGED <<taskVars, trackVars, bc, beat, post, source, apiVars>>

-----------------------------------------------------------------------------
WorkStep  == Roll \/ Die \/ CloseTask \/ Attach
TrackStep == Track \/ NoticeEnds \/ TrackNext
BeatStep  == HeartbeatCheck \/ HeartbeatSend
SendStep(s) == Marshal(s) \/ SendEventMessage(s)
ServeStep == Register \/ RegisterOther \/ Answer \/ Look \/ Listen \/ Join
ReadStep  == ReadEvent \/ ReadData \/ ReadBlank \/ ReadEnd

ClientNext ==
  \/ Announce \/ Push \/ WorkStep
  \/ TrackStep \/ TrackExpire
  \/ BeatStep \/ (\E s \in Sender : SendStep(s)) \/ Stop \/ CloseSource
  \/ ServeStep \/ CleanUp
  \/ ReadStep \/ Break

ClientSpec == ClientInit /\ [][ClientNext]_clientVars

\* The two senders, the stopper and the client's loop keep being scheduled.
ClientFairness ==
  /\ WF_clientVars(TrackStep)
  /\ WF_clientVars(BeatStep)
  /\ \A s \in Sender : WF_clientVars(SendStep(s))
  /\ WF_clientVars(Stop)
  /\ WF_clientVars(CloseSource)
  /\ WF_clientVars(ReadStep)

LiveClientSpec == ClientSpec /\ ClientFairness

-----------------------------------------------------------------------------
\* A client that says the task is complete has printed its last state: the
\* data of the message that said so, whatever the heartbeat sent around it.
DoneIsFinal == cli = "done" => (Finished \/ dead) /\ shown = arrived

\* A client leaves once its task is dead, tracked or not, and everybody leaves
\* once a stop is asked for: no order of finishing, stopping and joining leaves
\* a connection open.
ClientsLeave ==
  cli = "reading" /\ (bc \in {"stopping", "stopped"} \/ (dead /\ mode = "stream")) ~> cli # "reading"
=============================================================================
