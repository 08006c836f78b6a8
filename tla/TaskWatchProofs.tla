-------------------------- MODULE TaskWatchProofs --------------------------
(***************************************************************************)
(* Proofs about TaskWatch, for any number of jobs and any error budget.    *)
(* WatchInv adds to the type what each goroutine may rely on: how far the  *)
(* task is where it is, that a value on its way was reached, and what the  *)
(* tracking goroutine, the heartbeat and the callback have already seen.   *)
(***************************************************************************)
EXTENDS TaskWatch, TLAPS

Ended == Finished \/ Dead

\* Where the task is, against its counters.
WorkOK ==
  /\ work \in {"created", "announced", "refused"} => arrived = 0 /\ errorHit = 0
  /\ work \in {"queued", "begin", "handling", "serving"} => arrived < Jobs /\ errorHit <= MaxHit
  /\ work = "rolled" => arrived > 0 /\ errorHit <= MaxHit
  /\ work \in {"closing", "over"} => Ended
  /\ work \in {"created", "announced", "refused"} => ~attaching /\ tracker = "off" /\ cb = "off"
  /\ done <=> work = "over"

\* What the tracking goroutine knows is true, and stays true.
TrackOK ==
  /\ \A v \in sending : v <= arrived
  /\ tracker \in {"noticing", "noticed"} => value > 0 /\ (value >= Jobs => Ended)
  /\ tracker \in {"off", "select", "noticing", "expired"} => stoppers = 0
  /\ stoppers > 0 => Ended
  /\ tracker = "noticed" /\ stoppers > 0 => value >= Jobs \/ Finished
  /\ "finished" \in heard => Ended
  /\ "dead" \in heard \/ beat = "dead" => Dead

\* A callback is under way only once the task is closed.
CallOK ==
  /\ cb = "retrying" \/ reports # {} => done
  /\ \A r \in reports : r = [complete |-> arrived, errors |-> errorHit]

WatchInv == WatchTypeOK /\ WorkOK /\ TrackOK /\ CallOK /\ StopsOnce

LEMMA InitInv ==
  ASSUME WatchInit
  PROVE  WatchInv
<1> USE WatchAssumption DEF WatchInit
<1>1. WatchTypeOK
  <2>1. arrived \in 0..Jobs /\ errorHit \in 0..(MaxHit + 1) /\ value \in 0..Jobs
    OBVIOUS
  <2>2. sending \subseteq 1..Jobs /\ stored \subseteq 1..Jobs
    OBVIOUS
  <2>3. heard \subseteq {"finished", "update", "wait", "heartbeat", "dead"}
    OBVIOUS
  <2>4. reports \subseteq [complete : 0..Jobs, errors : 0..(MaxHit + 1)]
    OBVIOUS
  <2> QED
    BY <2>1, <2>2, <2>3, <2>4 DEF WatchTypeOK
<1>2. WorkOK /\ StopsOnce
  BY DEF WorkOK, StopsOnce
<1>3. TrackOK /\ CallOK
  BY DEF TrackOK, CallOK
<1> QED
  BY <1>1, <1>2, <1>3 DEF WatchInv

\* Every step keeps the type.
LEMMA TypeStep ==
  ASSUME WatchInv, [WatchNext]_watchVars
  PROVE  WatchTypeOK'
<1> USE WatchAssumption DEF WatchInv, WatchTypeOK, taskVars, trackVars, streamVars, cbVars
<1>1. CASE ApiAnnounce
  BY <1>1 DEF ApiAnnounce
<1>2. CASE ApiPush
  BY <1>2 DEF ApiPush
<1>19. CASE Serve
  BY <1>19 DEF Serve
<1>20. CASE Attach
  <2>1. cb' \in {"off", "listening", "retrying", "over"}
    BY <1>20 DEF Attach
  <2>2. tracker' \in {"off", "select", "noticing", "noticed", "left", "expired"}
    BY <1>20 DEF Attach
  <2> QED
    BY <1>20, <2>1, <2>2 DEF Attach
<1>3. CASE Locate
  BY <1>3 DEF Locate
<1>4. CASE Roll
  BY <1>4 DEF Roll, WorkOK
<1>5. CASE Update
  BY <1>5 DEF Update, WorkOK
<1>6. CASE ServeNext
  BY <1>6 DEF ServeNext
<1>7. CASE Fail
  BY <1>7 DEF Fail, WorkOK
<1>8. CASE CloseTask
  BY <1>8 DEF CloseTask
<1>9. CASE TrackDone
  BY <1>9 DEF TrackDone, Notice, Send
<1>10. ASSUME NEW v \in sending, TrackValue(v)
       PROVE  WatchTypeOK'
  BY <1>10 DEF TrackValue, Notice, Send
<1>11. CASE NoticeEnds
  <2>1. value \in 1..Jobs
    BY <1>11 DEF NoticeEnds, TrackOK
  <2> QED
    BY <1>11, <2>1 DEF NoticeEnds
<1>12. CASE TrackNext
  BY <1>12 DEF TrackNext
<1>13. CASE TrackExpire
  BY <1>13 DEF TrackExpire
<1>14. CASE HeartbeatCheck
  BY <1>14 DEF HeartbeatCheck
<1>15. CASE HeartbeatSend
  BY <1>15 DEF HeartbeatSend, Send
<1>16. CASE Stop
  BY <1>16 DEF Stop
<1>17. CASE CallBack
  BY <1>17 DEF CallBack
<1>18. CASE UNCHANGED watchVars
  BY <1>18 DEF watchVars
<1> QED
  BY <1>1, <1>2, <1>3, <1>4, <1>5, <1>6, <1>7, <1>8, <1>9, <1>10, <1>11, <1>12, <1>13, <1>14,
     <1>15, <1>16, <1>17, <1>18, <1>19, <1>20
     DEF WatchNext, ApiStep, DispatchStep, WorkStep, TrackStep

\* Every step keeps the counters in step with the place of the task.
LEMMA WorkStepOK ==
  ASSUME WatchInv, [WatchNext]_watchVars
  PROVE  WorkOK'
<1> USE WatchAssumption DEF WatchInv, WatchTypeOK, WorkOK, Ended, Finished, Dead, taskVars, trackVars, streamVars, cbVars
<1>1. CASE ApiAnnounce
  BY <1>1 DEF ApiAnnounce
<1>2. CASE ApiPush
  BY <1>2 DEF ApiPush
<1>3. CASE Serve
  BY <1>3 DEF Serve
<1>4. CASE Attach
  BY <1>4 DEF Attach
<1>5. CASE Locate
  BY <1>5 DEF Locate
<1>6. CASE Roll
  BY <1>6 DEF Roll
<1>7. CASE Update
  BY <1>7 DEF Update
<1>8. CASE ServeNext
  BY <1>8 DEF ServeNext
<1>9. CASE Fail
  BY <1>9 DEF Fail
<1>10. CASE CloseTask
  BY <1>10 DEF CloseTask
<1>11. CASE TrackDone
  BY <1>11 DEF TrackDone, Notice, Send
<1>12. ASSUME NEW v \in sending, TrackValue(v)
       PROVE  WorkOK'
  BY <1>12 DEF TrackValue, Notice, Send
<1>13. CASE NoticeEnds
  BY <1>13 DEF NoticeEnds
<1>14. CASE TrackNext
  BY <1>14 DEF TrackNext
<1>15. CASE TrackExpire
  BY <1>15 DEF TrackExpire
<1>16. CASE HeartbeatCheck
  BY <1>16 DEF HeartbeatCheck
<1>17. CASE HeartbeatSend
  BY <1>17 DEF HeartbeatSend, Send
<1>18. CASE Stop
  BY <1>18 DEF Stop
<1>19. CASE CallBack
  BY <1>19 DEF CallBack
<1>20. CASE UNCHANGED watchVars
  BY <1>20 DEF watchVars
<1> QED
  BY <1>1, <1>2, <1>3, <1>4, <1>5, <1>6, <1>7, <1>8, <1>9, <1>10, <1>11, <1>12, <1>13, <1>14,
     <1>15, <1>16, <1>17, <1>18, <1>19, <1>20
     DEF WatchNext, ApiStep, DispatchStep, WorkStep, TrackStep

\* Every step keeps what the watchers have been told true.
LEMMA TrackStepOK ==
  ASSUME WatchInv, [WatchNext]_watchVars
  PROVE  TrackOK'
<1> USE WatchAssumption DEF WatchInv, WatchTypeOK, WorkOK, TrackOK, Ended, Finished, Dead, taskVars, trackVars, streamVars, cbVars
<1>1. CASE ApiAnnounce
  BY <1>1 DEF ApiAnnounce
<1>2. CASE ApiPush
  BY <1>2 DEF ApiPush
<1>3. CASE Serve
  BY <1>3 DEF Serve
<1>4. CASE Attach
  BY <1>4 DEF Attach
<1>5. CASE Locate
  BY <1>5 DEF Locate
<1>6. CASE Roll
  BY <1>6 DEF Roll
<1>7. CASE Update
  BY <1>7 DEF Update
<1>8. CASE ServeNext
  BY <1>8 DEF ServeNext
<1>9. CASE Fail
  BY <1>9 DEF Fail
<1>10. CASE CloseTask
  BY <1>10 DEF CloseTask
<1>11. CASE TrackDone
  BY <1>11 DEF TrackDone, Notice, Send
<1>12. ASSUME NEW v \in sending, TrackValue(v)
       PROVE  TrackOK'
  BY <1>12 DEF TrackValue, Notice, Send
<1>13. CASE NoticeEnds
  BY <1>13 DEF NoticeEnds
<1>14. CASE TrackNext
  BY <1>14 DEF TrackNext
<1>15. CASE TrackExpire
  BY <1>15 DEF TrackExpire
<1>16. CASE HeartbeatCheck
  BY <1>16 DEF HeartbeatCheck
<1>17. CASE HeartbeatSend
  BY <1>17 DEF HeartbeatSend, Send
<1>18. CASE Stop
  BY <1>18 DEF Stop
<1>19. CASE CallBack
  BY <1>19 DEF CallBack
<1>20. CASE UNCHANGED watchVars
  BY <1>20 DEF watchVars
<1> QED
  BY <1>1, <1>2, <1>3, <1>4, <1>5, <1>6, <1>7, <1>8, <1>9, <1>10, <1>11, <1>12, <1>13, <1>14,
     <1>15, <1>16, <1>17, <1>18, <1>19, <1>20
     DEF WatchNext, ApiStep, DispatchStep, WorkStep, TrackStep

\* Every step keeps the callback behind the close.
LEMMA CallStepOK ==
  ASSUME WatchInv, [WatchNext]_watchVars
  PROVE  CallOK'
<1> USE WatchAssumption DEF WatchInv, WatchTypeOK, WorkOK, CallOK, taskVars, trackVars, streamVars, cbVars
<1>1. CASE ApiAnnounce
  BY <1>1 DEF ApiAnnounce
<1>2. CASE ApiPush
  BY <1>2 DEF ApiPush
<1>3. CASE Serve
  BY <1>3 DEF Serve
<1>4. CASE Attach
  BY <1>4 DEF Attach
<1>5. CASE Locate
  BY <1>5 DEF Locate
<1>6. CASE Roll
  BY <1>6 DEF Roll
<1>7. CASE Update
  BY <1>7 DEF Update
<1>8. CASE ServeNext
  BY <1>8 DEF ServeNext
<1>9. CASE Fail
  BY <1>9 DEF Fail
<1>10. CASE CloseTask
  BY <1>10 DEF CloseTask
<1>11. CASE TrackDone
  BY <1>11 DEF TrackDone, Notice, Send
<1>12. ASSUME NEW v \in sending, TrackValue(v)
       PROVE  CallOK'
  BY <1>12 DEF TrackValue, Notice, Send
<1>13. CASE NoticeEnds
  BY <1>13 DEF NoticeEnds
<1>14. CASE TrackNext
  BY <1>14 DEF TrackNext
<1>15. CASE TrackExpire
  BY <1>15 DEF TrackExpire
<1>16. CASE HeartbeatCheck
  BY <1>16 DEF HeartbeatCheck
<1>17. CASE HeartbeatSend
  BY <1>17 DEF HeartbeatSend, Send
<1>18. CASE Stop
  BY <1>18 DEF Stop
<1>19. CASE CallBack
  BY <1>19 DEF CallBack
<1>20. CASE UNCHANGED watchVars
  BY <1>20 DEF watchVars
<1> QED
  BY <1>1, <1>2, <1>3, <1>4, <1>5, <1>6, <1>7, <1>8, <1>9, <1>10, <1>11, <1>12, <1>13, <1>14,
     <1>15, <1>16, <1>17, <1>18, <1>19, <1>20
     DEF WatchNext, ApiStep, DispatchStep, WorkStep, TrackStep

\* Every step keeps the stoppers at one.
LEMMA StopStepOK ==
  ASSUME WatchInv, [WatchNext]_watchVars
  PROVE  StopsOnce'
<1> USE WatchAssumption DEF WatchInv, WatchTypeOK, TrackOK, StopsOnce, taskVars, trackVars, streamVars, cbVars
<1>1. CASE ApiAnnounce
  BY <1>1 DEF ApiAnnounce
<1>2. CASE ApiPush
  BY <1>2 DEF ApiPush
<1>3. CASE Serve
  BY <1>3 DEF Serve
<1>4. CASE Attach
  BY <1>4 DEF Attach
<1>5. CASE Locate
  BY <1>5 DEF Locate
<1>6. CASE Roll
  BY <1>6 DEF Roll
<1>7. CASE Update
  BY <1>7 DEF Update
<1>8. CASE ServeNext
  BY <1>8 DEF ServeNext
<1>9. CASE Fail
  BY <1>9 DEF Fail
<1>10. CASE CloseTask
  BY <1>10 DEF CloseTask
<1>11. CASE TrackDone
  BY <1>11 DEF TrackDone, Notice, Send
<1>12. ASSUME NEW v \in sending, TrackValue(v)
       PROVE  StopsOnce'
  BY <1>12 DEF TrackValue, Notice, Send
<1>13. CASE NoticeEnds
  BY <1>13 DEF NoticeEnds
<1>14. CASE TrackNext
  BY <1>14 DEF TrackNext
<1>15. CASE TrackExpire
  BY <1>15 DEF TrackExpire
<1>16. CASE HeartbeatCheck
  BY <1>16 DEF HeartbeatCheck
<1>17. CASE HeartbeatSend
  BY <1>17 DEF HeartbeatSend, Send
<1>18. CASE Stop
  BY <1>18 DEF Stop
<1>19. CASE CallBack
  BY <1>19 DEF CallBack
<1>20. CASE UNCHANGED watchVars
  BY <1>20 DEF watchVars
<1> QED
  BY <1>1, <1>2, <1>3, <1>4, <1>5, <1>6, <1>7, <1>8, <1>9, <1>10, <1>11, <1>12, <1>13, <1>14,
     <1>15, <1>16, <1>17, <1>18, <1>19, <1>20
     DEF WatchNext, ApiStep, DispatchStep, WorkStep, TrackStep

-----------------------------------------------------------------------------

LEMMA InvStep ==
  ASSUME WatchInv, [WatchNext]_watchVars
  PROVE  WatchInv'
BY TypeStep, WorkStepOK, TrackStepOK, CallStepOK, StopStepOK DEF WatchInv

THEOREM WatchInvariant == WatchSpec => []WatchInv
<1>1. WatchInit => WatchInv
  BY InitInv
<1>2. WatchInv /\ [WatchNext]_watchVars => WatchInv'
  BY InvStep
<1> QED
  BY <1>1, <1>2, PTL DEF WatchSpec

\* The variables of TaskWatch keep their types, for any number of jobs and
\* any error budget: no progress beyond the jobs, no error beyond the budget.
THEOREM WatchTypeCorrect == WatchSpec => []WatchTypeOK
<1>1. WatchInv => WatchTypeOK
  BY DEF WatchInv
<1> QED
  BY <1>1, WatchInvariant, PTL

\* The broadcast is stopped by one goroutine at most (listen.go:43-51,
\* tracker/boardcast.go:54-61), whatever order the progress values come in.
THEOREM WatchStopsOnce == WatchSpec => []StopsOnce
<1>1. WatchInv => StopsOnce
  BY DEF WatchInv
<1> QED
  BY <1>1, WatchInvariant, PTL

\* Nothing tells the browsers of an end that has not come (listen.go:37-51,
\* tracker/boardcast.go:16-27, 54).
THEOREM WatchEndIsTrue == WatchSpec => []EndIsTrue
<1>1. WatchInv => EndIsTrue
  BY DEF WatchInv, TrackOK, Ended, EndIsTrue
<1> QED
  BY <1>1, WatchInvariant, PTL

\* Every callback carries the task's final figures (task.go:200-222,
\* callback.go:52-65).
THEOREM WatchCallbackTellsEnd == WatchSpec => []CallbackTellsEnd
<1>1. WatchInv => CallbackTellsEnd
  BY DEF WatchInv, CallOK, WorkOK, Ended, CallbackTellsEnd
<1> QED
  BY <1>1, WatchInvariant, PTL

-----------------------------------------------------------------------------
(* The refinement of TaskLifecycle.                                        *)

LEMMA LifeStart ==
  ASSUME WatchInit
  PROVE  Life!LifeInit
BY DEF WatchInit, Life!LifeInit, Phase

\* Of the steps of WatchNext these change what TaskLifecycle sees.
LEMMA LifeStep ==
  ASSUME WatchInv, [WatchNext]_watchVars
  PROVE  [Life!LifeNext]_Life!lifeVars
<1> USE WatchAssumption DEF WatchInv, WorkOK, WatchTypeOK, Ended, Finished, Dead, Phase
<1>1. ASSUME UNCHANGED <<work, arrived, errorHit>>
      PROVE  UNCHANGED Life!lifeVars
  BY <1>1 DEF Life!lifeVars
<1>2. ASSUME Phase' = Phase, UNCHANGED <<arrived, errorHit>>
      PROVE  UNCHANGED Life!lifeVars
  BY <1>2 DEF Life!lifeVars
<1>3. CASE ApiAnnounce
  BY <1>2, <1>3 DEF ApiAnnounce
<1>4. CASE ApiPush
  <2>1. CASE work' = "queued"
    <3>1. Life!Take("task")
      BY <1>4, <2>1 DEF ApiPush, Life!Take
    <3> QED
      BY <3>1 DEF Life!LifeNext
  <2>2. CASE work' = "refused"
    <3>1. Life!Refuse("task")
      BY <1>4, <2>2 DEF ApiPush, Life!Refuse
    <3> QED
      BY <3>1 DEF Life!LifeNext
  <2> QED
    BY <1>4, <2>1, <2>2 DEF ApiPush
<1>5. CASE Serve
  BY <1>2, <1>5 DEF Serve
<1>6. CASE Locate
  BY <1>2, <1>6 DEF Locate
<1>7. CASE Roll
  <2>1. CASE arrived + 1 < Jobs
    <3>1. Life!Advance("task")
      BY <1>7, <2>1 DEF Roll, Life!Advance, taskVars
    <3> QED
      BY <3>1 DEF Life!LifeNext
  <2>2. CASE arrived + 1 = Jobs
    <3>1. Phase = "live" /\ Phase' = "finished"
      BY <1>7, <2>2 DEF Roll
    <3>2. arrived + 1 = Jobs /\ arrived' = arrived + 1 /\ errorHit' = errorHit
      BY <1>7, <2>2 DEF Roll
    <3>3. Life!Finish("task")
      BY <3>1, <3>2 DEF Life!Finish
    <3> QED
      BY <3>3 DEF Life!LifeNext
  <2> QED
    BY <1>7, <2>1, <2>2 DEF Roll
<1>8. CASE Update
  BY <1>2, <1>8 DEF Update
<1>9. CASE ServeNext
  BY <1>2, <1>9 DEF ServeNext
<1>10. CASE Fail
  <2>1. CASE errorHit < MaxHit
    <3>1. Life!Survive("task")
      BY <1>10, <2>1 DEF Fail, Life!Survive
    <3> QED
      BY <3>1 DEF Life!LifeNext
  <2>2. CASE errorHit = MaxHit
    <3>1. Phase = "live" /\ Phase' = "dead"
      BY <1>10, <2>2 DEF Fail
    <3>2. arrived' = arrived /\ errorHit' = errorHit + 1
      BY <1>10 DEF Fail
    <3>3. Life!Die("task")
      BY <2>2, <3>1, <3>2 DEF Life!Die
    <3> QED
      BY <3>3 DEF Life!LifeNext
  <2> QED
    BY <1>10, <2>1, <2>2 DEF Fail
<1>11. CASE CloseTask
  BY <1>2, <1>11 DEF CloseTask
<1>12. CASE TrackDone
  BY <1>1, <1>12 DEF TrackDone, Notice, taskVars
<1>13. ASSUME NEW v \in sending, TrackValue(v)
       PROVE  UNCHANGED Life!lifeVars
  BY <1>1, <1>13 DEF TrackValue, Notice, taskVars
<1>14. CASE Attach \/ NoticeEnds \/ TrackNext \/ TrackExpire
  BY <1>1, <1>14 DEF Attach, NoticeEnds, TrackNext, TrackExpire, taskVars
<1>15. CASE HeartbeatCheck \/ HeartbeatSend \/ Stop \/ CallBack
  BY <1>1, <1>15 DEF HeartbeatCheck, HeartbeatSend, Stop, CallBack, taskVars
<1>16. CASE UNCHANGED watchVars
  BY <1>1, <1>16 DEF watchVars, taskVars
<1> QED
  BY <1>3, <1>4, <1>5, <1>6, <1>7, <1>8, <1>9, <1>10, <1>11, <1>12, <1>13, <1>14, <1>15, <1>16
     DEF WatchNext, ApiStep, DispatchStep, WorkStep, TrackStep

\* The task that is watched keeps the promise of TaskLifecycle.
THEOREM WatchFollowsLife == WatchSpec => FollowsLife
<1>1. WatchInit => Life!LifeInit
  BY LifeStart
<1>2. WatchInv /\ [WatchNext]_watchVars => [Life!LifeNext]_Life!lifeVars
  BY LifeStep
<1> QED
  BY <1>1, <1>2, WatchInvariant, PTL DEF WatchSpec, FollowsLife, Life!LifeSpec
=============================================================================
