---------------------------- MODULE StreamStore -----------------------------
(***************************************************************************)
(* What the database layer promises of the stream configurations.  Every   *)
(* change is made on the tables as they are at that moment, so that none   *)
(* is lost, and is one request's.                                          *)
(*                                                                         *)
(* A request that nobody overtook puts in, replaces or takes out one whole *)
(* configuration, that of the stream it asked for.  One that was overtaken *)
(* between its lookup and its change goes by an id that may be another     *)
(* stream's by now: it can replace that stream's configuration, or take    *)
(* that stream's jobs away and leave it without.                           *)
(***************************************************************************)
EXTENDS StreamTables

CONSTANTS Name, Request, Id, Old

VARIABLES
  store,     \* the tables
  asks,      \* what each request asks for, and of which stream
  overtaken  \* the requests that go by a lookup which may be out of date

storeVars == <<store, asks, overtaken>>

Version == Request \cup {Old}

StoreInit ==
  /\ store \in Tables(Id, Name, Version)
  /\ Keyed(store)
  /\ \A r \in store.rows : \A j \in store.jobs : j.stream = r.id => j.ver = r.ver
  /\ asks \in [Request -> [kind : {"apply", "remove"}, name : Name]]
  /\ overtaken = {}

\* A configuration for stream i, whose earlier jobs go.
Configured(t, i, v) == CreateJobs(DeleteJobs(t, i), i, v)

\* The tables become t, which overtakes those whose stream is another now.
Change(t) ==
  /\ store' = t
  /\ overtaken' \subseteq
       overtaken \cup {q \in Request : Named(t, asks[q].name) # Named(store, asks[q].name)}
  /\ UNCHANGED asks

Insert(v, i) ==
  /\ asks[v].kind = "apply"
  /\ \A r \in store.rows : r.name # asks[v].name /\ r.id # i
  /\ Change(Configured(CreateStream(store, i, asks[v].name, v), i, v))

Replace(v, r) ==
  /\ asks[v].kind = "apply"
  /\ r \in store.rows
  /\ r.name = asks[v].name \/ v \in overtaken
  /\ Change(Configured(UpdateStreamRow(store, r.id, v), r.id, v))

\* The row goes by its name and the jobs by an id, that row's own at best.
Remove(v, i) ==
  /\ asks[v].kind = "remove"
  /\ (\E r \in store.rows : r.name = asks[v].name /\ r.id = i) \/ v \in overtaken
  /\ Change(DeleteJobs(DeleteStream(store, asks[v].name), i))

\* A request looks at what another has yet to commit, or has come to its end.
Look(v) ==
  /\ overtaken' \in {overtaken \cup {v}, overtaken \ {v}}
  /\ UNCHANGED <<store, asks>>

StoreNext ==
  \E v \in Request :
    \/ \E i \in Id : Insert(v, i) \/ Remove(v, i)
    \/ \E r \in store.rows : Replace(v, r)
    \/ Look(v)

StoreSpec == StoreInit /\ [][StoreNext]_storeVars

-----------------------------------------------------------------------------

\* A stored stream never has jobs of another configuration than its own, nor
\* does a name or an id stand for two streams (apply.go:43-60).
NeverMixed(t) ==
  /\ Keyed(t)
  /\ \A r \in t.rows : \A j \in t.jobs : j.stream = r.id => j.ver = r.ver
=============================================================================
