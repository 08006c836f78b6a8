--------------------------- MODULE StreamRegistry ---------------------------
(***************************************************************************)
(* The stream configurations while the server runs: their tables and the   *)
(* transaction helper (service/stream/apply.go, db/transactions.go), the   *)
(* registry (op/stream.go), the factory built from it (op/factory.go), the *)
(* handlers that change them (api/streams.go) and the clients that have a  *)
(* task created meanwhile (api/push.go, task/factory.go).                  *)
(*                                                                         *)
(* Three stores hold the same thing and are changed one after the other.   *)
(* The registry is a Go map that is read without its lock: when a write    *)
(* meets an iteration the runtime may notice and end the process, or not,  *)
(* so "up" is chosen there.                                                *)
(***************************************************************************)
EXTENDS StreamTables, FiniteSets

CONSTANTS
  Request,  \* the calls of StreamApply and StreamRemove
  Client,   \* the calls of CompleteStream
  Name,     \* stream names
  Lower,    \* strings.ToLower on them
  MaxId,    \* bounds the rows' ids: a request and a name use one each
  None,     \* no one, nothing
  Old       \* the version a stream has when the server starts

ASSUME RegistryAssumption ==
  /\ None \notin Request \cup {Old}
  /\ Old \notin Request
  /\ Lower \in [Name -> Name]
  /\ IsFiniteSet(Name)
  /\ MaxId \in Nat
  /\ Cardinality(Name) <= MaxId

VARIABLES
  up,         \* the process has not been ended by the runtime
  asks,       \* what each request asks for, and of which stream
  pc,         \* where the request is
  db,         \* the tables, as committed
  tx,         \* the tables as the request's transaction has them, None without one
  mutex,      \* the request that has locked db.mutex
  queries,    \* the global db.queries: the transaction of a request, or None
  handle,     \* the queries the request has in its hand
  seen,       \* the id its lookup has found, 0 for none
  streams,    \* the registry: a version for each name, or None
  left,       \* the names LoadStream has still to visit
  maps,       \* the maps LoadStream has built: by each request, and at the start
  roads,      \* whose maps streamFactory.RoadMap is of
  levels,     \* whose maps streamFactory.LevelMap is of
  cpc,        \* where the client is
  wanted,     \* the stream the client names
  checked,    \* the version its parameters were checked against
  built,      \* the version its jobs are of
  gen,        \* whose maps they were built with
  apart,      \* no two requests have overlapped
  disturbed,  \* the clients that some request has overlapped
  overtaken,  \* the requests whose lookup was of what is not committed, or of a
              \* stream that another's commit has changed since
  faults      \* what has failed: a "begin", a "statement"

dbVars     == <<db, tx, mutex, queries, handle, seen>>
regVars    == <<streams, left, maps, roads, levels>>
clientVars == <<cpc, wanted, checked, built, gen>>
history    == <<apart, disturbed, overtaken, faults>>
vars       == <<up, asks, pc, dbVars, regVars, clientVars, history>>

Version == Request \cup {Old}
Content == [Name -> Version \cup {None}]

\* The tables with the streams of S, numbered from 1.
Filled(S) ==
  LET number == CHOOSE f \in [S -> 1..Cardinality(S)] : \A n, m \in S : f[n] = f[m] => n = m
  IN  [rows |-> {[id |-> number[n], name |-> n, ver |-> Old] : n \in S},
       jobs |-> {[stream |-> number[n], ver |-> Old] : n \in S}]

\* What the rows and their jobs say: InitStreams reads this.
Stored ==
  [n \in Name |-> IF Named(db, n) = {} THEN None ELSE (CHOOSE r \in Named(db, n) : TRUE).ver]

RegInit ==
  /\ up = TRUE
  /\ asks \in [Request -> [kind : {"apply", "remove"}, name : Name]]
  /\ pc = [r \in Request |-> "start"]
  /\ \E S \in SUBSET Name : db = Filled(S)
  /\ tx = [r \in Request |-> None]
  /\ mutex = None
  /\ queries = None
  /\ handle = [r \in Request |-> None]
  /\ seen = [r \in Request |-> 0]
  /\ streams = Stored
  /\ left = [r \in Request |-> {}]
  /\ maps = [g \in Version |-> IF g = Old THEN streams ELSE [n \in Name |-> None]]
  /\ roads = Old
  /\ levels = Old
  /\ cpc = [c \in Client |-> "start"]
  /\ wanted \in [Client -> Name]
  /\ checked = [c \in Client |-> None]
  /\ built = [c \in Client |-> None]
  /\ gen = [c \in Client |-> Old]
  /\ apart = TRUE
  /\ disturbed = {}
  /\ overtaken = {}
  /\ faults = {}

Busy(r)   == pc[r] \notin {"start", "over"}
Asking(c) == cpc[c] \notin {"start", "made", "unknown", "lost"}

Goto(r, l) == pc' = [pc EXCEPT ![r] = l]

-----------------------------------------------------------------------------
(* stream.Apply and stream.RemoveStream.                                   *)

\* The handler starts; the lookup takes the global queries, whosesoever they are.
Start(r) ==
  /\ pc[r] = "start"
  /\ Goto(r, "look")
  /\ handle' = [handle EXCEPT ![r] = queries]
  /\ apart' = (apart /\ \A q \in Request : ~Busy(q))
  /\ disturbed' = disturbed \cup {c \in Client : Asking(c)}
  /\ UNCHANGED <<up, asks, db, tx, mutex, queries, seen, regVars, clientVars, overtaken, faults>>

\* The tables that queries h reads, None when its transaction is over.
Seen(h) == IF h = None THEN db ELSE tx[h]

Look(r) ==
  /\ pc[r] = "look"
  /\ Seen(handle[r]) # None
  /\ LET found == Named(Seen(handle[r]), asks[r].name)
     IN  /\ seen' = [seen EXCEPT ![r] = IF found = {} THEN 0 ELSE (CHOOSE s \in found : TRUE).id]
         /\ Goto(r, IF found = {} /\ asks[r].kind = "remove" THEN "registry" ELSE "begin")
         /\ overtaken' = IF handle[r] = None \/ pc'[r] = "registry" THEN overtaken ELSE overtaken \cup {r}
  /\ UNCHANGED <<up, asks, db, tx, mutex, queries, handle, regVars, clientVars, apart, disturbed, faults>>

\* The handler answers with the error and goes on to the registry all the same.
LookFails(r) ==
  /\ pc[r] = "look"
  /\ Goto(r, "registry")
  /\ faults' = faults \cup {"statement"}
  /\ UNCHANGED <<up, asks, dbVars, regVars, clientVars, apart, disturbed, overtaken>>

-----------------------------------------------------------------------------
(* db.Transaction.                                                         *)

\* Mutant: the transactions are not one at a time.
BeginUnlocked(r) ==
  /\ pc[r] = "begin"
  /\ Goto(r, "row")
  /\ mutex' = r
  /\ tx' = [tx EXCEPT ![r] = db]
  /\ handle' = [handle EXCEPT ![r] = queries]
  /\ queries' = r
  /\ UNCHANGED <<up, asks, db, seen, regVars, clientVars, history>>

\* Under the mutex the helper keeps the queries it finds and puts its own there.
Begin(r) ==
  /\ pc[r] = "begin"
  /\ mutex = None
  /\ Goto(r, "row")
  /\ mutex' = r
  /\ tx' = [tx EXCEPT ![r] = db]
  /\ handle' = [handle EXCEPT ![r] = queries]
  /\ queries' = r
  /\ UNCHANGED <<up, asks, db, seen, regVars, clientVars, history>>

\* The return in front of the deferred unlock: the mutex stays locked.
BeginFails(r) ==
  /\ pc[r] = "begin"
  /\ mutex = None
  /\ mutex' = r
  /\ Goto(r, "registry")
  /\ faults' = faults \cup {"begin"}
  /\ overtaken' = overtaken \ {r}
  /\ UNCHANGED <<up, asks, db, tx, queries, handle, seen, regVars, clientVars, apart, disturbed>>

\* Mutant: the id of the created row is not taken over.
CreateRowForgetsId(r) ==
  /\ pc[r] = "row"
  /\ asks[r].kind = "apply" /\ seen[r] = 0
  /\ Named(tx[r], asks[r].name) = {}
  /\ \E i \in 1..MaxId :
       /\ NextId(tx[r], i)
       /\ tx' = [tx EXCEPT ![r] = CreateStream(@, i, asks[r].name, r)]
  /\ Goto(r, "jobs")
  /\ UNCHANGED <<up, asks, db, mutex, queries, handle, seen, regVars, clientVars, history>>

\* Apply, when its lookup found none; the index refuses a second row of a name.
CreateRow(r) ==
  /\ pc[r] = "row"
  /\ asks[r].kind = "apply" /\ seen[r] = 0
  /\ Named(tx[r], asks[r].name) = {}
  /\ \E i \in 1..MaxId :
       /\ NextId(tx[r], i)
       /\ tx' = [tx EXCEPT ![r] = CreateStream(@, i, asks[r].name, r)]
       /\ seen' = [seen EXCEPT ![r] = i]
  /\ Goto(r, "jobs")
  /\ UNCHANGED <<up, asks, db, mutex, queries, handle, regVars, clientVars, history>>

\* Apply, when it found an id: whosesoever that is now, if it is anyone's.
UpdateRow(r) ==
  /\ pc[r] = "row"
  /\ asks[r].kind = "apply" /\ seen[r] # 0
  /\ \E s \in tx[r].rows : s.id = seen[r]
  /\ tx' = [tx EXCEPT ![r] = UpdateStreamRow(@, seen[r], r)]
  /\ Goto(r, "jobs")
  /\ UNCHANGED <<up, asks, db, mutex, queries, handle, seen, regVars, clientVars, history>>

\* RemoveStream deletes the row by its name, the jobs then by the id it found.
DeleteRow(r) ==
  /\ pc[r] = "row"
  /\ asks[r].kind = "remove"
  /\ tx' = [tx EXCEPT ![r] = DeleteStream(@, asks[r].name)]
  /\ Goto(r, "jobs")
  /\ UNCHANGED <<up, asks, db, mutex, queries, handle, seen, regVars, clientVars, history>>

\* Mutant: the jobs the stream had are left in the table.
WriteJobsBeside(r) ==
  /\ pc[r] = "jobs"
  /\ Goto(r, "commit")
  /\ tx' = [tx EXCEPT ![r] =
              IF asks[r].kind = "apply" THEN CreateJobs(@, seen[r], r) ELSE DeleteJobs(@, seen[r])]
  /\ UNCHANGED <<up, asks, db, mutex, queries, handle, seen, regVars, clientVars, history>>

WriteJobs(r) ==
  /\ pc[r] = "jobs"
  /\ Goto(r, "commit")
  /\ tx' = [tx EXCEPT ![r] =
              LET emptied == DeleteJobs(@, seen[r])
              IN  IF asks[r].kind = "apply" THEN CreateJobs(emptied, seen[r], r) ELSE emptied]
  /\ UNCHANGED <<up, asks, db, mutex, queries, handle, seen, regVars, clientVars, history>>

\* The deferred clean-up.
Release(r) ==
  /\ Goto(r, "registry")
  /\ mutex' = None
  /\ queries' = handle[r]
  /\ handle' = [handle EXCEPT ![r] = None]
  /\ tx' = [tx EXCEPT ![r] = None]
  /\ seen' = [seen EXCEPT ![r] = 0]

\* The requests that wait to begin and whose stream is another in t.
Passed(t) ==
  {q \in Request : pc[q] = "begin" /\ Named(t, asks[q].name) # Named(db, asks[q].name)}

Commit(r) ==
  /\ pc[r] = "commit"
  /\ db' = tx[r]
  /\ Release(r)
  /\ overtaken' = (overtaken \cup Passed(tx[r])) \ {r}
  /\ UNCHANGED <<up, asks, regVars, clientVars, apart, disturbed, faults>>

\* Mutant: the queries are put back after a commit only.
AbortKeepsQueries(r) ==
  /\ pc[r] \in {"row", "jobs", "commit"}
  /\ Goto(r, "registry")
  /\ mutex' = None
  /\ handle' = [handle EXCEPT ![r] = None]
  /\ tx' = [tx EXCEPT ![r] = None]
  /\ seen' = [seen EXCEPT ![r] = 0]
  /\ faults' = faults \cup {"statement"}
  /\ overtaken' = overtaken \ {r}
  /\ UNCHANGED <<up, asks, db, queries, regVars, clientVars, apart, disturbed>>

\* Mutant: an error returns at once.
AbortKeepsMutex(r) ==
  /\ pc[r] \in {"row", "jobs", "commit"}
  /\ Goto(r, "registry")
  /\ tx' = [tx EXCEPT ![r] = None]
  /\ faults' = faults \cup {"statement"}
  /\ overtaken' = overtaken \ {r}
  /\ UNCHANGED <<up, asks, db, mutex, queries, handle, seen, regVars, clientVars, apart, disturbed>>

\* Any statement, or the commit, fails.
Abort(r) ==
  /\ pc[r] \in {"row", "jobs", "commit"}
  /\ Release(r)
  /\ faults' = faults \cup {"statement"}
  /\ overtaken' = overtaken \ {r}
  /\ UNCHANGED <<up, asks, db, regVars, clientVars, apart, disturbed>>

-----------------------------------------------------------------------------
(* The registry and the factory.                                           *)

\* Someone ranges over the registry, which LoadStream and GetStreamList do with
\* no lock.
Iterating ==
  \/ \E r \in Request : pc[r] = "load" /\ left[r] \notin {{}, Name}
  \/ \E c \in Client : cpc[c] = "listing"

\* Mutant: a removed stream stays in the registry.
UpdateRegistryKeeps(r) ==
  /\ pc[r] = "registry"
  /\ Goto(r, "load")
  /\ streams' = IF asks[r].kind = "apply" THEN [streams EXCEPT ![asks[r].name] = r] ELSE streams
  /\ left' = [left EXCEPT ![r] = Name]
  /\ up' \in IF Iterating THEN BOOLEAN ELSE {TRUE}
  /\ UNCHANGED <<asks, dbVars, maps, roads, levels, clientVars, history>>

\* op.UpdateStream or op.RemoveStream, whatever became of the transaction.
UpdateRegistry(r) ==
  /\ pc[r] = "registry"
  /\ Goto(r, "load")
  /\ streams' = [streams EXCEPT ![asks[r].name] = IF asks[r].kind = "apply" THEN r ELSE None]
  /\ left' = [left EXCEPT ![r] = Name]
  /\ up' \in IF Iterating THEN BOOLEAN ELSE {TRUE}
  /\ UNCHANGED <<asks, dbVars, maps, roads, levels, clientVars, history>>

\* One entry of LoadStream's range.
LoadStream(r, n) ==
  /\ pc[r] = "load"
  /\ n \in left[r]
  /\ left' = [left EXCEPT ![r] = @ \ {n}]
  /\ maps' = [maps EXCEPT ![r][n] = streams[n]]
  /\ Goto(r, IF left[r] = {n} THEN "swap" ELSE "load")
  /\ UNCHANGED <<up, asks, dbVars, streams, roads, levels, clientVars, history>>

\* Mutant: the factory keeps its roads.
SwapNothing(r) ==
  /\ pc[r] = "swap"
  /\ \A q \in Request : pc[q] # "swapping"
  /\ Goto(r, "swapping")
  /\ UNCHANGED <<up, asks, dbVars, streams, left, maps, roads, levels, clientVars, history>>

\* ReloadStreamFactory has locked factorySyncMutex; Create does not lock it.
SwapRoads(r) ==
  /\ pc[r] = "swap"
  /\ \A q \in Request : pc[q] # "swapping"
  /\ Goto(r, "swapping")
  /\ roads' = r
  /\ UNCHANGED <<up, asks, dbVars, streams, left, maps, levels, clientVars, history>>

SwapLevels(r) ==
  /\ pc[r] = "swapping"
  /\ Goto(r, "over")
  /\ levels' = r
  /\ UNCHANGED <<up, asks, dbVars, streams, left, maps, roads, clientVars, history>>

-----------------------------------------------------------------------------
(* CompleteStream up to the created task.                                  *)

CGoto(c, l) == cpc' = [cpc EXCEPT ![c] = l]

\* GetStreamList begins to range over the registry.
ListBegin(c) ==
  /\ cpc[c] = "start"
  /\ CGoto(c, "listing")
  /\ disturbed' = IF \E r \in Request : Busy(r) THEN disturbed \cup {c} ELSE disturbed
  /\ UNCHANGED <<up, asks, pc, dbVars, regVars, wanted, checked, built, gen, apart, overtaken, faults>>

\* It has found the stream and its required parameters, or has not.
ListEnd(c) ==
  /\ cpc[c] = "listing"
  /\ checked' = [checked EXCEPT ![c] = streams[wanted[c]]]
  /\ CGoto(c, IF streams[wanted[c]] = None THEN "unknown" ELSE "road")
  /\ UNCHANGED <<up, asks, pc, dbVars, regVars, wanted, built, gen, history>>

\* Create: the name is lowered, the road and the level are read one by one.
ReadRoad(c) ==
  /\ cpc[c] = "road"
  /\ CGoto(c, "level")
  /\ gen' = [gen EXCEPT ![c] = roads]
  /\ built' = [built EXCEPT ![c] = maps[roads][Lower[wanted[c]]]]
  /\ UNCHANGED <<up, asks, pc, dbVars, regVars, wanted, checked, history>>

ReadLevel(c) ==
  /\ cpc[c] = "level"
  /\ CGoto(c, IF built[c] = None \/ maps[levels][Lower[wanted[c]]] = None THEN "lost" ELSE "build")
  /\ UNCHANGED <<up, asks, pc, dbVars, regVars, wanted, checked, built, gen, history>>

\* road() writes the description map its factory's roads share: two that run at
\* once are two writers of one map.
BuildBegin(c) ==
  /\ cpc[c] = "build"
  /\ CGoto(c, "building")
  /\ up' \in IF \E d \in Client : cpc[d] = "building" /\ gen[d] = gen[c] THEN BOOLEAN ELSE {TRUE}
  /\ UNCHANGED <<asks, pc, dbVars, regVars, wanted, checked, built, gen, history>>

BuildEnd(c) ==
  /\ cpc[c] = "building"
  /\ CGoto(c, "made")
  /\ UNCHANGED <<up, asks, pc, dbVars, regVars, wanted, checked, built, gen, history>>

-----------------------------------------------------------------------------

Lookup(r)   == Look(r) \/ LookFails(r)
WriteRow(r) == CreateRow(r) \/ UpdateRow(r) \/ DeleteRow(r)
Transact(r) == Begin(r) \/ BeginFails(r) \/ WriteRow(r) \/ WriteJobs(r) \/ Commit(r) \/ Abort(r)
Publish(r)  == UpdateRegistry(r) \/ (\E n \in Name : LoadStream(r, n)) \/ SwapRoads(r) \/ SwapLevels(r)
Create(c)   == ReadRoad(c) \/ ReadLevel(c) \/ BuildBegin(c) \/ BuildEnd(c)

RegNext ==
  /\ up
  /\ \/ \E r \in Request : Start(r) \/ Lookup(r) \/ Transact(r) \/ Publish(r)
     \/ \E c \in Client : ListBegin(c) \/ ListEnd(c) \/ Create(c)

RegSpec == RegInit /\ [][RegNext]_vars

\* The database layer alone: the requests up to the registry.
TablesNext == up /\ \E r \in Request : Start(r) \/ Lookup(r) \/ Transact(r)

TablesSpec == RegInit /\ [][TablesNext]_vars

\* A request that has started is scheduled until it ends; there are finitely
\* many, so that the mutex needs no more than weak fairness.
LiveTablesSpec ==
  /\ TablesSpec
  /\ \A r \in Request : WF_vars(Lookup(r) \/ Transact(r))

-----------------------------------------------------------------------------

RegTypeOK ==
  /\ up \in BOOLEAN
  /\ asks \in [Request -> [kind : {"apply", "remove"}, name : Name]]
  /\ pc \in [Request -> {"start", "look", "begin", "row", "jobs", "commit",
                         "registry", "load", "swap", "swapping", "over"}]
  /\ db \in Tables(1..MaxId, Name, Version)
  /\ \A r \in Request : tx[r] # None => tx[r] \in Tables(1..MaxId, Name, Version)
  /\ mutex \in Request \cup {None}
  /\ queries \in Request \cup {None}
  /\ handle \in [Request -> Request \cup {None}]
  /\ seen \in [Request -> 0..MaxId]
  /\ streams \in Content
  /\ left \in [Request -> SUBSET Name]
  /\ maps \in [Version -> Content]
  /\ {roads, levels} \subseteq Version
  /\ cpc \in [Client -> {"start", "listing", "road", "level", "build", "building",
                         "made", "unknown", "lost"}]
  /\ wanted \in [Client -> Name]
  /\ {checked, built} \subseteq [Client -> Version \cup {None}]
  /\ gen \in [Client -> Version]
  /\ overtaken \subseteq Request

\* The tables change as StreamStore promises.  The lookup of a request is made
\* before its transaction, perhaps inside another's.  Nothing committed is lost;
\* a request whose lookup was of what is committed, and whose stream nobody has
\* changed since, changes that stream as a whole and no other; the others can
\* replace another stream or leave one without jobs (apply.go:16-62, 113-140,
\* transactions.go:23-43).
Store == INSTANCE StreamStore WITH store <- db, Id <- 1..MaxId

FollowsStore == Store!StoreSpec

WholeStreams == Store!NeverMixed(db)

\* When no transaction runs, the queries everybody uses are no transaction's.
\* The deferred restore puts back what the helper found, so one that found
\* another's would leave a finished transaction there for good
\* (transactions.go:29-39).
HandleAtHome == mutex = None => queries = None

AtRest == up /\ \A r \in Request : ~Busy(r)

\* Requests that do not overlap leave the factory built from the registry as it
\* is, even if they failed, and if none failed the registry as the database
\* (streams.go:38-46, 74-80).
SerialAgrees ==
  AtRest /\ apart =>
    /\ roads = levels
    /\ maps[roads] = streams
    /\ faults = {} => streams = Stored

\* A task is made of the configuration its parameters were checked against,
\* unless a request overlapped the client or the name has a capital letter
\* (push.go:30-49, task/factory.go:78-86).
MadeAsChecked ==
  \A c \in Client :
    apart /\ c \notin disturbed /\ Lower[wanted[c]] = wanted[c] =>
      /\ cpc[c] # "lost"
      /\ cpc[c] = "made" => built[c] = checked[c]

\* A request that has begun gets through the database layer, whatever fails in
\* it or in others, unless a failed Begin has left the mutex locked
\* (transactions.go:24-35).
RequestEnds ==
  \A r \in Request : pc[r] = "look" ~> pc[r] = "registry" \/ "begin" \in faults

\* README.md:10: the configuration of the flows can be updated while the service
\* runs.  With nothing under way, what runs is what is stored.
StoredRuns == AtRest => maps[roads] = Stored
=============================================================================
