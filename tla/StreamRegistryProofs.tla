------------------------ MODULE StreamRegistryProofs ------------------------
(***************************************************************************)
(* Proofs about StreamRegistry, for any requests, clients and names.       *)
(*                                                                         *)
(* DbInv, of the database layer, says what the mutex is for: while a       *)
(* transaction is open it alone holds the mutex and the global queries,    *)
(* the tables are as it found them, and its copy is what its statements    *)
(* have made of them.  Lookups are made outside the mutex; what they found *)
(* is still true of a request that nobody overtook, and no more than an id *)
(* otherwise.                                                              *)
(*                                                                         *)
(* InTurn, of requests that do not overlap, says how far the one under way *)
(* has taken its change: tables, registry, factory.                        *)
(***************************************************************************)
EXTENDS StreamRegistry, FiniteSetTheorems, FunctionTheorems, TLAPS

Ids == 1..MaxId
AllTables == Tables(Ids, Name, Version)

Open(r) == pc[r] \in {"row", "jobs", "commit"}

DbType ==
  /\ asks \in [Request -> [kind : {"apply", "remove"}, name : Name]]
  /\ pc \in [Request -> {"start", "look", "begin", "row", "jobs", "commit",
                         "registry", "load", "swap", "swapping", "over"}]
  /\ db \in AllTables
  /\ tx \in [Request -> AllTables \cup {None}]
  /\ mutex \in Request \cup {None}
  /\ queries \in Request \cup {None}
  /\ handle \in [Request -> Request \cup {None}]
  /\ seen \in [Request -> Ids \cup {0}]
  /\ overtaken \subseteq Request

\* What the lookup of a stream with the rows S finds.
Finds(S, i) == IF S = {} THEN i = 0 ELSE \E q \in S : q.id = i

\* t is the tables after the first statement of r's transaction ...
RowWritten(r, t) ==
  IF asks[r].kind = "remove"
  THEN /\ t = DeleteStream(db, asks[r].name)
       /\ r \in overtaken \/ \E q \in db.rows : q.name = asks[r].name /\ q.id = seen[r]
  ELSE \/ /\ \A q \in db.rows : q.name # asks[r].name /\ q.id # seen[r]
          /\ t = CreateStream(db, seen[r], asks[r].name, r)
       \/ /\ \E q \in db.rows : q.id = seen[r] /\ (q.name = asks[r].name \/ r \in overtaken)
          /\ t = UpdateStreamRow(db, seen[r], r)

\* ... and this is what the others make of them.
JobsWritten(r, t) ==
  IF asks[r].kind = "apply" THEN CreateJobs(DeleteJobs(t, seen[r]), seen[r], r)
  ELSE DeleteJobs(t, seen[r])

Local(r) ==
  /\ Open(r) => mutex = r /\ queries = r /\ handle[r] = None
  /\ pc[r] \in {"begin", "row", "jobs", "commit"} /\ asks[r].kind = "remove" => seen[r] \in Ids
  /\ pc[r] \in {"jobs", "commit"} => seen[r] \in Ids
  /\ pc[r] \in {"begin", "row"} /\ r \notin overtaken => Finds(Named(db, asks[r].name), seen[r])
  /\ pc[r] = "row" => tx[r] = db
  /\ pc[r] = "jobs" => tx[r] \in AllTables /\ RowWritten(r, tx[r])
  /\ pc[r] = "commit" => tx[r] \in AllTables /\ \E t \in AllTables : RowWritten(r, t) /\ tx[r] = JobsWritten(r, t)

Home == queries # None => Open(queries)

DbInv == DbType /\ Home /\ \A r \in Request : Local(r)

-----------------------------------------------------------------------------
(* The tables the server starts with.                                      *)

LEMMA FilledIsWhole ==
  ASSUME NEW S \in SUBSET Name
  PROVE  Filled(S) \in AllTables /\ Store!NeverMixed(Filled(S))
<1> DEFINE n == Cardinality(S)
           Inj == {f \in [S -> 1..n] : \A a, b \in S : f[a] = f[b] => a = b}
           number == CHOOSE f \in [S -> 1..n] : \A a, b \in S : f[a] = f[b] => a = b
<1>1. IsFiniteSet(S) /\ n <= Cardinality(Name) /\ n \in Nat
  BY FS_Subset, FS_CardinalityType, RegistryAssumption
<1>2. \E f \in [S -> 1..n] : \A a, b \in S : f[a] = f[b] => a = b
  <2>1. ExistsBijection(1..n, S)
    BY <1>1, FS_CardinalityType
  <2>2. ExistsBijection(S, 1..n)
    BY <2>1, Fun_ExistsBijSymmetric
  <2> QED
    BY <2>2 DEF ExistsBijection, Bijection, Injection, IsInjective
<1>3. number \in [S -> 1..n] /\ \A a, b \in S : number[a] = number[b] => a = b
  BY <1>2
<1>4. \A a \in S : number[a] \in Ids
  <2>1. Cardinality(Name) \in Nat /\ Cardinality(Name) <= MaxId /\ MaxId \in Nat
    BY FS_CardinalityType, RegistryAssumption
  <2> HIDE DEF number, n
  <2> QED
    BY <1>1, <1>3, <2>1 DEF Ids
<1>5. Filled(S) = [rows |-> {[id |-> number[a], name |-> a, ver |-> Old] : a \in S},
                   jobs |-> {[stream |-> number[a], ver |-> Old] : a \in S}]
  BY DEF Filled
<1> HIDE DEF number
<1>6. Old \in Version
  BY DEF Version
<1>7. Filled(S) \in AllTables
  BY <1>4, <1>5, <1>6 DEF AllTables, Tables
<1>8. Store!NeverMixed(Filled(S))
  BY <1>3, <1>5 DEF Store!NeverMixed, Store!Keyed
<1> QED
  BY <1>7, <1>8

LEMMA InitInv ==
  ASSUME RegInit
  PROVE  DbInv /\ Store!StoreInit
<1>1. PICK S \in SUBSET Name : db = Filled(S)
  BY DEF RegInit
<1>2. db \in AllTables /\ Store!NeverMixed(db)
  BY <1>1, FilledIsWhole
<1>3. DbType
  BY <1>2 DEF RegInit, DbType
<1>4. Home /\ \A r \in Request : Local(r)
  BY DEF RegInit, Home, Local, Open
<1>5. Store!StoreInit
  BY <1>2 DEF RegInit, Store!StoreInit, Store!NeverMixed, Store!Tables, Store!Keyed, Store!Version,
              Version, AllTables, Tables, Ids
<1> QED
  BY <1>3, <1>4, <1>5 DEF DbInv

-----------------------------------------------------------------------------
(* The steps outside a transaction.                                        *)

LEMMA Frame ==
  ASSUME DbInv, UNCHANGED <<asks, pc, dbVars, overtaken>>
  PROVE  DbInv'
<1> USE DEF dbVars
<1>1. DbType'
  BY DEF DbInv, DbType
<1>2. Home' /\ \A r \in Request : Local(r)'
  BY DEF DbInv, Home, Local, Open, RowWritten, JobsWritten
<1> QED
  BY <1>1, <1>2 DEF DbInv

\* The request goes from one place outside a transaction to another.
LEMMA Outside ==
  ASSUME DbInv, NEW r \in Request, ~Open(r),
         NEW l \in {"start", "look", "registry", "load", "swap", "swapping", "over"},
         Goto(r, l), UNCHANGED <<asks, db, tx, mutex, queries, seen, overtaken>>,
         handle' \in [Request -> Request \cup {None}],
         \A q \in Request : Open(q) => handle'[q] = handle[q]
  PROVE  DbInv'
<1>1. pc' = [pc EXCEPT ![r] = l]
  BY DEF Goto
<1>2. DbType'
  BY <1>1 DEF DbInv, DbType
<1>3. \A q \in Request : Open(q)' <=> Open(q)
  BY <1>1 DEF DbInv, DbType, Open
<1>4. Home'
  BY <1>3 DEF DbInv, DbType, Home
<1>5. ASSUME NEW q \in Request
      PROVE  Local(q)'
  <2>1. CASE q = r
    BY <1>1, <2>1 DEF DbInv, DbType, Local, Open
  <2>2. CASE q # r
    <3>1. pc'[q] = pc[q] /\ Local(q)
      BY <1>1, <2>2 DEF DbInv, DbType
    <3> QED
      BY <3>1 DEF Local, Open, RowWritten, JobsWritten
  <2> QED
    BY <2>1, <2>2
<1> QED
  BY <1>2, <1>4, <1>5 DEF DbInv

LEMMA StartInv ==
  ASSUME DbInv, NEW r \in Request, Start(r)
  PROVE  DbInv'
<1>1. ~Open(r) /\ Goto(r, "look") /\ UNCHANGED <<asks, db, tx, mutex, queries, seen, overtaken>>
  BY DEF Start, Open
<1>2. handle' \in [Request -> Request \cup {None}]
  BY DEF Start, DbInv, DbType
<1>3. \A q \in Request : Open(q) => handle'[q] = handle[q]
  BY <1>1 DEF Start, DbInv, DbType
<1> QED
  BY <1>1, <1>2, <1>3, Outside

LEMMA LookInv ==
  ASSUME DbInv, NEW r \in Request, Look(r)
  PROVE  DbInv'
<1> DEFINE found == Named(Seen(handle[r]), asks[r].name)
           i == IF found = {} THEN 0 ELSE (CHOOSE s \in found : TRUE).id
           l == IF found = {} /\ asks[r].kind = "remove" THEN "registry" ELSE "begin"
<1>1. pc[r] = "look" /\ seen' = [seen EXCEPT ![r] = i] /\ pc' = [pc EXCEPT ![r] = l]
      /\ UNCHANGED <<asks, db, tx, mutex, queries, handle>>
      /\ \A q : q \in overtaken' <=> q \in overtaken \/ (q = r /\ handle[r] # None /\ pc'[r] # "registry")
  BY DEF Look, Goto
<1>2. Seen(handle[r]) \in AllTables
  BY DEF Look, Seen, DbInv, DbType
<1>3. found = {} \/ i \in Ids
  BY <1>2 DEF AllTables, Tables, Named
<1>4. i \in Ids \cup {0} /\ l \in {"begin", "registry"}
  BY <1>3
<1>5. l = "begin" /\ asks[r].kind = "remove" => i \in Ids
  BY <1>3
<1>10. handle[r] = None => Finds(Named(db, asks[r].name), i)
  <2>1. found # {} => (CHOOSE s \in found : TRUE) \in found
    OBVIOUS
  <2> QED
    BY <2>1 DEF Seen, Finds
<1> HIDE DEF found, i, l
<1>6. DbType'
  BY <1>1, <1>4 DEF DbInv, DbType
<1>7. \A q \in Request : Open(q)' <=> Open(q)
  BY <1>1, <1>4 DEF DbInv, DbType, Open
<1>8. Home'
  BY <1>1, <1>7 DEF DbInv, DbType, Home
<1>9. ASSUME NEW q \in Request
      PROVE  Local(q)'
  <2>1. CASE q = r
    <3>1. pc'[r] = l /\ seen'[r] = i /\ Local(r) /\ (l = "begin" /\ r \notin overtaken' => handle[r] = None)
      BY <1>1, <1>4 DEF DbInv, DbType
    <3> QED
      BY <1>1, <1>4, <1>5, <1>10, <2>1, <3>1 DEF Local, Open
  <2>2. CASE q # r
    <3>1. pc'[q] = pc[q] /\ seen'[q] = seen[q] /\ Local(q)
      BY <1>1, <2>2 DEF DbInv, DbType
    <3> QED
      BY <1>1, <3>1 DEF Local, Open, RowWritten, JobsWritten
  <2> QED
    BY <2>1, <2>2
<1> QED
  BY <1>6, <1>8, <1>9 DEF DbInv

LEMMA PublishInv ==
  ASSUME DbInv, NEW r \in Request, LookFails(r) \/ Publish(r)
  PROVE  DbInv'
<1>1. ~Open(r) /\ UNCHANGED <<asks, dbVars, overtaken>>
  BY DEF LookFails, Publish, UpdateRegistry, LoadStream, SwapRoads, SwapLevels, Open, history
<1>2. \E l \in {"registry", "load", "swap", "swapping", "over"} : Goto(r, l)
  BY DEF LookFails, Publish, UpdateRegistry, LoadStream, SwapRoads, SwapLevels
<1>3. handle' \in [Request -> Request \cup {None}]
  BY <1>1 DEF DbInv, DbType, dbVars
<1> QED
  BY <1>1, <1>2, <1>3, Outside DEF dbVars

-----------------------------------------------------------------------------
(* The steps of a transaction.                                             *)

LEMMA TablesClosed ==
  ASSUME NEW t \in AllTables, NEW i \in Ids, NEW n \in Name, NEW v \in Version
  PROVE  /\ CreateStream(t, i, n, v) \in AllTables
         /\ UpdateStreamRow(t, i, v) \in AllTables
         /\ DeleteStream(t, n) \in AllTables
         /\ DeleteJobs(t, i) \in AllTables
         /\ CreateJobs(t, i, v) \in AllTables
<1> USE DEF AllTables, Tables
<1>1. CreateStream(t, i, n, v) \in AllTables
  BY DEF CreateStream
<1>2. UpdateStreamRow(t, i, v) \in AllTables
  <2>1. \A r \in t.rows : [r EXCEPT !.ver = v] \in [id : Ids, name : Name, ver : Version]
    OBVIOUS
  <2>2. {IF r.id = i THEN [r EXCEPT !.ver = v] ELSE r : r \in t.rows}
          \subseteq [id : Ids, name : Name, ver : Version]
    BY <2>1
  <2> QED
    BY <2>2 DEF UpdateStreamRow
<1>3. DeleteStream(t, n) \in AllTables
  BY DEF DeleteStream
<1>4. DeleteJobs(t, i) \in AllTables
  BY DEF DeleteJobs
<1>5. CreateJobs(t, i, v) \in AllTables
  BY DEF CreateJobs
<1> QED
  BY <1>1, <1>2, <1>3, <1>4, <1>5

\* At most one transaction is open, and none when the mutex is free.
LEMMA Alone ==
  ASSUME DbInv, NEW r \in Request, Open(r) \/ mutex = None, NEW q \in Request, q # r
  PROVE  ~Open(q)
BY RegistryAssumption DEF DbInv, Local

\* A request that is not in a transaction does not mind another's.
LEMMA Others ==
  ASSUME DbInv, NEW q \in Request, ~Open(q),
         pc'[q] = pc[q], seen'[q] = seen[q], asks' = asks,
         pc[q] = "begin" /\ q \notin overtaken'
           => q \notin overtaken /\ Named(db', asks[q].name) = Named(db, asks[q].name)
  PROVE  Local(q)'
<1>1. ~Open(q)' /\ Local(q)
  BY DEF DbInv, Open
<1> QED
  BY <1>1 DEF Local, Open

LEMMA BeginInv ==
  ASSUME DbInv, NEW r \in Request, Begin(r)
  PROVE  DbInv'
<1>1. queries = None
  BY RegistryAssumption DEF Begin, DbInv, DbType, Home, Local
<1>2. DbType'
  BY DEF Begin, Goto, DbInv, DbType, history
<1>3. Home'
  BY DEF Begin, Goto, DbInv, DbType, Home, Open
<1>4. ASSUME NEW q \in Request
      PROVE  Local(q)'
  <2>1. CASE q = r
    <3>1. pc'[r] = "row" /\ mutex' = r /\ queries' = r /\ handle'[r] = None
          /\ tx'[r] = db' /\ seen'[r] = seen[r] /\ UNCHANGED <<asks, db, overtaken>>
      BY <1>1 DEF Begin, Goto, DbInv, DbType, history
    <3>2. pc[r] = "begin" /\ Local(r)
      BY DEF Begin, DbInv
    <3> QED
      BY <2>1, <3>1, <3>2 DEF Local, Open
  <2>2. CASE q # r
    BY <2>2, Alone, Others DEF Begin, Goto, DbInv, DbType, history
  <2> QED
    BY <2>1, <2>2
<1> QED
  BY <1>2, <1>3, <1>4 DEF DbInv

LEMMA BeginFailsInv ==
  ASSUME DbInv, NEW r \in Request, BeginFails(r)
  PROVE  DbInv'
<1>1. queries = None
  BY RegistryAssumption DEF BeginFails, DbInv, DbType, Home, Local
<1>2. DbType'
  BY DEF BeginFails, Goto, DbInv, DbType
<1>3. Home'
  BY <1>1 DEF BeginFails, Home
<1>4. ASSUME NEW q \in Request
      PROVE  Local(q)'
  <2>1. CASE q = r
    BY <2>1 DEF BeginFails, Goto, DbInv, DbType, Local, Open
  <2>2. CASE q # r
    BY <2>2, Alone, Others DEF BeginFails, Goto, DbInv, DbType
  <2> QED
    BY <2>1, <2>2
<1> QED
  BY <1>2, <1>3, <1>4 DEF DbInv

\* Common to the statements: the transaction stays open and nothing else changes.
LEMMA StatementInv ==
  ASSUME DbInv, NEW r \in Request, Open(r),
         NEW l \in {"jobs", "commit"}, Goto(r, l),
         NEW t \in AllTables, tx' = [tx EXCEPT ![r] = t],
         NEW i \in Ids, seen' = [seen EXCEPT ![r] = i],
         UNCHANGED <<asks, db, mutex, queries, handle, overtaken>>,
         l = "jobs" => RowWritten(r, t)',
         l = "commit" => \E u \in AllTables : RowWritten(r, u)' /\ t = JobsWritten(r, u)'
  PROVE  DbInv'
<1>1. DbType'
  BY DEF Goto, DbInv, DbType
<1>2. Home'
  BY DEF Goto, DbInv, DbType, Home, Open
<1>3. ASSUME NEW q \in Request
      PROVE  Local(q)'
  <2>1. CASE q = r
    <3>1. pc'[r] = l /\ tx'[r] = t /\ seen'[r] = i /\ handle'[r] = None
          /\ mutex' = r /\ queries' = r
      BY DEF Goto, DbInv, DbType, Local
    <3>2. CASE l = "jobs"
      BY <2>1, <3>1, <3>2 DEF Local, Open
    <3>3. CASE l = "commit"
      BY <2>1, <3>1, <3>3 DEF Local, Open
    <3> QED
      BY <3>2, <3>3
  <2>2. CASE q # r
    BY <2>2, Alone, Others DEF Goto, DbInv, DbType
  <2> QED
    BY <2>1, <2>2
<1> QED
  BY <1>1, <1>2, <1>3 DEF DbInv

LEMMA CreateRowInv ==
  ASSUME DbInv, NEW r \in Request, CreateRow(r)
  PROVE  DbInv'
<1>1. PICK i \in Ids : /\ NextId(tx[r], i)
                       /\ tx' = [tx EXCEPT ![r] = CreateStream(@, i, asks[r].name, r)]
                       /\ seen' = [seen EXCEPT ![r] = i]
  BY DEF CreateRow, Ids
<1>2. Open(r) /\ tx[r] = db /\ Goto(r, "jobs") /\ asks[r].kind = "apply"
      /\ UNCHANGED <<asks, db, mutex, queries, handle, overtaken>>
  BY DEF CreateRow, Open, DbInv, Local, history
<1>3. r \in Version /\ asks[r].name \in Name /\ db \in AllTables /\ seen'[r] = i
  BY <1>1 DEF Version, DbInv, DbType
<1>4. PICK t \in AllTables : t = CreateStream(db, i, asks[r].name, r)
  BY <1>3, TablesClosed
<1>5. tx' = [tx EXCEPT ![r] = t]
  BY <1>1, <1>2, <1>4
<1>6. \A q \in db.rows : q.name # asks[r].name
  BY <1>2 DEF CreateRow, Named
<1>7. \A q \in db.rows : q.id # i
  BY <1>1, <1>2, <1>3 DEF NextId, Ids, AllTables, Tables
<1>8. RowWritten(r, t)'
  BY <1>2, <1>3, <1>4, <1>6, <1>7 DEF RowWritten
<1> QED
  BY <1>1, <1>2, <1>4, <1>5, <1>8, StatementInv

LEMMA UpdateRowInv ==
  ASSUME DbInv, NEW r \in Request, UpdateRow(r)
  PROVE  DbInv'
<1>1. Open(r) /\ tx[r] = db /\ Goto(r, "jobs") /\ asks[r].kind = "apply"
      /\ UNCHANGED <<asks, db, mutex, queries, handle, seen, overtaken>>
  BY DEF UpdateRow, Open, DbInv, Local, history
<1>2. PICK i \in Ids : i = seen[r]
  BY DEF UpdateRow, DbInv, DbType
<1>3. r \in Version /\ asks[r].name \in Name /\ db \in AllTables
  BY DEF Version, DbInv, DbType
<1>4. PICK t \in AllTables : t = UpdateStreamRow(db, i, r)
  BY <1>2, <1>3, TablesClosed
<1>5. tx' = [tx EXCEPT ![r] = t] /\ seen' = [seen EXCEPT ![r] = i]
  BY <1>1, <1>2, <1>4 DEF UpdateRow, DbInv, DbType
<1>6. \E q \in db.rows : q.id = i /\ (q.name = asks[r].name \/ r \in overtaken)
  <2>1. r \notin overtaken => Finds(Named(db, asks[r].name), i)
    BY <1>2 DEF UpdateRow, DbInv, Local
  <2> QED
    BY <1>1, <1>2, <2>1 DEF UpdateRow, Finds, Named
<1>7. RowWritten(r, t)'
  BY <1>1, <1>2, <1>4, <1>5, <1>6 DEF RowWritten, DbInv, DbType
<1> QED
  BY <1>1, <1>2, <1>4, <1>5, <1>7, StatementInv

LEMMA DeleteRowInv ==
  ASSUME DbInv, NEW r \in Request, DeleteRow(r)
  PROVE  DbInv'
<1>1. Open(r) /\ tx[r] = db /\ Goto(r, "jobs") /\ asks[r].kind = "remove"
      /\ UNCHANGED <<asks, db, mutex, queries, handle, seen, overtaken>>
  BY DEF DeleteRow, Open, DbInv, Local, history
<1>2. PICK i \in Ids : i = seen[r]
  BY DEF DeleteRow, DbInv, Local
<1>3. r \in Version /\ asks[r].name \in Name /\ db \in AllTables
  BY DEF Version, DbInv, DbType
<1>4. PICK t \in AllTables : t = DeleteStream(db, asks[r].name)
  BY <1>2, <1>3, TablesClosed
<1>5. tx' = [tx EXCEPT ![r] = t] /\ seen' = [seen EXCEPT ![r] = i]
  BY <1>1, <1>2, <1>4 DEF DeleteRow, DbInv, DbType
<1>6. r \in overtaken \/ \E q \in db.rows : q.name = asks[r].name /\ q.id = i
  <2>1. r \notin overtaken => Finds(Named(db, asks[r].name), i)
    BY <1>2 DEF DeleteRow, DbInv, Local
  <2> QED
    BY <1>2, <2>1 DEF Finds, Named, Ids
<1>7. RowWritten(r, t)'
  BY <1>1, <1>2, <1>4, <1>5, <1>6 DEF RowWritten, DbInv, DbType
<1> QED
  BY <1>1, <1>2, <1>4, <1>5, <1>7, StatementInv

LEMMA WriteJobsInv ==
  ASSUME DbInv, NEW r \in Request, WriteJobs(r)
  PROVE  DbInv'
<1>1. Open(r) /\ Goto(r, "commit") /\ UNCHANGED <<asks, db, mutex, queries, handle, seen, overtaken>>
  BY DEF WriteJobs, Open, history
<1>2. PICK i \in Ids, u \in AllTables : i = seen[r] /\ u = tx[r] /\ RowWritten(r, u)
  BY DEF WriteJobs, DbInv, Local
<1>3. r \in Version /\ asks[r].name \in Name
  BY DEF Version, DbInv, DbType
<1>4. PICK t \in AllTables : t = JobsWritten(r, u)
  BY <1>2, <1>3, TablesClosed DEF JobsWritten
<1>5. tx' = [tx EXCEPT ![r] = t] /\ seen' = [seen EXCEPT ![r] = i]
  BY <1>1, <1>2, <1>4 DEF WriteJobs, JobsWritten, DbInv, DbType
<1>6. RowWritten(r, u)' /\ t = JobsWritten(r, u)'
  BY <1>1, <1>2, <1>4 DEF RowWritten, JobsWritten
<1> QED
  BY <1>1, <1>2, <1>4, <1>5, <1>6, StatementInv

LEMMA ReleaseInv ==
  ASSUME DbInv, NEW r \in Request, Open(r), Release(r), asks' = asks, db' \in AllTables,
         overtaken' \subseteq Request,
         \A q \in Request : q # r /\ pc[q] = "begin" /\ q \notin overtaken'
           => q \notin overtaken /\ Named(db', asks[q].name) = Named(db, asks[q].name)
  PROVE  DbInv'
<1>1. handle[r] = None /\ queries' = None
  BY DEF Release, DbInv, Local
<1>2. DbType'
  BY <1>1 DEF Release, Goto, DbInv, DbType
<1>3. Home'
  BY <1>1 DEF Home
<1>4. ASSUME NEW q \in Request
      PROVE  Local(q)'
  <2>1. CASE q = r
    BY <2>1 DEF Release, Goto, DbInv, DbType, Local, Open
  <2>2. CASE q # r
    BY <2>2, Alone, Others DEF Release, Goto, DbInv, DbType
  <2> QED
    BY <2>1, <2>2
<1> QED
  BY <1>2, <1>3, <1>4 DEF DbInv

LEMMA TransactInv ==
  ASSUME DbInv, NEW r \in Request, Transact(r)
  PROVE  DbInv'
<1>1. CASE Commit(r)
  <2>1. Open(r) /\ Release(r) /\ asks' = asks /\ db' \in AllTables
    BY <1>1 DEF Commit, Open, DbInv, Local
  <2>2. overtaken' \subseteq Request
    BY <1>1 DEF Commit, Passed, DbInv, DbType
  <2>3. \A q \in Request : q # r /\ pc[q] = "begin" /\ q \notin overtaken'
          => q \notin overtaken /\ Named(db', asks[q].name) = Named(db, asks[q].name)
    BY <1>1 DEF Commit, Passed
  <2> QED
    BY <2>1, <2>2, <2>3, ReleaseInv
<1>2. CASE Abort(r)
  <2>1. Open(r) /\ Release(r) /\ asks' = asks /\ db' \in AllTables
    BY <1>2 DEF Abort, Open, DbInv, DbType
  <2>2. /\ overtaken' \subseteq Request
        /\ \A q \in Request : q # r /\ q \notin overtaken' => q \notin overtaken
        /\ db' = db
    BY <1>2 DEF Abort, DbInv, DbType
  <2> QED
    BY <2>1, <2>2, ReleaseInv
<1> QED
  BY <1>1, <1>2, BeginInv, BeginFailsInv, CreateRowInv, UpdateRowInv, DeleteRowInv, WriteJobsInv
     DEF Transact, WriteRow

-----------------------------------------------------------------------------
(* All steps.                                                              *)

\* A step of a client changes nothing the database layer looks at.
LEMMA ClientFrame ==
  ASSUME NEW c \in Client, ListBegin(c) \/ ListEnd(c) \/ Create(c)
  PROVE  UNCHANGED <<asks, pc, dbVars, overtaken>>
BY DEF ListBegin, ListEnd, Create, ReadRoad, ReadLevel, BuildBegin, BuildEnd, history

LEMMA NextInv ==
  ASSUME DbInv, [RegNext]_vars
  PROVE  DbInv'
<1>1. CASE UNCHANGED vars
  BY <1>1, Frame DEF vars, history
<1>2. ASSUME NEW r \in Request, Start(r) \/ Lookup(r) \/ Transact(r) \/ Publish(r)
      PROVE  DbInv'
  BY <1>2, StartInv, LookInv, PublishInv, TransactInv DEF Lookup
<1>3. ASSUME NEW c \in Client, ListBegin(c) \/ ListEnd(c) \/ Create(c)
      PROVE  DbInv'
  BY <1>3, ClientFrame, Frame
<1> QED
  BY <1>1, <1>2, <1>3 DEF RegNext

\* The commit is the request's change of the tables as they are.
LEMMA CommitRefines ==
  ASSUME DbInv, NEW r \in Request, Commit(r)
  PROVE  Store!StoreNext
<1> DEFINE n == asks[r].name
           i == seen[r]
<1>1. PICK t \in AllTables : RowWritten(r, t) /\ db' = JobsWritten(r, t)
  BY DEF Commit, DbInv, Local
<1>2. i \in 1..MaxId /\ n \in Name /\ asks[r].kind \in {"apply", "remove"}
  BY DEF Commit, DbInv, DbType, Local, Ids
<1>3. Store!Change(db')
  <2>1. UNCHANGED asks /\ db' = tx[r] /\ overtaken' \subseteq overtaken \cup Passed(tx[r])
    BY DEF Commit
  <2> QED
    BY <2>1 DEF Passed, Store!Change, Store!Named, Named
<1>4. CASE asks[r].kind = "remove"
  <2>1. /\ db' = DeleteJobs(DeleteStream(db, n), i)
        /\ r \in overtaken \/ \E q \in db.rows : q.name = n /\ q.id = i
    BY <1>1, <1>4 DEF RowWritten, JobsWritten
  <2>2. Store!Remove(r, i)
    BY <1>3, <1>4, <2>1
    DEF Store!Remove, Store!DeleteJobs, Store!DeleteStream, DeleteJobs, DeleteStream
  <2> QED
    BY <1>2, <2>2 DEF Store!StoreNext
<1>5. CASE asks[r].kind = "apply"
  <2>1. db' = CreateJobs(DeleteJobs(t, i), i, r)
    BY <1>1, <1>5 DEF JobsWritten
  <2>2. CASE t = CreateStream(db, i, n, r) /\ \A q \in db.rows : q.name # n /\ q.id # i
    <3>1. Store!Insert(r, i)
      BY <1>3, <1>5, <2>1, <2>2 DEF Store!Insert, Store!Configured, Store!CreateJobs, Store!DeleteJobs,
                        Store!CreateStream, CreateJobs, DeleteJobs, CreateStream
    <3> QED
      BY <1>2, <3>1 DEF Store!StoreNext
  <2>3. CASE /\ t = UpdateStreamRow(db, i, r)
             /\ \E q \in db.rows : q.id = i /\ (q.name = n \/ r \in overtaken)
    <3>1. PICK q \in db.rows : q.id = i /\ (q.name = n \/ r \in overtaken)
      BY <2>3
    <3>2. Store!Replace(r, q)
      BY <1>3, <1>5, <2>1, <2>3, <3>1
      DEF Store!Replace, Store!Configured, Store!CreateJobs, Store!DeleteJobs,
          Store!UpdateStreamRow, CreateJobs, DeleteJobs, UpdateStreamRow
    <3> QED
      BY <3>2 DEF Store!StoreNext
  <2> QED
    BY <1>1, <1>5, <2>2, <2>3 DEF RowWritten
<1> QED
  BY <1>2, <1>4, <1>5

\* The other steps leave the tables alone; one may be overtaken or end.
LEMMA NextRefines ==
  ASSUME DbInv, [RegNext]_vars
  PROVE  [Store!StoreNext]_Store!storeVars
<1> DEFINE Aside(r) == UNCHANGED <<db, asks>> /\ overtaken' \in {overtaken, overtaken \cup {r}, overtaken \ {r}}
<1>1. CASE UNCHANGED vars
  BY <1>1 DEF vars, dbVars, history, Store!storeVars
<1>2. ASSUME NEW r \in Request, Start(r) \/ Lookup(r) \/ Transact(r) \/ Publish(r)
      PROVE  [Store!StoreNext]_Store!storeVars
  <2>1. CASE Commit(r)
    BY <2>1, CommitRefines
  <2>2. CASE Start(r) \/ Lookup(r) \/ Publish(r)
    <3>1. Aside(r)
      BY <2>2 DEF Start, Lookup, Look, LookFails, Publish, UpdateRegistry, LoadStream,
                SwapRoads, SwapLevels, dbVars, history
    <3> QED
      BY <3>1 DEF Store!StoreNext, Store!Look, Store!storeVars
  <2>3. CASE Begin(r) \/ BeginFails(r) \/ WriteRow(r) \/ WriteJobs(r) \/ Abort(r)
    <3>1. Aside(r)
      BY <2>3 DEF Begin, BeginFails, WriteRow, CreateRow, UpdateRow, DeleteRow, WriteJobs, Abort, history
    <3> QED
      BY <3>1 DEF Store!StoreNext, Store!Look, Store!storeVars
  <2> QED
    BY <1>2, <2>1, <2>2, <2>3 DEF Transact
<1>3. ASSUME NEW c \in Client, ListBegin(c) \/ ListEnd(c) \/ Create(c)
      PROVE  UNCHANGED <<db, asks, overtaken>>
  BY <1>3, ClientFrame DEF dbVars
<1> QED
  BY <1>1, <1>2, <1>3 DEF RegNext, Store!storeVars

THEOREM RegDbInv == RegSpec => []DbInv
BY InitInv, NextInv, PTL DEF RegSpec

\* With any number of requests, whatever ids are reused and whatever fails, every
\* change of the tables is of the tables as they are, and that of a request nobody
\* overtook is of the whole configuration of the stream it asked for and of nothing
\* else (apply.go:16-140).
THEOREM RegFollowsStore == RegSpec => FollowsStore
<1>1. RegInit => Store!StoreInit
  BY InitInv
<1> QED
  BY <1>1, RegDbInv, NextRefines, PTL DEF RegSpec, FollowsStore, Store!StoreSpec

\* A transaction's queries never outlive it as the global ones
\* (transactions.go:29-39).
THEOREM RegHandleAtHome == RegSpec => []HandleAtHome
<1>1. DbInv => HandleAtHome
  BY RegistryAssumption DEF DbInv, DbType, Home, Local, HandleAtHome
<1> QED
  BY <1>1, RegDbInv, PTL

-----------------------------------------------------------------------------
(* A store that changes as StreamStore says never mixes two                *)
(* configurations.  The ids of rows have to be unique for that, so Keyed   *)
(* is part of what it keeps.                                               *)

StoreInv == db \in AllTables /\ WholeStreams

AsksType == asks \in [Request -> [kind : {"apply", "remove"}, name : Name]]

\* A configuration for stream i, whose earlier jobs go.
Configured(t, i, v) == CreateJobs(DeleteJobs(t, i), i, v)

\* The jobs of stream i after Configured are of version v, the others as before.
LEMMA JobsConfigured ==
  ASSUME NEW t \in AllTables, NEW i \in Ids, NEW v \in Version
  PROVE  /\ Configured(t, i, v) \in AllTables
         /\ Configured(t, i, v).rows = t.rows
         /\ \A j \in Configured(t, i, v).jobs :
              IF j.stream = i THEN j.ver = v ELSE j \in t.jobs
<1> DEFINE new == [stream |-> i, ver |-> v]
           kept == {j \in t.jobs : j.stream # i}
<1>1. t = [rows |-> t.rows, jobs |-> t.jobs] /\ t.jobs \subseteq [stream : Ids, ver : Version]
      /\ t.rows \subseteq [id : Ids, name : Name, ver : Version]
  BY DEF AllTables, Tables
<1>2. DeleteJobs(t, i) = [rows |-> t.rows, jobs |-> kept]
  <2>1. DeleteJobs(t, i) = [t EXCEPT !.jobs = kept]
    BY DEF DeleteJobs
  <2> HIDE DEF kept
  <2> QED
    BY <1>1, <2>1
<1>3. Configured(t, i, v) = [rows |-> t.rows, jobs |-> kept \cup {new}]
  <2>1. Configured(t, i, v) = [DeleteJobs(t, i) EXCEPT !.jobs = DeleteJobs(t, i).jobs \cup {new}]
    BY DEF Configured, CreateJobs
  <2>2. DeleteJobs(t, i).jobs = kept
    BY <1>2
  <2> HIDE DEF new, kept
  <2> QED
    BY <1>2, <2>1, <2>2
<1>4. new \in [stream : Ids, ver : Version]
  OBVIOUS
<1>5. kept \cup {new} \subseteq [stream : Ids, ver : Version]
  BY <1>1, <1>4
<1> QED
  BY <1>1, <1>3, <1>5 DEF AllTables, Tables

LEMMA InsertKeeps ==
  ASSUME StoreInv, NEW n \in Name, NEW i \in Ids, NEW v \in Version,
         \A r \in db.rows : r.name # n /\ r.id # i,
         db' = Configured(CreateStream(db, i, n, v), i, v)
  PROVE  StoreInv'
<1> DEFINE t == CreateStream(db, i, n, v)
<1>1. t \in AllTables /\ t.jobs = db.jobs
      /\ t.rows = db.rows \cup {[id |-> i, name |-> n, ver |-> v]}
  BY DEF StoreInv, CreateStream, AllTables, Tables
<1>2. \A r \in db.rows : r.name # n /\ r.id # i
  OBVIOUS
<1>3. Keyed(t)
  BY <1>1, <1>2 DEF StoreInv, WholeStreams, Store!NeverMixed, Store!Keyed, Keyed
<1>4. db' = Configured(t, i, v)
  OBVIOUS
<1> HIDE DEF t
<1>5. db' \in AllTables /\ db'.rows = t.rows
      /\ \A j \in db'.jobs : IF j.stream = i THEN j.ver = v ELSE j \in db.jobs
  BY <1>1, <1>4, JobsConfigured
<1>6. \A r \in db'.rows : \A j \in db'.jobs : j.stream = r.id => j.ver = r.ver
  BY <1>1, <1>2, <1>5 DEF StoreInv, WholeStreams, Store!NeverMixed, Store!Keyed, Keyed
<1>7. Keyed(db')
  BY <1>3, <1>5 DEF Keyed
<1> QED
  BY <1>5, <1>6, <1>7 DEF StoreInv, WholeStreams, Store!NeverMixed, Store!Keyed, Keyed

LEMMA ReplaceKeeps ==
  ASSUME StoreInv, NEW q \in db.rows, NEW v \in Version,
         db' = Configured(UpdateStreamRow(db, q.id, v), q.id, v)
  PROVE  StoreInv'
<1> DEFINE i == q.id
           t == UpdateStreamRow(db, i, v)
           put(r) == IF r.id = i THEN [r EXCEPT !.ver = v] ELSE r
<1>1. i \in Ids /\ \A r \in db.rows : r \in [id : Ids, name : Name, ver : Version]
  BY DEF StoreInv, AllTables, Tables
<1>2. t.jobs = db.jobs /\ t.rows = {put(r) : r \in db.rows}
  BY DEF UpdateStreamRow, StoreInv, AllTables, Tables
<1>3. \A r \in db.rows :
        /\ put(r) \in [id : Ids, name : Name, ver : Version]
        /\ put(r).id = r.id /\ put(r).name = r.name
        /\ put(r).ver = IF r.id = i THEN v ELSE r.ver
  BY <1>1
<1>4. t \in AllTables
  <2>1. t.rows \subseteq [id : Ids, name : Name, ver : Version]
    BY <1>2, <1>3
  <2>2. t = [rows |-> t.rows, jobs |-> db.jobs]
    BY DEF UpdateStreamRow, StoreInv, AllTables, Tables
  <2> QED
    BY <2>1, <2>2 DEF StoreInv, AllTables, Tables
<1>5. Keyed(t)
  <2> SUFFICES ASSUME NEW r \in db.rows, NEW s \in db.rows,
                      put(r).id = put(s).id \/ put(r).name = put(s).name
               PROVE  r = s
    <3> HIDE DEF put
    <3> QED
      BY <1>2 DEF Keyed
  <2> QED
    BY <1>3 DEF StoreInv, WholeStreams, Store!NeverMixed, Store!Keyed, Keyed
<1>6. db' = Configured(t, i, v)
  OBVIOUS
<1>7. \A r \in t.rows : IF r.id = i THEN r.ver = v ELSE r \in db.rows
  <2>1. \A r \in db.rows : r.id # i => put(r) = r
    OBVIOUS
  <2> HIDE DEF put
  <2> QED
    BY <1>2, <1>3, <2>1
<1> HIDE DEF t, put
<1>8. t.jobs = db.jobs /\ i \in Ids
  BY <1>1, <1>2
<1> HIDE DEF i
<1>9. db' \in AllTables /\ db'.rows = t.rows
      /\ \A j \in db'.jobs : IF j.stream = i THEN j.ver = v ELSE j \in db.jobs
  BY <1>8, <1>4, <1>6, JobsConfigured
<1>10. \A r \in db'.rows : \A j \in db'.jobs : j.stream = r.id => j.ver = r.ver
  BY <1>7, <1>9 DEF StoreInv, WholeStreams, Store!NeverMixed, Store!Keyed, Keyed
<1>11. Keyed(db')
  BY <1>5, <1>9 DEF Keyed
<1> QED
  BY <1>9, <1>10, <1>11 DEF StoreInv, WholeStreams, Store!NeverMixed, Store!Keyed, Keyed

LEMMA TakeKeeps ==
  ASSUME StoreInv, NEW n \in Name, NEW i \in Ids,
         db' = DeleteJobs(DeleteStream(db, n), i)
  PROVE  StoreInv'
<1>1. db' \in AllTables
      /\ db'.rows \subseteq db.rows /\ db'.jobs \subseteq db.jobs
  BY DEF StoreInv, DeleteJobs, DeleteStream, AllTables, Tables
<1> QED
  BY <1>1 DEF StoreInv, WholeStreams, Store!NeverMixed, Store!Keyed, Keyed

\* No stored stream ever has jobs of another configuration, and names and ids
\* stay unique, through any number of the changes StreamStore allows.
THEOREM StoreNeverMixed == FollowsStore => []WholeStreams
<1>1. Store!StoreInit => AsksType /\ StoreInv
  BY DEF Store!StoreInit, AsksType, StoreInv, WholeStreams, Store!NeverMixed, Store!Tables, Store!Version,
         Version, AllTables, Tables, Ids
<1>2. AsksType /\ StoreInv /\ [Store!StoreNext]_Store!storeVars => AsksType' /\ StoreInv'
  <2> SUFFICES ASSUME AsksType, StoreInv, [Store!StoreNext]_Store!storeVars
               PROVE  AsksType' /\ StoreInv'
    OBVIOUS
  <2> USE DEF Store!Configured, Store!CreateJobs, Store!DeleteJobs, Store!Change,
              Configured, CreateJobs, DeleteJobs
  <2>1. ASSUME NEW v \in Request, NEW i \in 1..MaxId, Store!Insert(v, i)
        PROVE  AsksType' /\ StoreInv'
    <3>1. i \in Ids /\ v \in Version /\ asks[v].name \in Name
      BY DEF AsksType, Version, Ids
    <3> QED
      BY <2>1, <3>1, InsertKeeps DEF Store!Insert, Store!CreateStream, CreateStream, AsksType
  <2>2. ASSUME NEW v \in Request, NEW q \in db.rows, Store!Replace(v, q)
        PROVE  AsksType' /\ StoreInv'
    <3>1. v \in Version
      BY DEF Version
    <3> QED
      BY <2>2, <3>1, ReplaceKeeps DEF Store!Replace, Store!UpdateStreamRow, UpdateStreamRow, AsksType
  <2>3. ASSUME NEW v \in Request, NEW i \in 1..MaxId, Store!Remove(v, i)
        PROVE  AsksType' /\ StoreInv'
    <3>1. i \in Ids /\ asks[v].name \in Name
      BY DEF AsksType, Ids
    <3> QED
      BY <2>3, <3>1, TakeKeeps DEF Store!Remove, Store!DeleteStream, DeleteStream, AsksType
  <2>4. CASE UNCHANGED <<db, asks>>
    BY <2>4 DEF AsksType, StoreInv, WholeStreams, Store!NeverMixed, Store!Keyed
  <2> QED
    BY <2>1, <2>2, <2>3, <2>4 DEF Store!StoreNext, Store!Look, Store!storeVars
<1>3. StoreInv => WholeStreams
  BY DEF StoreInv
<1> QED
  BY <1>1, <1>2, <1>3, PTL DEF FollowsStore, Store!StoreSpec

\* No stream has jobs of another configuration than its own: what StreamStore
\* is proved to keep, the tables keep (apply.go:43-60).
THEOREM RegWholeStreams == RegSpec => []WholeStreams
BY RegFollowsStore, StoreNeverMixed

-----------------------------------------------------------------------------
(* The types of the registry, the factory and the clients.                 *)

RestType ==
  /\ up \in BOOLEAN
  /\ streams \in Content
  /\ left \in [Request -> SUBSET Name]
  /\ maps \in [Version -> Content]
  /\ roads \in Version /\ levels \in Version
  /\ cpc \in [Client -> {"start", "listing", "road", "level", "build", "building",
                         "made", "unknown", "lost"}]
  /\ wanted \in [Client -> Name]
  /\ checked \in [Client -> Version \cup {None}]
  /\ built \in [Client -> Version \cup {None}]
  /\ gen \in [Client -> Version]

LEMMA InitRestType ==
  ASSUME RegInit
  PROVE  RestType
<1>1. db \in AllTables
  BY InitInv DEF DbInv, DbType
<1>2. Stored \in Content
  BY <1>1 DEF Stored, Content, Named, AllTables, Tables
<1>3. [n \in Name |-> None] \in Content
  BY DEF Content
<1>4. streams \in Content /\ maps \in [Version -> Content]
  BY <1>2, <1>3 DEF RegInit
<1> QED
  BY <1>4 DEF RegInit, RestType, Version

LEMMA NextRestType ==
  ASSUME DbType, RestType, [RegNext]_vars
  PROVE  RestType'
<1> USE DEF RestType
<1>1. CASE UNCHANGED <<up, regVars, clientVars>>
  BY <1>1 DEF regVars, clientVars
<1>2. ASSUME NEW r \in Request, UpdateRegistry(r)
      PROVE  RestType'
  <2>1. streams' \in Content
    BY <1>2 DEF UpdateRegistry, DbType, Content, Version
  <2>2. left' \in [Request -> SUBSET Name] /\ up' \in BOOLEAN
    BY <1>2 DEF UpdateRegistry
  <2> QED
    BY <1>2, <2>1, <2>2 DEF UpdateRegistry, clientVars
<1>3. ASSUME NEW r \in Request, NEW n \in Name, LoadStream(r, n)
      PROVE  RestType'
  <2>1. maps' = [maps EXCEPT ![r] = [maps[r] EXCEPT ![n] = streams[n]]]
    BY <1>3 DEF LoadStream
  <2>2. [maps[r] EXCEPT ![n] = streams[n]] \in Content
    BY DEF Content, Version
  <2>3. maps' \in [Version -> Content]
    BY <2>1, <2>2
  <2> QED
    BY <1>3, <2>3 DEF LoadStream, clientVars
<1>4. ASSUME NEW r \in Request, SwapRoads(r) \/ SwapLevels(r)
      PROVE  RestType'
  BY <1>4 DEF SwapRoads, SwapLevels, clientVars, Version
<1>5. ASSUME NEW c \in Client, ListBegin(c) \/ ListEnd(c) \/ Create(c)
      PROVE  RestType'
  <2>1. CASE ListBegin(c)
    BY <2>1 DEF ListBegin, CGoto, regVars
  <2>2. CASE ListEnd(c)
    <3>1. streams[wanted[c]] \in Version \cup {None}
      BY DEF Content
    <3> QED
      BY <2>2, <3>1 DEF ListEnd, CGoto, regVars
  <2>3. CASE ReadRoad(c)
    <3>1. maps[roads][Lower[wanted[c]]] \in Version \cup {None}
      BY RegistryAssumption DEF Content
    <3> QED
      BY <2>3, <3>1 DEF ReadRoad, CGoto, regVars
  <2>4. CASE ReadLevel(c) \/ BuildBegin(c) \/ BuildEnd(c)
    BY <2>4 DEF ReadLevel, BuildBegin, BuildEnd, CGoto, regVars
  <2> QED
    BY <1>5, <2>1, <2>2, <2>3, <2>4 DEF Create
<1>6. ASSUME NEW r \in Request, Start(r) \/ Lookup(r) \/ Transact(r)
      PROVE  UNCHANGED <<up, regVars, clientVars>>
  BY <1>6 DEF Start, Lookup, Look, LookFails, Transact, Begin, BeginFails, WriteRow, CreateRow,
              UpdateRow, DeleteRow, WriteJobs, Commit, Abort
<1> QED
  BY <1>1, <1>2, <1>3, <1>4, <1>5, <1>6 DEF RegNext, Publish, vars

\* Every variable keeps its type: no id beyond the bound, no version nobody gave.
THEOREM RegTypeCorrect == RegSpec => []RegTypeOK
<1>1. RegInit => RestType
  BY InitRestType
<1>2. DbInv /\ RestType /\ [RegNext]_vars => RestType'
  BY NextRestType DEF DbInv
<1>3. DbInv /\ RestType => RegTypeOK
  <2> SUFFICES ASSUME DbType, RestType
               PROVE  RegTypeOK
    BY DEF DbInv
  <2>1. \A r \in Request : tx[r] # None => tx[r] \in AllTables
    BY DEF DbType
  <2>2. seen \in [Request -> 0..MaxId]
    <3>1. Ids \cup {0} \subseteq 0..MaxId
      BY RegistryAssumption DEF Ids
    <3> QED
      BY <3>1 DEF DbType
  <2>3. {checked, built} \subseteq [Client -> Version \cup {None}]
    BY DEF RestType
  <2>4. {roads, levels} \subseteq Version
    BY DEF RestType
  <2> QED
    BY <2>1, <2>2, <2>3, <2>4, Zenon DEF DbType, RestType, RegTypeOK, AllTables, Ids
<1> QED
  BY <1>1, <1>2, <1>3, RegDbInv, PTL DEF RegSpec
-----------------------------------------------------------------------------
(* Requests that do not overlap.  While that holds, the stores hold the    *)
(* same thing but for the one request under way, and its place says how    *)
(* far it has taken its change.                                            *)

\* The registry made of the tables t, as Stored is of db.
VersionOf(rows) == IF rows = {} THEN None ELSE (CHOOSE q \in rows : TRUE).ver
ContentOf(t) == [n \in Name |-> VersionOf(Named(t, n))]

\* The registry after r's change of it.
Changed(r) == [streams EXCEPT ![asks[r].name] = IF asks[r].kind = "apply" THEN r ELSE None]

OneAtATime == \A q, r \in Request : Busy(q) /\ Busy(r) => q = r

\* The factory is behind the registry only between the change and the swap.
FactoryFollows ==
  /\ (\A r \in Request : pc[r] # "swapping") => roads = levels
  /\ (\A r \in Request : pc[r] \notin {"load", "swap"}) => maps[roads] = streams
  /\ \A r \in Request :
       /\ pc[r] = "load" => left[r] # {} /\ \A n \in Name \ left[r] : maps[r][n] = streams[n]
       /\ pc[r] = "swap" => maps[r] = streams
       /\ pc[r] = "swapping" => roads = r

\* The lookup's answer is that of the committed tables.
LookedUp(r) ==
  IF Named(db, asks[r].name) = {} THEN seen[r] = 0
  ELSE \E q \in Named(db, asks[r].name) : seen[r] = q.id

\* The registry is behind the tables only between the commit and the change.
RegistryFollows ==
  /\ (\A r \in Request : pc[r] # "registry") => streams = Stored
  /\ \A r \in Request :
       /\ pc[r] = "registry" => Stored = Changed(r)
       /\ pc[r] = "look" => handle[r] = None
       /\ pc[r] \in {"begin", "row"} => LookedUp(r)
       /\ pc[r] \in {"jobs", "commit"} => ContentOf(tx[r]) = Changed(r)

\* A client whom no request overlaps sees one registry and one factory.
Undisturbed(c) ==
  c \notin disturbed =>
    /\ Asking(c) => \A r \in Request : ~Busy(r)
    /\ cpc[c] \in {"road", "level", "build", "building"} =>
         checked[c] = streams[wanted[c]] /\ checked[c] # None
    /\ Lower[wanted[c]] = wanted[c] =>
         /\ cpc[c] # "lost"
         /\ cpc[c] \in {"level", "build", "building", "made"} => built[c] = checked[c]

InTurn ==
  apart =>
    /\ OneAtATime
    /\ FactoryFollows
    /\ faults = {} => RegistryFollows
    /\ \A c \in Client : Undisturbed(c)

-----------------------------------------------------------------------------
(* What the statements make of the registry read from the tables.          *)

\* Tables that differ in the rows of one name only.
LEMMA OneName ==
  ASSUME NEW t, NEW u, NEW n \in Name,
         \A m \in Name : m # n => Named(u, m) = Named(t, m)
  PROVE  ContentOf(u) = [ContentOf(t) EXCEPT ![n] = VersionOf(Named(u, n))]
BY DEF ContentOf

LEMMA VersionOfOne == VersionOf({}) = None /\ \A q : VersionOf({q}) = q.ver
<1>1. \A q : (CHOOSE p \in {q} : TRUE) = q
  OBVIOUS
<1> QED
  BY <1>1 DEF VersionOf

LEMMA ContentCreated ==
  ASSUME NEW t \in AllTables, NEW n \in Name, NEW i, NEW v, Named(t, n) = {}
  PROVE  ContentOf(CreateStream(t, i, n, v)) = [ContentOf(t) EXCEPT ![n] = v]
<1> DEFINE new == [id |-> i, name |-> n, ver |-> v]
           u == CreateStream(t, i, n, v)
<1>1. u.rows = t.rows \cup {new}
  BY DEF CreateStream, AllTables, Tables
<1>2. new.name = n /\ new.ver = v
  OBVIOUS
<1> HIDE DEF new, u
<1>3. \A m \in Name : m # n => Named(u, m) = Named(t, m)
  BY <1>1, <1>2 DEF Named
<1>4. VersionOf(Named(u, n)) = v
  <2>1. Named(u, n) = {new}
    BY <1>1, <1>2 DEF Named
  <2> QED
    BY <1>2, <2>1, VersionOfOne
<1> QED
  BY <1>3, <1>4, OneName DEF u

LEMMA ContentDeleted ==
  ASSUME NEW t \in AllTables, NEW n \in Name
  PROVE  ContentOf(DeleteStream(t, n)) = [ContentOf(t) EXCEPT ![n] = None]
<1> DEFINE u == DeleteStream(t, n)
<1>1. u.rows = {q \in t.rows : q.name # n}
  BY DEF DeleteStream, AllTables, Tables
<1> HIDE DEF u
<1>2. Named(u, n) = {} /\ \A m \in Name : m # n => Named(u, m) = Named(t, m)
  BY <1>1 DEF Named
<1> QED
  BY <1>2, OneName, VersionOfOne DEF u

\* The row of id i is the only one of the name n.
LEMMA ContentUpdated ==
  ASSUME NEW t \in AllTables, Keyed(t), NEW n \in Name, NEW v,
         NEW s \in Named(t, n)
  PROVE  ContentOf(UpdateStreamRow(t, s.id, v)) = [ContentOf(t) EXCEPT ![n] = v]
<1> DEFINE put(q) == IF q.id = s.id THEN [q EXCEPT !.ver = v] ELSE q
           u == UpdateStreamRow(t, s.id, v)
<1>1. u.rows = {put(q) : q \in t.rows}
  BY DEF UpdateStreamRow, AllTables, Tables
<1>2. s \in t.rows /\ s.name = n
  BY DEF Named
<1>3. \A q \in t.rows : q # s => put(q) = q /\ q.name # n
  BY <1>2 DEF Keyed
<1>4. put(s).name = n /\ put(s).ver = v
  BY <1>2 DEF AllTables, Tables
<1> HIDE DEF put, u
<1>5. VersionOf(Named(u, n)) = v
  <2>1. Named(u, n) = {put(s)}
    BY <1>1, <1>2, <1>3, <1>4 DEF Named
  <2> QED
    BY <1>4, <2>1, VersionOfOne
<1>6. \A m \in Name : m # n => Named(u, m) = Named(t, m)
  BY <1>1, <1>2, <1>3, <1>4 DEF Named
<1> QED
  BY <1>5, <1>6, OneName DEF u

\* The jobs do not count.
LEMMA ContentOfRows ==
  ASSUME NEW t, NEW u, t.rows = u.rows
  PROVE  ContentOf(t) = ContentOf(u)
BY DEF ContentOf, Named

LEMMA StoredIsContent == Stored = ContentOf(db)
BY DEF Stored, ContentOf, VersionOf

-----------------------------------------------------------------------------
(* The steps of a request.                                                 *)

InTables == {"look", "begin", "row", "jobs", "commit", "registry"}

\* A step of the database layer leaves the factory and the registry alone.
LEMMA TablesStepFactory ==
  ASSUME DbType, NEW r \in Request, OneAtATime, FactoryFollows,
         pc[r] \in InTables, NEW l \in InTables, Goto(r, l), UNCHANGED regVars
  PROVE  OneAtATime' /\ FactoryFollows'
<1>1. pc' = [pc EXCEPT ![r] = l]
  BY DEF Goto
<1>2. \A q \in Request : q # r => pc'[q] = pc[q]
  BY <1>1 DEF DbType
<1>3. pc'[r] = l
  BY <1>1 DEF DbType
<1>4. OneAtATime'
  BY <1>2, <1>3 DEF OneAtATime, Busy, InTables
<1>5. FactoryFollows'
  BY <1>2, <1>3 DEF FactoryFollows, regVars, InTables
<1> QED
  BY <1>4, <1>5

\* Who is not r is not under way, and r's step does not change that.
LEMMA OnlyOne ==
  ASSUME OneAtATime, NEW r \in Request, Busy(r), NEW q \in Request, q # r
  PROVE  pc[q] \in {"start", "over"}
BY DEF OneAtATime, Busy

LEMMA TablesStepRegistry ==
  ASSUME DbInv, WholeStreams, RestType, OneAtATime, RegistryFollows,
         NEW r \in Request, Lookup(r) \/ Transact(r), faults' = {}
  PROVE  RegistryFollows'
<1> DEFINE n == asks[r].name
<1>1. streams' = streams /\ asks' = asks /\ pc[r] \in InTables
      /\ n \in Name /\ db \in AllTables /\ r \in Version /\ r # None /\ Keyed(db)
      /\ asks[r].kind \in {"apply", "remove"}
  BY RegistryAssumption DEF Lookup, Look, LookFails, Transact, Begin, BeginFails, WriteRow, CreateRow,
     UpdateRow, DeleteRow, WriteJobs, Commit, Abort, Release, regVars, InTables, Version, DbInv, DbType,
     WholeStreams, Store!NeverMixed, Store!Keyed, Keyed
<1>2. Busy(r) /\ \A q \in Request : q # r => pc[q] \in {"start", "over"}
  BY <1>1, OnlyOne DEF Busy, InTables
<1>3. ASSUME NEW l \in InTables, Goto(r, l)
      PROVE  pc'[r] = l /\ \A q \in Request : q # r => pc'[q] \in {"start", "over"}
  BY <1>2, <1>3 DEF Goto, DbInv, DbType
<1>4. Changed(r)' = Changed(r) /\ Stored = ContentOf(db)
  BY <1>1, StoredIsContent DEF Changed
<1>5. CASE Look(r)
  <2>1. Seen(handle[r]) = db
    BY <1>5 DEF Look, Seen, RegistryFollows
  <2>2. UNCHANGED <<db, tx, handle>>
    BY <1>5 DEF Look
  <2>3. LookedUp(r)'
    <3>1. seen'[r] = IF Named(db, n) = {} THEN 0 ELSE (CHOOSE s \in Named(db, n) : TRUE).id
      BY <1>5, <2>1 DEF Look, DbInv, DbType
    <3> QED
      BY <1>1, <2>2, <3>1 DEF LookedUp
  <2>4. streams = Stored
    BY <1>2, <1>5 DEF RegistryFollows, Look
  <2>5. CASE Named(db, n) = {} /\ asks[r].kind = "remove"
    <3>1. Goto(r, "registry")
      BY <1>5, <2>1, <2>5 DEF Look
    <3>2. streams[n] = None
      BY <1>1, <2>4, <2>5 DEF Stored
    <3>3. Changed(r) = streams
      BY <1>1, <2>5, <3>2 DEF Changed, RestType, Content
    <3>4. pc'[r] = "registry" /\ Stored' = Stored
      BY <1>3, <2>2, <3>1 DEF InTables, Stored
    <3> QED
      BY <1>1, <1>3, <1>4, <2>4, <3>1, <3>3, <3>4 DEF RegistryFollows, InTables
  <2>6. CASE ~(Named(db, n) = {} /\ asks[r].kind = "remove")
    <3>1. Goto(r, "begin")
      BY <1>5, <2>1, <2>6 DEF Look
    <3>2. pc'[r] = "begin" /\ Stored' = Stored
      BY <1>3, <2>2, <3>1 DEF InTables, Stored
    <3> QED
      BY <1>1, <1>3, <2>3, <2>4, <3>1, <3>2 DEF RegistryFollows, InTables
  <2> QED
    BY <2>5, <2>6
<1>6. CASE Begin(r)
  <2>1. pc[r] = "begin" /\ Goto(r, "row") /\ UNCHANGED <<db, seen>>
    BY <1>6 DEF Begin
  <2>2. pc'[r] = "row" /\ Stored' = Stored
    BY <1>3, <2>1 DEF InTables, Stored
  <2>3. LookedUp(r)'
    BY <1>1, <2>1 DEF RegistryFollows, LookedUp
  <2> QED
    BY <1>1, <1>2, <1>3, <2>1, <2>2, <2>3 DEF RegistryFollows, Begin, InTables
<1>7. CASE WriteRow(r)
  <2>1. pc[r] = "row" /\ Goto(r, "jobs") /\ db' = db /\ tx[r] = db /\ LookedUp(r)
    BY <1>7 DEF WriteRow, CreateRow, UpdateRow, DeleteRow, DbInv, Local, RegistryFollows
  <2>2. pc'[r] = "jobs" /\ Stored' = Stored /\ streams = Stored
    BY <1>2, <1>3, <2>1 DEF InTables, Stored, RegistryFollows
  <2>3. ASSUME CreateRow(r)
        PROVE  ContentOf(tx'[r]) = Changed(r)
    <3>1. PICK i \in Ids : tx' = [tx EXCEPT ![r] = CreateStream(@, i, n, r)]
      BY <2>3 DEF CreateRow, Ids
    <3>2. tx'[r] = CreateStream(db, i, n, r) /\ Named(db, n) = {} /\ asks[r].kind = "apply"
      BY <2>1, <2>3, <3>1 DEF CreateRow, DbInv, DbType
    <3> QED
      BY <1>1, <1>4, <2>2, <3>2, ContentCreated DEF Changed
  <2>4. ASSUME UpdateRow(r)
        PROVE  ContentOf(tx'[r]) = Changed(r)
    <3>1. seen[r] # 0 /\ asks[r].kind = "apply"
      BY <2>4 DEF UpdateRow
    <3>2. PICK s \in Named(db, n) : seen[r] = s.id
      BY <2>1, <3>1 DEF LookedUp
    <3>3. tx'[r] = UpdateStreamRow(db, s.id, r)
      BY <2>1, <2>4, <3>2 DEF UpdateRow, DbInv, DbType
    <3> QED
      BY <1>1, <1>4, <2>2, <3>1, <3>2, <3>3, ContentUpdated DEF Changed
  <2>5. ASSUME DeleteRow(r)
        PROVE  ContentOf(tx'[r]) = Changed(r)
    <3>1. tx'[r] = DeleteStream(db, n) /\ asks[r].kind = "remove"
      BY <2>1, <2>5 DEF DeleteRow, DbInv, DbType
    <3> QED
      BY <1>1, <1>4, <2>2, <3>1, ContentDeleted DEF Changed
  <2>6. ContentOf(tx'[r]) = Changed(r)
    BY <1>7, <2>3, <2>4, <2>5 DEF WriteRow
  <2> QED
    BY <1>1, <1>3, <1>4, <2>1, <2>2, <2>6 DEF RegistryFollows, InTables, ContentOf, Named
<1>8. CASE WriteJobs(r)
  <2>1. pc[r] = "jobs" /\ Goto(r, "commit") /\ db' = db /\ tx[r] \in AllTables
    BY <1>8 DEF WriteJobs, DbInv, Local
  <2>2. pc'[r] = "commit" /\ Stored' = Stored /\ streams = Stored
    BY <1>2, <1>3, <2>1 DEF InTables, Stored, RegistryFollows
  <2>3. tx'[r] = JobsWritten(r, tx[r])
    BY <1>1, <1>8 DEF WriteJobs, JobsWritten, DbInv, DbType
  <2>4. tx'[r].rows = tx[r].rows
    BY <2>1, <2>3 DEF JobsWritten, CreateJobs, DeleteJobs, AllTables, Tables
  <2>5. ContentOf(tx'[r]) = Changed(r)
    BY <2>1, <2>4, ContentOfRows DEF RegistryFollows
  <2> QED
    BY <1>1, <1>3, <1>4, <2>1, <2>2, <2>5 DEF RegistryFollows, InTables, ContentOf, Named
<1>9. CASE Commit(r)
  <2>1. pc[r] = "commit" /\ Goto(r, "registry") /\ db' = tx[r]
    BY <1>9 DEF Commit, Release
  <2>2. Stored' = Changed(r)
    BY <2>1 DEF RegistryFollows, Stored, ContentOf, VersionOf
  <2>3. pc'[r] = "registry"
    BY <1>3, <2>1 DEF InTables
  <2> QED
    BY <1>3, <1>4, <2>1, <2>2, <2>3 DEF RegistryFollows, InTables
<1>10. CASE LookFails(r) \/ BeginFails(r) \/ Abort(r)
  BY <1>10 DEF LookFails, BeginFails, Abort
<1> QED
  BY <1>5, <1>6, <1>7, <1>8, <1>9, <1>10 DEF Lookup, Transact

LEMMA TablesStepUnchanged ==
  ASSUME DbInv, NEW r \in Request, Lookup(r) \/ Transact(r)
  PROVE  /\ UNCHANGED <<regVars, clientVars, apart, disturbed>>
         /\ faults' = {} => faults = {}
         /\ pc[r] \in InTables
         /\ \E l \in InTables : Goto(r, l)
<1> USE DEF InTables
<1>1. CASE Lookup(r)
  BY <1>1 DEF Lookup, Look, LookFails, history
<1>2. CASE Begin(r) \/ BeginFails(r) \/ WriteRow(r) \/ WriteJobs(r)
  BY <1>2 DEF Begin, BeginFails, WriteRow, CreateRow, UpdateRow, DeleteRow, WriteJobs, history
<1>3. CASE Commit(r) \/ Abort(r)
  BY <1>3 DEF Commit, Abort, Release, history
<1> QED
  BY <1>1, <1>2, <1>3 DEF Transact

\* A request under way has disturbed whoever is asking.
LEMMA BusyStepClients ==
  ASSUME NEW r \in Request, Busy(r), NEW c \in Client, Undisturbed(c),
         UNCHANGED <<clientVars, disturbed>>
  PROVE  Undisturbed(c)'
BY DEF Undisturbed, Asking, clientVars

LEMMA StartInTurn ==
  ASSUME DbInv, RestType, InTurn, NEW r \in Request, Start(r)
  PROVE  InTurn'
<1> SUFFICES ASSUME apart'
             PROVE  InTurn'
  BY DEF InTurn
<1>1. apart /\ (\A q \in Request : ~Busy(q)) /\ pc' = [pc EXCEPT ![r] = "look"]
      /\ UNCHANGED <<asks, db, tx, queries, seen, streams, left, maps, roads, levels, clientVars, faults>>
  BY DEF Start, Goto, regVars
<1>2. pc'[r] = "look" /\ (\A q \in Request : pc[q] \in {"start", "over"})
      /\ \A q \in Request : q # r => pc'[q] \in {"start", "over"}
  BY <1>1 DEF DbInv, DbType, Busy
<1>3. OneAtATime'
  BY <1>2 DEF OneAtATime, Busy
<1>4. FactoryFollows'
  BY <1>1, <1>2 DEF InTurn, FactoryFollows
<1>5. ASSUME faults' = {}
      PROVE  RegistryFollows'
  <2>1. handle'[r] = None
    BY <1>2 DEF Start, DbInv, DbType, Home, Open
  <2>2. streams' = Stored'
    BY <1>1, <1>2, <1>5 DEF InTurn, RegistryFollows, Stored
  <2> QED
    BY <1>2, <2>1, <2>2 DEF RegistryFollows
<1>6. ASSUME NEW c \in Client
      PROVE  Undisturbed(c)'
  <2>1. c \notin disturbed' => c \notin disturbed /\ ~Asking(c)
    BY DEF Start
  <2> QED
    BY <1>1, <2>1 DEF InTurn, Undisturbed, Asking, clientVars
<1> QED
  BY <1>3, <1>4, <1>5, <1>6 DEF InTurn

LEMMA TablesInTurn ==
  ASSUME DbInv, WholeStreams, RestType, InTurn, NEW r \in Request, Lookup(r) \/ Transact(r)
  PROVE  InTurn'
<1> SUFFICES ASSUME apart'
             PROVE  InTurn'
  BY DEF InTurn
<1>1. /\ UNCHANGED <<regVars, clientVars, apart, disturbed>>
      /\ faults' = {} => faults = {}
      /\ pc[r] \in InTables
      /\ \E l \in InTables : Goto(r, l)
  BY TablesStepUnchanged
<1>2. OneAtATime /\ FactoryFollows /\ Busy(r)
  BY <1>1 DEF InTurn, InTables, Busy
<1>3. OneAtATime' /\ FactoryFollows'
  BY <1>1, <1>2, TablesStepFactory DEF DbInv
<1>4. faults' = {} => RegistryFollows'
  BY <1>1, <1>2, TablesStepRegistry DEF InTurn
<1>5. \A c \in Client : Undisturbed(c)'
  BY <1>1, <1>2, BusyStepClients DEF InTurn
<1> QED
  BY <1>3, <1>4, <1>5 DEF InTurn

LEMMA PublishInTurn ==
  ASSUME DbInv, RestType, InTurn, NEW r \in Request, Publish(r)
  PROVE  InTurn'
<1> SUFFICES ASSUME apart'
             PROVE  InTurn'
  BY DEF InTurn
<1>1. UNCHANGED <<asks, dbVars, clientVars, history>>
      /\ Busy(r) /\ pc[r] \in {"registry", "load", "swap", "swapping"}
  BY DEF Publish, UpdateRegistry, LoadStream, SwapRoads, SwapLevels, Busy
<1>2. OneAtATime /\ FactoryFollows /\ \A q \in Request : q # r => pc[q] \in {"start", "over"}
  BY <1>1, OnlyOne DEF InTurn, history
<1>3. PICK l \in {"load", "swap", "swapping", "over"} : Goto(r, l)
  BY DEF Publish, UpdateRegistry, LoadStream, SwapRoads, SwapLevels
<1>4. pc'[r] = l /\ \A q \in Request : q # r => pc'[q] \in {"start", "over"}
  BY <1>2, <1>3 DEF Goto, DbInv, DbType
<1>5. OneAtATime'
  BY <1>4 DEF OneAtATime, Busy
<1>6. FactoryFollows'
  <2>1. CASE UpdateRegistry(r)
    <3>1. pc'[r] = "load" /\ left'[r] = Name /\ Name # {}
          /\ UNCHANGED <<maps, roads, levels>> /\ pc[r] = "registry"
      BY <2>1 DEF UpdateRegistry, Goto, DbInv, DbType, RestType
    <3> QED
      BY <1>2, <1>4, <3>1 DEF FactoryFollows
  <2>2. ASSUME NEW n \in Name, LoadStream(r, n)
        PROVE  FactoryFollows'
    <3>1. pc[r] = "load" /\ left'[r] = left[r] \ {n} /\ maps'[r] = [maps[r] EXCEPT ![n] = streams[n]]
          /\ UNCHANGED <<streams, roads, levels>>
          /\ pc'[r] = IF left[r] = {n} THEN "swap" ELSE "load"
      BY <2>2 DEF LoadStream, Goto, DbInv, DbType, RestType, Version
    <3>2. maps[r] \in Content /\ streams \in Content
      BY DEF RestType, Version
    <3>3. \A m \in Name \ left'[r] : maps'[r][m] = streams[m]
      BY <1>2, <3>1, <3>2 DEF FactoryFollows, Content
    <3>4. pc'[r] = "swap" => maps'[r] = streams
      <4>1. maps'[r] \in Content
        BY <3>1, <3>2 DEF Content
      <4>2. pc'[r] = "swap" => left'[r] = {}
        BY <3>1
      <4> QED
        BY <3>2, <3>3, <4>1, <4>2 DEF Content
    <3>5. pc'[r] = "load" => left'[r] # {}
      BY <1>2, <2>2, <3>1 DEF FactoryFollows, LoadStream
    <3> QED
      BY <1>2, <1>4, <3>1, <3>3, <3>4, <3>5 DEF FactoryFollows
  <2>3. CASE SwapRoads(r)
    BY <1>2, <1>4, <2>3 DEF SwapRoads, Goto, FactoryFollows, DbInv, DbType
  <2>4. CASE SwapLevels(r)
    BY <1>2, <1>4, <2>4 DEF SwapLevels, Goto, FactoryFollows, DbInv, DbType
  <2> QED
    BY <2>1, <2>2, <2>3, <2>4 DEF Publish
<1>7. ASSUME faults' = {}
      PROVE  RegistryFollows'
  <2>1. RegistryFollows /\ Stored' = Stored
    BY <1>1, <1>7 DEF InTurn, history, dbVars, Stored
  <2>2. streams' = Stored
    <3>1. CASE UpdateRegistry(r)
      BY <2>1, <3>1 DEF UpdateRegistry, RegistryFollows, Changed
    <3>2. CASE ~UpdateRegistry(r)
      <4>1. pc[r] # "registry" /\ streams' = streams
        BY <3>2 DEF Publish, LoadStream, SwapRoads, SwapLevels
      <4> QED
        BY <1>2, <2>1, <4>1 DEF RegistryFollows
    <3> QED
      BY <3>1, <3>2
  <2> QED
    BY <1>4, <2>1, <2>2 DEF RegistryFollows
<1>8. \A c \in Client : Undisturbed(c)'
  BY <1>1, BusyStepClients DEF InTurn, history
<1> QED
  BY <1>5, <1>6, <1>7, <1>8 DEF InTurn

-----------------------------------------------------------------------------
(* The steps of a client.                                                  *)

LEMMA TurnFrame ==
  ASSUME UNCHANGED <<asks, pc, db, tx, handle, seen, streams, left, maps, roads, levels>>
  PROVE  OneAtATime' = OneAtATime /\ FactoryFollows' = FactoryFollows /\ RegistryFollows' = RegistryFollows
<1>1. OneAtATime' = OneAtATime
  BY DEF OneAtATime, Busy
<1>2. FactoryFollows' = FactoryFollows
  BY DEF FactoryFollows
<1>3. Stored' = Stored
  BY DEF Stored
<1>4. ASSUME NEW r \in Request
      PROVE  Changed(r)' = Changed(r) /\ LookedUp(r)' = LookedUp(r)
             /\ ContentOf(tx[r])' = ContentOf(tx[r])
  BY DEF Changed, LookedUp, ContentOf, Named, VersionOf
<1>5. RegistryFollows' = RegistryFollows
  BY <1>3, <1>4 DEF RegistryFollows
<1> QED
  BY <1>1, <1>2, <1>5

LEMMA ClientInTurn ==
  ASSUME RestType, InTurn, NEW c \in Client, ListBegin(c) \/ ListEnd(c) \/ Create(c)
  PROVE  InTurn'
<1> SUFFICES ASSUME apart'
             PROVE  InTurn'
  BY DEF InTurn
<1>1. UNCHANGED <<asks, pc, dbVars, regVars, wanted, apart, faults>> /\ disturbed \subseteq disturbed'
  BY DEF ListBegin, ListEnd, Create, ReadRoad, ReadLevel, BuildBegin, BuildEnd, history
<1>2. OneAtATime' /\ FactoryFollows' /\ (faults' = {} => RegistryFollows')
  BY <1>1, TurnFrame DEF InTurn, regVars, dbVars
<1>3. ASSUME NEW d \in Client, d # c
      PROVE  Undisturbed(d)'
  <2>1. cpc'[d] = cpc[d] /\ checked'[d] = checked[d] /\ built'[d] = built[d]
    BY <1>3 DEF ListBegin, ListEnd, Create, ReadRoad, ReadLevel, BuildBegin, BuildEnd, CGoto, RestType
  <2> QED
    BY <1>1, <2>1 DEF InTurn, Undisturbed, Asking, Busy, regVars
<1>4. ASSUME c \notin disturbed'
      PROVE  /\ \A r \in Request : ~Busy(r)
             /\ roads = levels /\ maps[roads] = streams
             /\ c \notin disturbed /\ Undisturbed(c)
  <2>1. Undisturbed(c) /\ c \notin disturbed
    BY <1>1, <1>4 DEF InTurn
  <2>2. \A r \in Request : ~Busy(r)
    BY <1>4, <2>1 DEF ListBegin, ListEnd, Create, ReadRoad, ReadLevel, BuildBegin, BuildEnd, Undisturbed, Asking
  <2> QED
    BY <1>1, <2>1, <2>2 DEF InTurn, FactoryFollows, Busy
<1>5. Undisturbed(c)'
  <2> SUFFICES ASSUME c \notin disturbed'
               PROVE  Undisturbed(c)'
    BY DEF Undisturbed
  <2>1. (\A r \in Request : ~Busy(r)) /\ roads = levels /\ maps[roads] = streams
        /\ c \notin disturbed /\ Undisturbed(c) /\ \A r \in Request : ~Busy(r)'
    BY <1>1, <1>4 DEF Busy
  <2>2. CASE ListBegin(c)
    BY <2>1, <2>2 DEF ListBegin, CGoto, RestType, Undisturbed
  <2>3. CASE ListEnd(c)
    BY <2>1, <2>3 DEF ListEnd, CGoto, RestType, Undisturbed, regVars
  <2>4. CASE ReadRoad(c)
    BY <2>1, <2>4 DEF ReadRoad, CGoto, RestType, Undisturbed, regVars
  <2>5. CASE ReadLevel(c)
    BY <2>1, <2>5 DEF ReadLevel, CGoto, RestType, Undisturbed, regVars
  <2>6. CASE BuildBegin(c) \/ BuildEnd(c)
    BY <2>1, <2>6 DEF BuildBegin, BuildEnd, CGoto, RestType, Undisturbed, regVars
  <2> QED
    BY <2>2, <2>3, <2>4, <2>5, <2>6 DEF Create
<1> QED
  BY <1>2, <1>3, <1>5 DEF InTurn

-----------------------------------------------------------------------------

LEMMA InitInTurn ==
  ASSUME RegInit
  PROVE  InTurn
<1>1. OneAtATime /\ \A r \in Request : pc[r] = "start"
  BY DEF RegInit, OneAtATime, Busy
<1>2. FactoryFollows
  BY <1>1 DEF RegInit, FactoryFollows, Version
<1>3. RegistryFollows
  BY <1>1 DEF RegInit, RegistryFollows
<1>4. \A c \in Client : Undisturbed(c)
  BY DEF RegInit, Undisturbed, Asking
<1> QED
  BY <1>1, <1>2, <1>3, <1>4 DEF InTurn

LEMMA NextInTurn ==
  ASSUME DbInv, WholeStreams, RestType, InTurn, [RegNext]_vars
  PROVE  InTurn'
<1>1. CASE UNCHANGED vars
  <2>1. UNCHANGED <<asks, pc, dbVars, regVars, clientVars, history>>
    BY <1>1 DEF vars
  <2>2. UNCHANGED <<asks, pc, db, tx, handle, seen, streams, left, maps, roads, levels>>
        /\ UNCHANGED <<cpc, wanted, checked, built, apart, disturbed, faults>>
    BY <2>1 DEF dbVars, regVars, clientVars, history
  <2>3. OneAtATime' = OneAtATime /\ FactoryFollows' = FactoryFollows /\ RegistryFollows' = RegistryFollows
    BY <2>2, TurnFrame
  <2>4. \A c \in Client : Undisturbed(c)' = Undisturbed(c)
    BY <2>2 DEF Undisturbed, Asking, Busy
  <2> QED
    BY <2>2, <2>3, <2>4 DEF InTurn
<1>2. ASSUME NEW r \in Request, Start(r) \/ Lookup(r) \/ Transact(r) \/ Publish(r)
      PROVE  InTurn'
  BY <1>2, StartInTurn, TablesInTurn, PublishInTurn
<1>3. ASSUME NEW c \in Client, ListBegin(c) \/ ListEnd(c) \/ Create(c)
      PROVE  InTurn'
  BY <1>3, ClientInTurn
<1> QED
  BY <1>1, <1>2, <1>3 DEF RegNext

LEMMA RegInTurn == RegSpec => []InTurn
<1>1. RegInit => RestType /\ InTurn
  BY InitRestType, InitInTurn
<1>2. DbInv /\ WholeStreams /\ RestType /\ InTurn /\ [RegNext]_vars => RestType' /\ InTurn'
  BY NextRestType, NextInTurn DEF DbInv
<1> QED
  BY <1>1, <1>2, RegDbInv, RegWholeStreams, PTL DEF RegSpec

\* However many requests have been made one after the other, and whatever has
\* failed, the factory runs what the registry holds; if nothing failed the
\* registry holds what is stored (streams.go:38-46, 74-80).
THEOREM RegSerialAgrees == RegSpec => []SerialAgrees
<1>1. InTurn => SerialAgrees
  BY DEF InTurn, SerialAgrees, AtRest, FactoryFollows, RegistryFollows, Busy
<1> QED
  BY <1>1, RegInTurn, PTL

\* A client whom no request overlaps gets a task of the version it was checked
\* against, if its stream is named in small letters (push.go:30-49).
THEOREM RegMadeAsChecked == RegSpec => []MadeAsChecked
<1>1. InTurn => MadeAsChecked
  BY DEF InTurn, MadeAsChecked, Undisturbed
<1> QED
  BY <1>1, RegInTurn, PTL
=============================================================================
