---------------------------- MODULE StreamTables ----------------------------
(***************************************************************************)
(* The streams and jobs tables (repository/migrations) and the statements  *)
(* of internal/db that change them.  A stream's description, level and     *)
(* jobs come from one configuration, its version; of a stream's jobs only  *)
(* the versions they are of are told apart.                                *)
(***************************************************************************)
EXTENDS Integers

Tables(Ids, Names, Versions) ==
  [rows : SUBSET [id : Ids, name : Names, ver : Versions],
   jobs : SUBSET [stream : Ids, ver : Versions]]

\* The unique index on the name, the primary key on the id.
Keyed(t) == \A r, s \in t.rows : r.id = s.id \/ r.name = s.name => r = s

Named(t, n) == {r \in t.rows : r.name = n}

\* id INTEGER PRIMARY KEY, not AUTOINCREMENT: one more than the greatest id in
\* use.  The id of the last stream is given again when that stream is deleted.
NextId(t, i) ==
  /\ \A r \in t.rows : r.id < i
  /\ i = 1 \/ \E r \in t.rows : r.id = i - 1

CreateStream(t, i, n, v) ==
  [t EXCEPT !.rows = @ \cup {[id |-> i, name |-> n, ver |-> v]}]

UpdateStreamRow(t, i, v) ==
  [t EXCEPT !.rows = {IF r.id = i THEN [r EXCEPT !.ver = v] ELSE r : r \in @}]

DeleteStream(t, n) == [t EXCEPT !.rows = {r \in @ : r.name # n}]

DeleteJobs(t, i) == [t EXCEPT !.jobs = {j \in @ : j.stream # i}]

CreateJobs(t, i, v) == [t EXCEPT !.jobs = @ \cup {[stream |-> i, ver |-> v]}]
=============================================================================
