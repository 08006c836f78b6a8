-------------------------- MODULE MCStreamRegistry --------------------------
EXTENDS StreamRegistry, TLC

\* Two names of which one is the other in small letters.
MCName == {"Flow", "flow"}
MCLower == [n \in MCName |-> "flow"]

Alike == Permutations(Request)

\* The tables do not tell one name from another, so let no fewer ask for this one.
MCInit ==
  /\ RegInit
  /\ LET Askers(n) == {r \in Request : asks[r].name = n}
     IN  Cardinality(Askers("Flow")) >= Cardinality(Askers("flow"))

MCTablesSpec == MCInit /\ LiveTablesSpec
=============================================================================
