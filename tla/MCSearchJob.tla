----------------------------- MODULE MCSearchJob -----------------------------
(***************************************************************************)
(* Three texts: one shorter than any share of the block size, one whose    *)
(* runes take three bytes, and one longer than the smaller sizes.          *)
(***************************************************************************)
EXTENDS SearchJob

CONSTANTS a, b, c

MCDoc    == {a, b, c}
MCRunes  == [d \in MCDoc |-> CASE d = a -> 2 [] d = b -> 5 [] d = c -> 9]
MCWidth  == [d \in MCDoc |-> IF d = b THEN 3 ELSE 1]
MCLimits == {-1, 0, 3, 10, 15, 20, 25}
MCSizes  == {-9, 0, 4, 12}
=============================================================================
