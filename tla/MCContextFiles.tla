--------------------------- MODULE MCContextFiles ---------------------------
EXTENDS ContextFiles, TLC

Terminals == Permutations(Procs)
=============================================================================
