--------------------------- MODULE MCPriorityHeap ---------------------------
EXTENDS PriorityHeap, TLC

Alike == Permutations(Task)
=============================================================================
