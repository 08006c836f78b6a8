SPECIFICATION HeapSpec
CONSTANTS
  Task = {t1, t2, t3, t4, t5, t6, t7}
  Level = {0, 1, 2}
SYMMETRY Alike
INVARIANTS
  HeapOrdered
PROPERTIES
  PopsLargest
