SPECIFICATION Spec
CONSTANTS
  Thread = {main, t1, t2}
  main_thread = main
  Node = {n1, n2, n3}
  NULL = NULL
INVARIANTS StateAhead ListExact
CHECK_DEADLOCK FALSE
SYMMETRY Symmetry
CONSTRAINT UpToTheDangling
