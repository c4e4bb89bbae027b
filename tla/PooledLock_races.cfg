CONSTANTS
  NULL = NULL
  Thread = {t1, t2, t3}
  Object = {a}
  Lock = {p, q}
  MaxWaiting = 3
  MaxHeld = 1
SPECIFICATION Spec
SYMMETRY Symmetry
INVARIANTS PlRemainsValid
CHECK_DEADLOCK FALSE
