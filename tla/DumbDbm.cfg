CONSTANTS
  NULL = NULL
  Process = {p1, p2}
  Key = {k1, k2}
  Val <- MCVal
  _BLOCKSIZE = 2
  MaxUpdates = 4
SPECIFICATION Spec
SYMMETRY MCSymmetry
INVARIANTS OwnBytes Durable Recoverable
CHECK_DEADLOCK FALSE
