SPECIFICATION Spec
CONSTANTS
  Process = {p, q}
  r1 = r1
  r2 = r2
  Repository <- MCRepository
  Nested <- MCNested
  NULL = NULL
INVARIANT WriterHasMetaLock
CHECK_DEADLOCK FALSE
