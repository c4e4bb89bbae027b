CONSTANTS
  NULL = NULL
  Server = {s1, s2}
  Args = {x, y, z, w}
  NoProc = {w}
  BadArgs = {z}
  Retries = 1
  MaxCalls = 2
  MaxRestarts = 1
  MaxDups = 1
SPECIFICATION FairSpec
INVARIANTS ResultsAreMine ExecutionsBounded
PROPERTIES CallEnds
CHECK_DEADLOCK FALSE
