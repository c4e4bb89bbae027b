CONSTANTS
  NULL = NULL
  Thread = {t1, t2}
  Object = {a, b}
  Lock = {p, q}
  MaxWaiting = 3
  MaxHeld = 2
SPECIFICATION FairSpec
INVARIANTS TypeOK MutualExclusion PooledReady PlValidUntilTorn NoLockLost DetectionExact
PROPERTIES WaiterProgress ImplementsObjectLock
CHECK_DEADLOCK FALSE
CONSTRAINT UpToTheTear
