CONSTANTS
  Thread = {t1, t2, t3, t4}
  N = 3
  MaxCalls = 2
  Misuses = TRUE
SPECIFICATION FairSpec
INVARIANTS BarrierHolds NoIdleUnit ReadersOrWriter
PROPERTIES BarrierOpens EventArrives EverybodyIn
CHECK_DEADLOCK FALSE
