CONSTANTS
  NULL = NULL
  Thread = {t1, t2, t3}
  Nums <- MCNums
  MaxId = 3
SPECIFICATION FairSpec
INVARIANTS CountsExact OneBaton
PROPERTIES ImplementsCondition ReleaseGoesOn
CHECK_DEADLOCK FALSE
