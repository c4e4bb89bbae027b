CONSTANTS
  NULL = NULL
  Thread = {t1, t2, t3}
  Item = {x, y}
  Sizes = {0, 1, 2}
  MaxPuts = 3
SPECIFICATION FairSpec
INVARIANTS SemasExact LetInRightly
PROPERTIES ImplementsQueue NobodySleepsOn
CHECK_DEADLOCK FALSE
