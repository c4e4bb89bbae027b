SPECIFICATION ProbeSpec
CONSTANTS
  Key = {}
  Value = {}
  Dummy = Dummy
  NULL = NULL
  Hash <- NoKeys
  Word = 256
  MaxTurns = 8
  Size = {3, 7, 13, 31}
INVARIANTS CoversTable LoopsAgree
PROPERTY LoopEnds
CHECK_DEADLOCK FALSE
