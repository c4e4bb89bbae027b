SPECIFICATION Spec
CONSTANTS
  k1 = k1
  k2 = k2
  k3 = k3
  Thread = {t1, t2}
  Key = {k1, k2, k3}
  Value = {v1}
  Addr = {a1, a2, a3}
  Dummy = Dummy
  NULL = NULL
  Hash <- MCHash
  Word = 256
  MaxTurns = 2
INVARIANTS TableThere NullKeyLeft NoTableLost
PROPERTY ImplementsDictionary
SYMMETRY Symmetry
CONSTRAINT UpToDate
