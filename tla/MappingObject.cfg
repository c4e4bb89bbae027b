SPECIFICATION Spec
CONSTANTS
  k1 = k1
  k2 = k2
  k3 = k3
  k4 = k4
  Key = {k1, k2, k3, k4}
  Value = {v1, k1}
  Dummy = Dummy
  NULL = NULL
  Hash <- MCHash
  Word = 256
  MaxTurns = 8
INVARIANTS CountsExact RefsExact
PROPERTY ActsAsDictionary
