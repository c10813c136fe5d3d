CONSTANTS
  name1 = name1
  name2 = name2
  name3 = name3
  Key = {a}
  NoKey = NoKey
  Fold <- MCFold
  MQ = {m1, m2}
  Name = {name1}
  RandomId = {r}
  StoredAs <- MCSame
  Item = {i1, i2}
  Want = {w1, w2}
  Conn = {c1, c2}
  Faults = FALSE

SPECIFICATION Spec

INVARIANT ItemFreedOnce
CHECK_DEADLOCK FALSE
