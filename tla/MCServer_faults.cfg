CONSTANTS
  name1 = name1
  name2 = name2
  name3 = name3
  Key = {a}
  NoKey = NoKey
  Fold <- MCFold
  MQ = {m1, m2}
  Name = {name1, name2, name3}
  RandomId = {r}
  StoredAs <- MCTruncated
  Item = {i1, i2}
  Want = {w1, w2}
  Conn = {c1}
  Faults = TRUE

SPECIFICATION Spec
SYMMETRY Symmetric

INVARIANTS
  TypeOK
  CallbacksAreWants
  QueuesConsistent
  ItemInOnePlace
  OneItemPerWant
  IdsAreUnique

PROPERTIES
  FirstComeFirstServed
  OutcomesAreFinal

CHECK_DEADLOCK FALSE
