CONSTANTS
  a = a
  A = A
  b = b
  Key = {a, A, b}
  NoKey = NoKey
  Fold <- MCFold
  Item = {i1, i2, i3}
  Waiter = {w1, w2}
  NoOne = NoOne
  Taker = Taker
  MaxLocks = 2

SPECIFICATION Spec
SYMMETRY Symmetric

INVARIANTS
  TypeOK
  NoStrandedItem
  NoLeak
  ListsMatchMemory
  Counters

PROPERTIES
  UnlockedTakenStays
  FateIsFinal
  ImplementsQueueSpec

CHECK_DEADLOCK FALSE
