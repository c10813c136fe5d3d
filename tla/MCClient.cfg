CONSTANTS
  a = a
  b = b
  keyed = keyed
  unkeyed = unkeyed
  Key = {a, b}
  NoKey = NoKey
  Fold <- MCFold
  Handler = {keyed, unkeyed}
  KeyOf <- MCKeyOf
  MaxItem = 3
  MaxId = 5
  NoOne = NoOne
  Taker = Taker

SPECIFICATION Spec

INVARIANTS
  TypeOK
  OneRequestPerHandler
  RequestIsSomewhere
  GivenIsHandled
  HandledInOrder

PROPERTY
  ItemsAreHandled

CHECK_DEADLOCK FALSE
