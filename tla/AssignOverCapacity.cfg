CONSTANTS
  DiffMax = 3
  AllocMax = 3
  Value = {a}
  Default = a
  Raw = Raw
  Moved = Moved
  MaxRange = 3
  SelfArg <- None
  Used <- AssigningOver
  Block = {b1, b2, b3}
  Null = Null
  NothrowMove = TRUE
  MayThrow = {}
SPECIFICATION Spec
INVARIANT DestroysWhatWasConstructed
