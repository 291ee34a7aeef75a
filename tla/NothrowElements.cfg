CONSTANTS
  DiffMax = 3
  AllocMax = 3
  Value = {a, b}
  Default = a
  Raw = Raw
  Moved = Moved
  MaxRange = 2
  SelfArg <- EndSelfArg
  Used <- FaultlessOps
  Block = {b1, b2, b3}
  Null = Null
  NothrowMove = TRUE
  MayThrow = {"alloc"}
SPECIFICATION Spec
SYMMETRY Symmetric
INVARIANT NothingLost
PROPERTIES ReferencesKept ImplementsSpec
