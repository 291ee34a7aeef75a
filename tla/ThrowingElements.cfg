CONSTANTS
  DiffMax = 3
  AllocMax = 3
  Value = {a}
  Default = a
  Raw = Raw
  Moved = Moved
  MaxRange = 2
  SelfArg <- AllSelfArg
  Used <- ElementOps
  Block = {b1, b2, b3}
  Null = Null
  NothrowMove = FALSE
  MayThrow = {"alloc", "copy", "move", "ctor", "assign"}
SPECIFICATION Spec
SYMMETRY Symmetric
INVARIANTS TypeOK StorageValid NoUndefinedBehaviour
PROPERTIES OnlyElementsLoseBlocks FailedReallocationUndone
