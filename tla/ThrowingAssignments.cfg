CONSTANTS
  DiffMax = 3
  AllocMax = 3
  Value = {a}
  Default = a
  Raw = Raw
  Moved = Moved
  MaxRange = 4
  SelfArg <- None
  Used <- Assigning
  Block = {b1, b2, b3}
  Null = Null
  NothrowMove = FALSE
  MayThrow = {"alloc", "copy", "move", "ctor", "assign"}
SPECIFICATION Spec
SYMMETRY Symmetric
INVARIANTS StorageValid NoUndefinedBehaviour OldStorageIntact
PROPERTIES OnlyElementsLoseBlocks FailedConstructionReleases
