CONSTANTS
  DiffMax = 3
  AllocMax = 3
  Value = {a, b}
  Default = a
  Raw = Raw
  Moved = Moved
  MaxRange = 2
  SelfArg <- NotInsertFill
  Used <- Ops
  Block = {b1, b2, b3}
  Null = Null
  NothrowMove = FALSE
  MayThrow = {"alloc", "ctor"}
SPECIFICATION FairSpec
PROPERTIES ImplementsSpec CallReturns CallsRunDown
