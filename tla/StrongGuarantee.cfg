CONSTANTS
  DiffMax = 3
  AllocMax = 3
  Value = {a}
  Default = a
  Raw = Raw
  Moved = Moved
  MaxRange = 2
  SelfArg <- None
  Used <- Growing
  Block = {b1, b2, b3}
  Null = Null
  NothrowMove = FALSE
  MayThrow = {"copy"}
SPECIFICATION Spec
PROPERTY StrongGuaranteeAsCommented
