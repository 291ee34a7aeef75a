CONSTANTS
  DiffMax = 3
  AllocMax = 3
  Value = {a, b}
  Default = a
  Raw = Raw
  Moved = Moved
  MaxRange = 2
  SelfArg <- Inserting
  Used <- Inserting
  Block = {b1, b2, b3}
  Null = Null
  NothrowMove = TRUE
  MayThrow = {}
SPECIFICATION Spec
PROPERTY ArgumentStillValid
