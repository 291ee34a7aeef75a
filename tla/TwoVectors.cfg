CONSTANTS
  Vec = {v, w}
  Block = {b1, b2, b3}
  Null = Null
  a = a
  b = b
  Value = {a, b}
  Source <- Sources
  ElementTypes <- Elements
  Raw = Raw
  Moved = Moved
  MaxSize = 2
  Personality = {p0, p1}
  Fresh = p0
  MayThrow = {"alloc", "copy", "assign"}
  Traits <- Types
  Assignable <- SoundToAssign
SPECIFICATION Spec
VIEW State
SYMMETRY Symmetric
INVARIANTS TypeOK StorageOwned NoMisuse ComparisonsAgree
PROPERTIES OnlyElementsLoseBlocks ImplementsSpec
