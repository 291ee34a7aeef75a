CONSTANTS
  DiffMax = 15
  AllocMax = 13
  MaxWork = 26
SPECIFICATION Spec
INVARIANTS
  TypeOK
  CapacityInRange
  AmortisedRelocation
