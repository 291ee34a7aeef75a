CONSTANT MaxRange = 3
SPECIFICATION Spec
INVARIANT ReadOnce
CHECK_DEADLOCK FALSE
