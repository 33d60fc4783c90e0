SPECIFICATION Spec
CONSTANT MaxHeight = 8
INVARIANTS TypeOK InsertIsExact BlocksLeftAreGaps
CHECK_DEADLOCK FALSE
