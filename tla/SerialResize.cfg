SPECIFICATION MCSpec
CONSTANT
    Parts = {"value"}
INVARIANT
    ResizeNeverAsserts
CHECK_DEADLOCK FALSE
