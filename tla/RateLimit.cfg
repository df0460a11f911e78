\* Two callers, one more than the table keeps; a window of a second and a half.
SPECIFICATION Spec
CONSTANTS
    Caller = {c1, c2}
    Limit = 2
    Window = 3
    Second = 2
    Known = 1
    MaxTime = 8
SYMMETRY Symmetry
INVARIANTS TypeOK RetryIsEnough TableIsBounded
PROPERTIES Promise
CHECK_DEADLOCK FALSE
