\* Two answers and a recovery overlap; one cut.
SPECIFICATION Spec
CONSTANTS
    Worker = {w1}
    Settler = {s1, s2}
    Last = 1
    None = None
    Touching = TRUE
    MaxOverlaps = 2
    MaxCuts = 1
SYMMETRY Symmetry
INVARIANTS PaidOnce
CHECK_DEADLOCK FALSE
