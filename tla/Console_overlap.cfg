SPECIFICATION Spec
CONSTANTS
    Worker = {w1}
    Drive = {d1, d2}
    Stop = {s1}
    Nudge = {}
    None = None
    Overlap = "tail"
    Leave = FALSE
    MaxRestarts = 0
SYMMETRY Symmetry
PROPERTIES AbortCancels
CHECK_DEADLOCK FALSE
