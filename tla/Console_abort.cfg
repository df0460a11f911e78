SPECIFICATION Spec
CONSTANTS
    Worker = {w1}
    Drive = {d1, d2, d3}
    Stop = {s1}
    Nudge = {n1}
    None = None
    Overlap = "never"
    Leave = TRUE
    MaxRestarts = 0
SYMMETRY Symmetry
INVARIANTS UncancelledIsKept
PROPERTIES AbortCancels TerminalIsFinal
CHECK_DEADLOCK FALSE
