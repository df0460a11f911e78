SPECIFICATION FairSpec
CONSTANTS
    Worker = {w1, w2}
    Drive = {d1, d2}
    Stop = {}
    Nudge = {}
    None = None
    Overlap = "always"
    Leave = TRUE
    MaxRestarts = 1
INVARIANTS TypeOK TerminalMeansFinished
PROPERTIES StreamsClose
CHECK_DEADLOCK FALSE
