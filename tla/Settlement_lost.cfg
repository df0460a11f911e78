\* Requests one at a time; one cut.
SPECIFICATION FairSpec
CONSTANTS
    Worker = {w1}
    Settler = {s1}
    Last = 1
    None = None
    Touching = TRUE
    MaxOverlaps = 0
    MaxCuts = 1
PROPERTIES DoubtEnds
CHECK_DEADLOCK FALSE
