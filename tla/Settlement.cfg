\* Two charges, each answered twice over; two requests may overlap, two cuts.
SPECIFICATION FairSpec
CONSTANTS
    Worker = {w1}
    Settler = {s1, s2}
    Last = 2
    None = None
    Touching = TRUE
    MaxOverlaps = 2
    MaxCuts = 2
INVARIANTS TypeOK ChargedOnce ToldIsTrue
PROPERTIES NotedIsKept Decided
CHECK_DEADLOCK FALSE
