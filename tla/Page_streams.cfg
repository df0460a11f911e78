SPECIFICATION FairSpec
CONSTANTS
    Stream = {s1, s2}
    Click = {c1}
    Clicks = {"abort", "steer", "settle"}
    Patient = FALSE
    MaxReloads = 1
    MaxBreaks = 1
    None = None
PROPERTIES StreamingEnds OnlyOvertakenEndsFail
CHECK_DEADLOCK FALSE
