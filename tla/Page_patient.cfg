SPECIFICATION Spec
CONSTANTS
    Stream = {s1, s2, s3, s4}
    Click = {c1}
    Clicks = {}
    Patient = TRUE
    MaxReloads = 1
    MaxBreaks = 1
    None = None
SYMMETRY Symmetry
INVARIANTS OffersHold RestoreAgrees
CHECK_DEADLOCK FALSE
