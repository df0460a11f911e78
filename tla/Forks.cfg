CONSTANTS
  Batches <- Mixed
  Edits <- Changed
  Selections <- Chosen
  Private = {"read", "mail"}
  Charges = {"charge", "other"}
  MaxBranches = 3
  MaxStreams = 4
  MaxActive = 1
CHECK_DEADLOCK FALSE
SPECIFICATION Spec
INVARIANT HistoryIsWhole
INVARIANT LineRunsOnce
INVARIANT PaidOnce
INVARIANT VersionsAreGated
INVARIANT MasksHold
INVARIANT OriginalsAreKept
INVARIANT OneAnswerIsShown
INVARIANT ActsAreTold
INVARIANT MarksAreTrue
