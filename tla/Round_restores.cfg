CONSTANTS
  Batches <- Mixed
  Selections = {{"approval"}, {"dlp_block", "rate_cap"}, {"approval", "rate_cap"}}
  Edits <- Changed
  MaxStreams = 5
  MaxCuts = 1
CHECK_DEADLOCK FALSE
SPECIFICATION Spec
INVARIANT TypeOK
INVARIANT ForkPointsExist
INVARIANT OfferedIsAccepted
INVARIANT GatesSettle
INVARIANT EveryAnswerIsShown
INVARIANT GatesHold
INVARIANT BudgetHolds
