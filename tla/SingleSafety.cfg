CONSTANTS
    Count = 5
    Unlimited = FALSE
    IndexBound = 0
    MaxSlotRetry = 2
    RestartEvery = 2
    CleanupEvery = 2
SPECIFICATION FairSpec
INVARIANTS OutcomesExplained TriedToTheEnd
PROPERTY RunEnds
CHECK_DEADLOCK FALSE
