CONSTANTS
    w1 = w1
    w2 = w2
    Workers <- MCWorkers
    Count = 0
    Unlimited = TRUE
    SlotBound = 2
    MaxSlotRetry = 1
    MintAsync = TRUE
SPECIFICATION FairSpec
PROPERTIES StopEndsRun
CHECK_DEADLOCK FALSE
