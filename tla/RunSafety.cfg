CONSTANTS
    w1 = w1
    w2 = w2
    Workers <- MCWorkers
    Count = 2
    Unlimited = FALSE
    SlotBound = 0
    MaxSlotRetry = 1
    MintAsync = TRUE
SPECIFICATION FairSpec
INVARIANTS TypeOK SlotsConserved BrowserInHand ShortfallBounded MintsAwaited QueueFrozenByStop
PROPERTIES LedgerSpec TurnsUsedUp CountedRunEnds
CHECK_DEADLOCK FALSE
