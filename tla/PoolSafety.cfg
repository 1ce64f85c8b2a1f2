CONSTANTS
    Workers = {w1, w2}
    Target = 2
    QueueSize = 2
    Attempts = 3
    MaxBoxes = 5
SPECIFICATION FairSpec
INVARIANTS TypeOK BoxesAccountedFor NeverTooMany
PROPERTY PoolEnds
CHECK_DEADLOCK FALSE
