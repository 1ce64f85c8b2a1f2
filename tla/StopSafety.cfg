CONSTANT MaxPresses = 5
SPECIFICATION FairStopSpec
INVARIANT DistinctCounts
PROPERTY StopEndsRun
CHECK_DEADLOCK FALSE
