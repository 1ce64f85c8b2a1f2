CONSTANTS
    v1 = v1
    v2 = v2
    Viewers = {v1, v2}
    Chunk = 2
    MaxLines = 3
    MaxViews = 1
SYMMETRY Same
SPECIFICATION LogSpec
INVARIANTS LinesOnce TwiceAfterStepBack
CHECK_DEADLOCK FALSE
