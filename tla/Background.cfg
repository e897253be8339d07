CONSTANTS
    Objs <- MCObjs
    Runs = {r1, r2, r3, r4}
    MaxOpen = 2
    Free = Free
    Wild = Wild
    NULL = NULL
SYMMETRY MCSymmetry
SPECIFICATION BackgroundSpec
INVARIANTS
    DrawnLive
    MemoryExact
CHECK_DEADLOCK FALSE
