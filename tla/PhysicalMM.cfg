SPECIFICATION Spec
CONSTANTS
    Bits = 3
    MaxBlocks = 6
    Sizes = {2, 3}
    Requests = {1, 2, 3, 4}
    Aligns <- MCAligns
    HeapEnd = 30
INVARIANTS
    Exclusive
    WithinChunk
    UsedExact
    RefusedOnlyWhenFull
CHECK_DEADLOCK TRUE
