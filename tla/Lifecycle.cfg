SPECIFICATION Spec
CONSTANTS
    NLaunches = 3
    NBlocks = 4
INVARIANTS
    OsRestored
    ReachedBacked
    UninstalledFreed
    IrqRestored
