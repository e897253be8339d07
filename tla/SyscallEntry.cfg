CONSTANTS
    Threads = {t1, t2}
    MaxDepth = 3
    Zero = Zero
SPECIFICATION Spec
INVARIANTS
    ReturnsToCaller
    SlotsMatch
CHECK_DEADLOCK FALSE
