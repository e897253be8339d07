SPECIFICATION Spec
CONSTANTS
    t1 = t1
    t2 = t2
    t3 = t3
    Threads = {t1, t2}
    NULL = NULL
    Millis = {2}
    Word = 16
    SleepLimit = 8
INVARIANT ContextIntact
