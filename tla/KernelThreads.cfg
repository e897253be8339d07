SPECIFICATION Spec
CONSTANTS
    t1 = t1
    t2 = t2
    t3 = t3
    Threads = {t1, t2, t3}
    NULL = NULL
    Millis = {1, 2, 10, 15}
    Word = 16
    SleepLimit = 8
SYMMETRY Symmetry
INVARIANTS
    TypeOK
    RingIntact
    MainInRing
    ContextSaved
    SyscallsBalanced
    RunningIsReady
    NoEarlyWake
    NoPanic
PROPERTIES
    EndReleasesWaiters
    ReleasedOnlyByEnd
