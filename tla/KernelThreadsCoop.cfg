SPECIFICATION CooperativeSpec
CONSTANTS
    t1 = t1
    t2 = t2
    t3 = t3
    Threads = {t1, t2, t3}
    NULL = NULL
    Millis = {2, 4}
    Word = 16
    SleepLimit = 8

PROPERTIES
    ReadyThreadsRun
