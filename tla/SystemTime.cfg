CONSTANTS
    RtcWrap = 2
    TimerWrap = 4
    TicksPerMilli = 2
    MillisPerSecond = 1
    MicrosPerMilli = 3
    WdWrap = 3
    WdPerMilli = 1
    WdPerMicro = 2
    Times <- MCTimes
    Sleeps <- MCSleeps
    MaxSeconds = 2
    MaxTicks = 8
    MaxOverflows = 2
SPECIFICATION Spec
INVARIANTS
    SecondsKept
    MillisKept
    ReadExact
    SleepFull
PROPERTIES
    SleepEnds
