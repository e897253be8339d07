CONSTANTS
    SecondsPerMinute = 3
    MinutesPerHour = 2
    HoursPerDay = 2
    DialogFirst = 1970
    DialogStart = 1971
    DialogLast = 1972
    Times <- MCTimes
    Settings <- MCSettings
    NoDialog = NoDialog
    Unread = Unread
SPECIFICATION CalendarSpec
INVARIANTS
    Decoded
PROPERTIES
    DialogKeepsTimeOfDay
