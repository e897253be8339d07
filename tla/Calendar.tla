------------------------------ MODULE Calendar ------------------------------
(***************************************************************************)
(* The calendar of kernel/drivers/systime.c and its two users in the clock *)
(* module: the clock on the screen (modules/clock/clock.c), which splits   *)
(* the system time into fields, and the dialog that sets it                *)
(* (modules/clock/time-dialog.c), which puts fields together.              *)
(*                                                                         *)
(* The system time is one number here: how it is kept in two counters is   *)
(* the matter of module SystemTime.  The lengths of minutes, hours and     *)
(* days are parameters, since TLC's integers end in 2038 as well; those of *)
(* months and years are the code's.                                        *)
(*                                                                         *)
(* The conversion counts a loop's rounds until nothing is left, so that an *)
(* exact boundary belongs to the unit before it: midnight is 23:59:60 of   *)
(* the day that ends.                                                      *)
(***************************************************************************)
EXTENDS Integers

CONSTANTS
    SecondsPerMinute,   \* 60
    MinutesPerHour,     \* 60
    HoursPerDay,        \* 24
    DialogFirst,        \* 1970, the least year of the dialog
    DialogStart,        \* 2020, the year it starts with
    DialogLast,         \* 2040, its last year
    Times,              \* the system times tried: found at boot, or ticked to
    Settings,           \* those a program sets
    NoDialog,           \* the dialog is not on the screen
    Unread              \* the system time while the dialog covers the clock

Epoch == 1970
Hour == MinutesPerHour * SecondsPerMinute
Day == HoursPerDay * Hour

ASSUME CalendarAssumption ==
    /\ SecondsPerMinute \in Nat \ {0}
    /\ MinutesPerHour \in Nat \ {0}
    /\ HoursPerDay \in Nat \ {0}
    /\ {DialogFirst, DialogStart, DialogLast} \subseteq Nat
    /\ Epoch <= DialogFirst /\ DialogFirst <= DialogStart
    /\ DialogStart <= DialogLast
    /\ Times \subseteq Int /\ Settings \subseteq Int
    /\ Unread \notin Int
    /\ NoDialog \notin [numbers : [0..5 -> Int], selected : 0..5]

VARIABLES
    unix,        \* what systime_unix() returns
    draw_clock,  \* the clock is on the screen
    dialog       \* NoDialog, or numbers and selected of set_time_dialog

CalendarVars == <<unix, draw_clock, dialog>>
-----------------------------------------------------------------------------
(* Lengths of months and years. *)

IsLeap(year) == year % 4 = 0 /\ (year % 100 = 0 => year % 400 = 0)

\* mutant: the rule of the centuries forgotten in February
days_in_month_julian(year, month) ==
    CASE month \in {1, 3, 5, 7, 8, 10, 12} -> 31
      [] month \in {4, 6, 9, 11} -> 30
      [] month = 2 -> IF year % 4 = 0 THEN 29 ELSE 28
      [] OTHER -> 0

days_in_month(year, month) ==
    CASE month \in {1, 3, 5, 7, 8, 10, 12} -> 31
      [] month \in {4, 6, 9, 11} -> 30
      [] month = 2 -> IF IsLeap(year) THEN 29 ELSE 28
      [] OTHER -> 0

days_in_year(year) == IF IsLeap(year) THEN 366 ELSE 365

(* Seconds of the years after the epoch up to and including the given one. *)
YearsTo[year \in Nat] ==
    IF year <= Epoch THEN 0 ELSE YearsTo[year - 1] + days_in_year(year) * Day

(* Seconds from the given year to the epoch. *)
YearsFrom[year \in Nat] ==
    IF year >= Epoch THEN 0 ELSE YearsFrom[year + 1] + days_in_year(year) * Day

(***************************************************************************)
(* systime_timestamp_to_unix.  The loop over the months adds the length of *)
(* the given month in every round, the day counts from one, and the loop   *)
(* over the years includes the given year and leaves out 1970.             *)
(***************************************************************************)
\* mutant: an hour counted as one minute
systime_timestamp_to_unix_short(n) ==
    n[5] + n[4] * SecondsPerMinute + n[3] * SecondsPerMinute + n[2] * Day
      + n[1] * days_in_month(n[0], n[1]) * Day + YearsTo[n[0]] - YearsFrom[n[0]]

systime_timestamp_to_unix(n) ==
    n[5] + n[4] * SecondsPerMinute + n[3] * Hour + n[2] * Day
      + n[1] * days_in_month(n[0], n[1]) * Day + YearsTo[n[0]] - YearsFrom[n[0]]

(***************************************************************************)
(* systime_unix_to_timestamp.  Every loop takes off one unit a round while *)
(* something is left, then gives the last one back: what remains lies      *)
(* between 1 and the length of the unit.                                   *)
(***************************************************************************)
\* The year and what is left of the time, after the loop.
YearLoop[s \in Nat \X Nat] ==
    LET length == days_in_year(s[1]) * Day
    IN IF s[2] <= length THEN s ELSE YearLoop[<<s[1] + 1, s[2] - length>>]

\* The year, the month and what is left.
MonthLoop[s \in Nat \X Nat \X Nat] ==
    LET length == days_in_month(s[1], s[2]) * Day
    IN IF s[3] <= length THEN s ELSE MonthLoop[<<s[1], s[2] + 1, s[3] - length>>]

Rounds(rest, unit) == (rest - 1) \div unit

systime_unix_to_timestamp(u) ==
    LET year == YearLoop[<<Epoch, u>>]
        month == MonthLoop[<<year[1], 1, year[2]>>]
        day == Rounds(month[3], Day)
        ofDay == month[3] - day * Day
        hour == Rounds(ofDay, Hour)
        ofHour == ofDay - hour * Hour
        minute == Rounds(ofHour, SecondsPerMinute)
    IN [year |-> year[1], month |-> month[2], day |-> day + 1, hour |-> hour,
        minute |-> minute, second |-> ofHour - minute * SecondsPerMinute]

(***************************************************************************)
(* What drawfunc shows: its three variables start as zero, and keep that   *)
(* when the conversion returns early.                                      *)
(***************************************************************************)
drawfunc(u) ==
    IF u <= 0 THEN [hour |-> 0, minute |-> 0, second |-> 0]
    ELSE LET t == systime_unix_to_timestamp(u)
         IN [hour |-> t.hour, minute |-> t.minute, second |-> t.second]
-----------------------------------------------------------------------------
(* The system time. *)

\* The RTC is not reset with the calculator: systime_init keeps its value.
CalendarInit ==
    /\ unix \in Times /\ unix >= 0
    /\ draw_clock = TRUE
    /\ dialog = NoDialog

\* systime_set_unix: the RTC cannot hold a time before the epoch.
systime_set_unix(u) == unix' = IF u <= 0 THEN unix ELSE u

SetUnix == /\ dialog = NoDialog
           /\ \E u \in Settings : systime_set_unix(u)
           /\ UNCHANGED <<draw_clock, dialog>>

\* The bound Times stops the clock.
RtcTick == /\ dialog = NoDialog
           /\ unix + 1 \in Times
           /\ unix' = unix + 1
           /\ UNCHANGED <<draw_clock, dialog>>
-----------------------------------------------------------------------------
(* The clock module's keys, filefunc. *)

ToggleClock == /\ dialog = NoDialog
               /\ draw_clock' = ~draw_clock
               /\ UNCHANGED <<unix, dialog>>

\* Ctrl, EE and G open the dialog; the time goes on unseen and will be
\* overwritten, so that its value is left out.
OpenDialog ==
    /\ dialog = NoDialog
    /\ unix' = Unread
    /\ dialog' = [numbers |-> [i \in 0..5 |-> CASE i = 0 -> DialogStart
                                                [] i \in 1..2 -> 1
                                                [] OTHER -> 0],
                  selected |-> 0]
    /\ UNCHANGED draw_clock

(* The last number a field of the dialog takes, and its first. *)
Highest(i) == CASE i = 0 -> DialogLast
                [] i = 1 -> 12
                [] i = 2 -> 31
                [] i = 3 -> HoursPerDay - 1
                [] i = 4 -> MinutesPerHour
                [] i = 5 -> SecondsPerMinute

Lowest(i) == CASE i = 0 -> DialogFirst
               [] i \in 1..2 -> 1
               [] OTHER -> 0

\* One round of the loop.  The corners of the touchpad are two arrows.
DialogRound ==
    /\ dialog # NoDialog
    /\ \E up, down, left, right \in BOOLEAN :
         LET s == dialog.selected
             n == dialog.numbers[s]
         IN /\ ~(up /\ down) /\ ~(left /\ right)
            /\ dialog' =
                 [numbers |-> [dialog.numbers EXCEPT ![s] =
                      CASE up /\ n < Highest(s) -> n + 1
                        [] down /\ n > Lowest(s) -> n - 1
                        [] OTHER -> n],
                  selected |-> CASE left /\ s > 0 -> s - 1
                                 [] right /\ s < 5 -> s + 1
                                 [] OTHER -> s]
    /\ UNCHANGED <<unix, draw_clock>>

\* Escape sets the time.  After the key barrier filefunc looks at the keys
\* once more: Ctrl and EE, held down, also toggle the clock.
CloseDialog ==
    /\ dialog # NoDialog
    /\ systime_set_unix(systime_timestamp_to_unix(dialog.numbers))
    /\ dialog' = NoDialog
    /\ draw_clock' \in BOOLEAN
-----------------------------------------------------------------------------
CalendarNext ==
    \/ SetUnix
    \/ RtcTick
    \/ ToggleClock
    \/ OpenDialog
    \/ DialogRound
    \/ CloseDialog

CalendarSpec == CalendarInit /\ [][CalendarNext]_CalendarVars
-----------------------------------------------------------------------------
(***************************************************************************)
(* The reference: the number of days from the epoch to a date of the       *)
(* Gregorian calendar in closed form, counting years from March, in eras   *)
(* of 400 years (146097 days).  It shares nothing with the tables above.   *)
(***************************************************************************)
DayNumber(year, month, day) ==
    LET y == IF month <= 2 THEN year - 1 ELSE year
        m == (month + 9) % 12
        ofEra == y % 400
    IN (y \div 400) * 146097 + ofEra * 365 + ofEra \div 4 - ofEra \div 100
         + (153 * m + 2) \div 5 + day - 1 - 719468

NextMonth(year, month) ==
    IF month = 12 THEN DayNumber(year + 1, 1, 1) ELSE DayNumber(year, month + 1, 1)

(***************************************************************************)
(* systime_unix_to_timestamp is right for every positive time: its fields  *)
(* are those of a date that exists and a time of day, and denote the       *)
(* instant given, at a boundary the second after the last of the unit      *)
(* before.  In particular its own tables of months and years agree, or the *)
(* loop over the months would never end (systime.c:248).                   *)
(***************************************************************************)
Decoded ==
    unix # Unread /\ unix > 0 =>
      LET t == systime_unix_to_timestamp(unix)
      IN /\ t.year >= Epoch
         /\ t.month \in 1..12
         /\ t.day >= 1
         /\ DayNumber(t.year, t.month, t.day) < NextMonth(t.year, t.month)
         /\ t.hour \in 0..(HoursPerDay - 1)
         /\ t.minute \in 0..(MinutesPerHour - 1)
         /\ t.second \in 1..SecondsPerMinute
         /\ unix = DayNumber(t.year, t.month, t.day) * Day + t.hour * Hour
                     + t.minute * SecondsPerMinute + t.second

(***************************************************************************)
(* The time of day chosen in the dialog is what the clock shows after it,  *)
(* up to whole days and to how an exact minute is written: although        *)
(* systime_timestamp_to_unix is not the inverse of the other conversion    *)
(* and sets a date some weeks off, its error is whole days, and setting    *)
(* the time is never refused.                                              *)
(***************************************************************************)
OfDay(hour, minute, second) ==
    (hour * Hour + minute * SecondsPerMinute + second) % Day

DialogKeepsTimeOfDay ==
    [][dialog # NoDialog /\ dialog' = NoDialog =>
         LET n == dialog.numbers
             t == drawfunc(unix')
         IN OfDay(t.hour, t.minute, t.second) = OfDay(n[3], n[4], n[5])]_CalendarVars
=============================================================================
