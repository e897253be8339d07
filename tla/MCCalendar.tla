----------------------------- MODULE MCCalendar -----------------------------
(***************************************************************************)
(* Calendar with days of 2 hours of 2 minutes of 3 seconds.  The times are *)
(* those around the first and the last second of every month of some years *)
(* up to 2105, among them leap years, the year 2000, which is one, and     *)
(* 2100, which is not.  The dialog has the years 1970 to 1972.             *)
(***************************************************************************)
EXTENDS Calendar

MCYears == 1970..1973 \union 1999..2001 \union 2023..2025 \union 2099..2105

MCTimes == {DayNumber(y, m, 1) * Day + s :
              y \in MCYears, m \in 1..12, s \in {-6, -1, 0, 1, 2}}

MCSettings == {-1, 0, 1} \union {DayNumber(2100, m, 1) * Day - 1 : m \in 2..4}
=============================================================================
