---------------------------- MODULE MCSystemTime ----------------------------
(***************************************************************************)
(* SystemTime with narrow counters: an RTC of 2 seconds, a timer of 4      *)
(* ticks of which 2 make a millisecond, a watchdog of 3 counts.  A set to  *)
(* 2 lies behind the first overflow of both clocks, and from 0 the bounds  *)
(* leave room for one overflow of the RTC and two of the timer.            *)
(***************************************************************************)
EXTENDS SystemTime

MCTimes == {-1, 1, 2}
MCSleeps == {0, 2}
=============================================================================
