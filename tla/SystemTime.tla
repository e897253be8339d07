----------------------------- MODULE SystemTime -----------------------------
(***************************************************************************)
(* The time base of OSExt: the two clocks of kernel/drivers/systime.c (the *)
(* RTC counts seconds, SYSTIME_TIMER of the first timer module counts      *)
(* 1/32 ms downwards; both are 32 bits wide and the FIQ handler counts     *)
(* their overflows), and the sleeps of kernel/libk/wait.c, which count     *)
(* with the watchdog timer and wait for its FIQ.                           *)
(*                                                                         *)
(* Actors: the devices (RtcTick, SysTick, SliceTick, WdTick), the FIQ      *)
(* handler, which may run between any two steps of the code it interrupts, *)
(* and that code, `task`: one system call or module function at a time,    *)
(* each access to a variable or device shared with the handler being a     *)
(* step.  A FIQ that can be delivered is taken before the next step of the *)
(* task.                                                                   *)
(*                                                                         *)
(* The first timer module has one line at the interrupt controller, 18,    *)
(* for SYSTIME_TIMER and SCHEDULER_TIMER: the scheduler switches it off    *)
(* with its timer.                                                         *)
(***************************************************************************)
EXTENDS Integers

CONSTANTS
    RtcWrap,          \* 2^32 seconds
    TimerWrap,        \* 2^32 ticks of SYSTIME_TIMER
    TicksPerMilli,    \* 32
    MillisPerSecond,  \* 1000
    MicrosPerMilli,   \* 1000
    WdWrap,           \* 2^32 counts of the watchdog
    WdPerMilli,       \* 38038 counts, msleep's factor
    WdPerMicro,       \* 33 counts, microsleep's factor
    Times,            \* the arguments tried of systime_set_unix[_milli]
    Sleeps,           \* the arguments tried of msleep and microsleep
    MaxSeconds,       \* bound of the ghost clock secs
    MaxTicks,         \* bound of the ghost clock ticks
    MaxOverflows      \* bound of timer_milis_overflows, which sets may not reset

ASSUME WidthAssumption ==
    /\ RtcWrap \in Nat \ {0} /\ TimerWrap \in Nat \ {0} /\ WdWrap \in Nat \ {0, 1}
    /\ TicksPerMilli \in Nat \ {0} /\ MillisPerSecond \in Nat \ {0}
    /\ TimerWrap % TicksPerMilli = 0
    /\ MillisPerSecond * TicksPerMilli <= TimerWrap
ASSUME ArgumentsAssumption ==
    /\ MicrosPerMilli \in Nat /\ WdPerMilli \in Nat /\ WdPerMicro \in Nat
    /\ Times \subseteq Int /\ Sleeps \subseteq Int

VARIABLES
    rtc,      \* value; raw: its overflow interrupt is asserted
    sys,      \* SYSTIME_TIMER: value; raw
    slice,    \* SCHEDULER_TIMER: on; raw
    wd,       \* watchdog: on, left, load, raw; function: who uses it
    fiqs,     \* the interrupt lines enabled and selected as FIQ
    timer_seconds_overflows,
    timer_milis_overflows,
    task,     \* the code the FIQs interrupt
    secs,     \* ghost: the time as set, plus the seconds since
    ticks,    \* ghost: the time as set in ticks, plus the ticks since
    exact     \* ghost: the clocks no lost or doubled overflow has spoiled

vars == <<rtc, sys, slice, wd, fiqs, timer_seconds_overflows,
          timer_milis_overflows, task, secs, ticks, exact>>

clocks == <<rtc, sys, timer_seconds_overflows, timer_milis_overflows,
            secs, ticks, exact>>

WatchdogLine == 3
RtcLine == 4
FirstTimerLine == 18

WATCHDOG_INVALID == 0
WATCHDOG_WAIT == 1

\* The FIQs the controller reports in its status register.
vic_fiq_status ==
    {l \in fiqs : \/ l = WatchdogLine /\ wd.raw /\ wd.on
                  \/ l = RtcLine /\ rtc.raw
                  \/ l = FirstTimerLine /\ (sys.raw \/ slice.raw)}

(* The drivers *)

watchdog_enable(w) == [w EXCEPT !.on = TRUE]
\* mutant: the watchdog goes on
watchdog_not_disabled(w) == w
watchdog_disable(w) == [w EXCEPT !.on = FALSE]
watchdog_set_load(w, load) == [w EXCEPT !.load = load, !.left = load]
watchdog_set_function(w, func) == [w EXCEPT !.function = func]
watchdog_irq_clear(w) == [w EXCEPT !.raw = FALSE]

\* mutant: nothing is cleared
rtc_irq_not_cleared(r) == r
rtc_irq_clear(r) == [r EXCEPT !.raw = FALSE]
timer_irq_clear(t) == [t EXCEPT !.raw = FALSE]
timer_set_load(t, load) == [t EXCEPT !.value = load]

Idle == [pc |-> "idle"]

\* The task runs only when no FIQ is waiting to be delivered.
At(pc) == task.pc = pc /\ vic_fiq_status = {}

\* What the sleep functions compute: the counts of the watchdog for a sleep.
\* The conversion from double to uint32_t saturates, the product of two
\* uint32_t wraps.
msleep_count(milis) ==
    IF WdPerMilli * milis < WdWrap THEN WdPerMilli * milis ELSE WdWrap - 1
microsleep_count(micro) == (WdPerMicro * micro) % WdWrap

\* The value of a clock from its overflows and its counter.
UnixOf(overflows, value) == overflows * RtcWrap + value
\* mutant: the timer counts down, but its value is taken as it is
MilliOfUp(overflows, value) ==
    (overflows * TimerWrap) \div TicksPerMilli + value \div TicksPerMilli
MilliOf(overflows, value) ==
    (overflows * TimerWrap) \div TicksPerMilli
        + (TimerWrap - 1 - value) \div TicksPerMilli
MicroOf(overflows, value) ==
    ((overflows * TimerWrap + (TimerWrap - 1 - value)) * MicrosPerMilli)
        \div TicksPerMilli

ClockOf(kind) == IF kind = "unix" THEN "seconds" ELSE "millis"
Reading(kind, overflows, value) ==
    CASE kind = "unix"  -> UnixOf(overflows, value)
      [] kind = "milli" -> MilliOf(overflows, value)
      [] kind = "micro" -> MicroOf(overflows, value)

\* The same three from the ghost clocks.
TrueTime(kind) ==
    CASE kind = "unix"  -> secs
      [] kind = "milli" -> ticks \div TicksPerMilli
      [] kind = "micro" -> (ticks * MicrosPerMilli) \div TicksPerMilli
-----------------------------------------------------------------------------
\* systime_init up to its last line: timer and RTC run, both lines are FIQs.
\* The RTC kept its value, and nobody has slept yet.
Init ==
    /\ rtc \in [value : 0 .. RtcWrap - 1, raw : {FALSE}]
    /\ sys = [value |-> TimerWrap - 1, raw |-> FALSE]
    /\ slice = [on |-> FALSE, raw |-> FALSE]
    /\ wd = [on |-> FALSE, left |-> 0, load |-> 0, raw |-> FALSE,
             function |-> WATCHDOG_INVALID]
    /\ fiqs = {RtcLine, FirstTimerLine}
    /\ timer_seconds_overflows = 0
    /\ timer_milis_overflows = 0
    /\ task = [pc |-> "boot"]
    /\ secs = rtc.value
    /\ ticks = 0
    /\ exact = {"seconds", "millis"}
-----------------------------------------------------------------------------
(* Devices (external) *)

\* A wrap of `clock` inside a two-step access makes that access unclean.
Wrapped(clock) ==
    IF task.pc \in {"read", "rtc", "load"} /\ task.clock = clock
      THEN [task EXCEPT !.clean = FALSE] ELSE task

\* The RTC counts a second; its alarm is at 0.
RtcTick ==
    /\ secs < MaxSeconds
    /\ secs' = secs + 1
    /\ LET wrap == rtc.value = RtcWrap - 1
       IN  /\ wrap => RtcLine \notin vic_fiq_status
           /\ rtc' = [value |-> (rtc.value + 1) % RtcWrap, raw |-> rtc.raw \/ wrap]
           /\ task' = IF wrap THEN Wrapped("seconds") ELSE task
    /\ UNCHANGED <<sys, slice, wd, fiqs, timer_seconds_overflows,
                   timer_milis_overflows, ticks, exact>>

\* SYSTIME_TIMER counts down, free-running.  An overflow while the one before
\* has not been handled leaves no trace.
SysTick ==
    /\ ticks < MaxTicks
    /\ ticks' = ticks + 1
    /\ LET wrap == sys.value = 0
       IN  /\ wrap => /\ FirstTimerLine \notin vic_fiq_status
                      /\ timer_milis_overflows < MaxOverflows
           /\ sys' = [value |-> (sys.value - 1) % TimerWrap, raw |-> sys.raw \/ wrap]
           /\ task' = IF wrap THEN Wrapped("millis") ELSE task
           /\ exact' = IF wrap /\ sys.raw THEN exact \ {"millis"} ELSE exact
    /\ UNCHANGED <<rtc, slice, wd, fiqs, timer_seconds_overflows,
                   timer_milis_overflows, secs>>

SliceTick ==
    /\ slice.on
    /\ slice' = [slice EXCEPT !.raw = TRUE]
    /\ UNCHANGED <<clocks, wd, fiqs, task>>

WdTick ==
    /\ wd.on /\ ~ wd.raw
    /\ wd' = IF wd.left = 0 THEN [wd EXCEPT !.raw = TRUE, !.left = wd.load]
                            ELSE [wd EXCEPT !.left = @ - 1]
    /\ task' = IF task.pc \in {"check", "wfi_next", "wfi"} /\ wd.left > 0
                 THEN [task EXCEPT !.waited = @ + 1] ELSE task
    /\ UNCHANGED <<clocks, slice, fiqs>>

\* An interrupt of TI-OS; all it does here is to end a wait for interrupt.
OtherIrq ==
    /\ task.pc = "wfi"
    /\ task' = [task EXCEPT !.pc = "check"]
    /\ UNCHANGED <<clocks, slice, wd, fiqs>>

\* Ndless starts the watchdog for its LCD compatibility feature.
NdlessStart ==
    /\ task.pc = "idle" /\ ~ wd.on
    /\ wd' = [wd EXCEPT !.on = TRUE, !.left = 1, !.load = 1, !.raw = FALSE]
    /\ fiqs' = fiqs \cup {WatchdogLine}
    /\ UNCHANGED <<clocks, slice, task>>
-----------------------------------------------------------------------------
(* fiq_handler *)

Woken == IF task.pc = "wfi" THEN [task EXCEPT !.pc = "check"] ELSE task

\* A watchdog FIQ nobody of OSExt asked for goes to Ndless' handler, which
\* clears it; nothing else is handled.
FiqRelay ==
    /\ WatchdogLine \in vic_fiq_status
    /\ wd.function = WATCHDOG_INVALID
    /\ wd' = watchdog_irq_clear(wd)
    /\ task' = Woken
    /\ UNCHANGED <<clocks, slice, fiqs>>

FiqHandle ==
    LET status == vic_fiq_status
        systime == FirstTimerLine \in status /\ sys.raw
    IN  /\ status # {}
        /\ WatchdogLine \in status => wd.function = WATCHDOG_WAIT
        /\ wd' = IF WatchdogLine \in status THEN watchdog_disable(watchdog_irq_clear(wd)) ELSE wd
        /\ fiqs' = IF WatchdogLine \in status THEN fiqs \ {WatchdogLine} ELSE fiqs
        /\ rtc' = IF RtcLine \in status THEN rtc_irq_clear(rtc) ELSE rtc
        /\ timer_seconds_overflows' =
             timer_seconds_overflows + (IF RtcLine \in status THEN 1 ELSE 0)
        /\ sys' = IF systime THEN timer_irq_clear(sys) ELSE sys
        /\ timer_milis_overflows' =
             timer_milis_overflows + (IF systime THEN 1 ELSE 0)
        /\ slice' = IF FirstTimerLine \in status
                      THEN timer_irq_clear(slice) ELSE slice
        /\ task' = Woken
        /\ UNCHANGED <<secs, ticks, exact>>
-----------------------------------------------------------------------------
(* Reading the clocks.  C leaves open which of the two operands of the sum *)
(* is read first.                                                          *)

Overflows(kind) == IF kind = "unix" THEN timer_seconds_overflows
                                    ELSE timer_milis_overflows
Counter(kind) == IF kind = "unix" THEN rtc ELSE sys

ReadFirst(kind) ==
    /\ At("idle")
    /\ \E first \in {"overflows", "value"} :
         task' = [pc |-> "read", kind |-> kind, clock |-> ClockOf(kind),
                  first |-> first,
                  seen |-> IF first = "overflows" THEN Overflows(kind)
                                                  ELSE Counter(kind).value,
                  clean |-> ~ Counter(kind).raw, since |-> TrueTime(kind)]
    /\ UNCHANGED <<clocks, slice, wd, fiqs>>

ReadSecond ==
    /\ At("read")
    /\ LET kind == task.kind
           now == IF task.first = "overflows"
                    THEN Reading(kind, task.seen, Counter(kind).value)
                    ELSE Reading(kind, Overflows(kind), task.seen)
       IN  task' = [pc |-> "result", kind |-> kind, time |-> now,
                    clean |-> task.clean, since |-> task.since,
                    until |-> TrueTime(kind)]
    /\ UNCHANGED <<clocks, slice, wd, fiqs>>

\* the caller has its result
ReadReturns ==
    /\ At("result")
    /\ task' = Idle
    /\ UNCHANGED <<clocks, slice, wd, fiqs>>
-----------------------------------------------------------------------------
(* Setting the clocks *)

\* `clock` is exact again unless an overflow fell between its two writes.
Settled(clock, clean) == IF clean THEN exact \cup {clock} ELSE exact \ {clock}

\* The first write of each clock is of its overflow counter.
SetOverflowsOfRtc(unix, kind) ==
    /\ timer_seconds_overflows' = unix \div RtcWrap
    /\ task' = [pc |-> "rtc", kind |-> kind, unix |-> unix, clock |-> "seconds",
                clean |-> ~ rtc.raw]

\* systime_set_unix: zero and negative times are refused
SetUnix(unix) ==
    /\ IF unix <= 0
         THEN task' = Idle /\ UNCHANGED timer_seconds_overflows
         ELSE SetOverflowsOfRtc(unix, "unix")
    /\ UNCHANGED <<rtc, sys, timer_milis_overflows, secs, ticks, exact, slice, wd, fiqs>>

systime_set_unix(unix) == At("idle") /\ SetUnix(unix)

\* the last line of systime_init
Boot == At("boot") /\ SetUnix(UnixOf(timer_seconds_overflows, rtc.value))

\* systime_set_unix_milli: the timer gets the fraction of the second and its
\* overflows stay as they are.
systime_set_unix_milli(milis) ==
    /\ At("idle")
    /\ milis > 0
    /\ LET seconds == milis \div MillisPerSecond
           milis_remaining == milis - seconds * MillisPerSecond
       IN  /\ sys' = timer_set_load(sys, TimerWrap - 1 - milis_remaining * TicksPerMilli)
           /\ ticks' = milis * TicksPerMilli
           /\ exact' = exact \ {"millis"}
           /\ SetOverflowsOfRtc(seconds, "milli")
    /\ UNCHANGED <<rtc, timer_milis_overflows, secs, slice, wd, fiqs>>

RtcValue(unix) == unix % RtcWrap

\* rtc_set_value; whether a value that equals the alarm raises the interrupt
\* at once is left open.
SetRtc ==
    /\ At("rtc")
    /\ \E match \in BOOLEAN :
         /\ match => RtcValue(task.unix) = 0
         /\ rtc' = [value |-> RtcValue(task.unix), raw |-> rtc.raw \/ match]
         /\ secs' = task.unix
         /\ exact' = Settled("seconds", task.clean /\ ~ match)
    /\ IF task.kind = "milli"
         THEN task' = Idle
         ELSE task' = [task EXCEPT !.pc = "milis", !.clock = "millis"]
    /\ UNCHANGED <<sys, timer_seconds_overflows, timer_milis_overflows, ticks,
                   slice, wd, fiqs>>

\* mutant: milliseconds are divided by a wrap in ticks
OverflowsOfTicks(unix) == (unix * MillisPerSecond) \div TimerWrap
OverflowsOf(unix) == (unix * MillisPerSecond) \div (TimerWrap \div TicksPerMilli)

SetOverflowsOfTimer ==
    /\ At("milis")
    /\ timer_milis_overflows' = OverflowsOf(task.unix)
    /\ task' = [task EXCEPT !.pc = "load", !.clean = ~ sys.raw]
    /\ UNCHANGED <<rtc, sys, timer_seconds_overflows, secs, ticks, exact,
                   slice, wd, fiqs>>

SetTimer ==
    /\ At("load")
    /\ LET milis_remaining ==
             (task.unix * MillisPerSecond) % (TimerWrap \div TicksPerMilli)
       IN  sys' = timer_set_load(sys, TimerWrap - 1 - milis_remaining * TicksPerMilli)
    /\ ticks' = task.unix * MillisPerSecond * TicksPerMilli
    /\ exact' = Settled("millis", task.clean)
    /\ task' = Idle
    /\ UNCHANGED <<rtc, timer_seconds_overflows, timer_milis_overflows, secs,
                   slice, wd, fiqs>>
-----------------------------------------------------------------------------
(* The scheduler's timer *)

(* timer_enable and timer_disable of SCHEDULER_TIMER: timer and line *)

timer_enable == /\ slice' = [slice EXCEPT !.on = TRUE]
                /\ fiqs' = fiqs \cup {FirstTimerLine}
timer_disable == /\ slice' = [slice EXCEPT !.on = FALSE]
                 /\ fiqs' = fiqs \ {FirstTimerLine}

EnableScheduling ==
    /\ At("idle") /\ ~ slice.on
    /\ timer_enable
    /\ UNCHANGED <<clocks, wd, task>>

DisableScheduling ==
    /\ At("idle") /\ slice.on
    /\ timer_disable
    /\ UNCHANGED <<clocks, wd, task>>
-----------------------------------------------------------------------------
(* Sleeping *)

\* A round of waiting: load and start the watchdog.
StartWatchdog(w, count) == watchdog_enable(watchdog_set_load(w, count))

\* msleep and microsleep up to their first wait; nothing of the watchdog can
\* interrupt them, as they begin with watchdog_disable.  The scheduler sleeps
\* with its timer switched off.
SleepStart(count, scheduler) ==
    LET first == count % (WdWrap - 1)
    IN  /\ wd' = StartWatchdog(watchdog_set_function(wd, WATCHDOG_WAIT), first)
        /\ task' = [pc |-> "check", waited |-> 0, count |-> count,
                    overflows |-> count \div (WdWrap - 1), scheduler |-> scheduler,
                    enabled |-> wd.on, load |-> wd.load, function |-> wd.function]
        /\ slice' = IF scheduler THEN [slice EXCEPT !.on = FALSE] ELSE slice
        /\ fiqs' = (fiqs \cup {WatchdogLine})
                     \ (IF scheduler THEN {FirstTimerLine} ELSE {})
        /\ UNCHANGED clocks

msleep(milis) ==
    /\ At("idle") /\ milis > 0
    /\ SleepStart(msleep_count(milis), FALSE)

microsleep(micro) ==
    /\ At("idle") /\ micro > 0
    /\ SleepStart(microsleep_count(micro), FALSE)

\* the scheduler has only sleeping threads left
SchedulerSleep(milis) ==
    /\ At("idle") /\ slice.on /\ milis > 0
    /\ SleepStart(msleep_count(milis), TRUE)

\* mutant: any interrupt ends the wait
AnyWake == ~ wd.on \/ task.waited > 0
WaitOver == ~ wd.on

\* while (watchdog_enabled()) wait_for_interrupt(); the test and the wait are
\* two instructions.
CheckEnabled ==
    /\ At("check") /\ ~ WaitOver
    /\ task' = [task EXCEPT !.pc = "wfi_next"]
    /\ UNCHANGED <<clocks, slice, wd, fiqs>>

wait_for_interrupt ==
    /\ At("wfi_next")
    /\ task' = [task EXCEPT !.pc = "wfi"]
    /\ UNCHANGED <<clocks, slice, wd, fiqs>>

\* the next round, of 0xffffffff counts
NextRound ==
    /\ At("check") /\ WaitOver /\ task.overflows > 0
    /\ wd' = StartWatchdog(wd, WdWrap - 1)
    /\ fiqs' = fiqs \cup {WatchdogLine}
    /\ task' = [task EXCEPT !.overflows = @ - 1]
    /\ UNCHANGED <<clocks, slice>>

\* The end restores function and load, and restarts a watchdog that was on if
\* its line still is a FIQ; a scheduler switches its timer on again.
SleepEnd ==
    /\ At("check") /\ WaitOver /\ task.overflows = 0
    /\ LET restart == task.enabled /\ WatchdogLine \in fiqs
           restored == watchdog_set_load(
                           watchdog_set_function(wd, task.function), task.load)
       IN  /\ wd' = IF restart THEN watchdog_enable(restored) ELSE restored
           /\ fiqs' = (IF task.enabled THEN fiqs ELSE fiqs \ {WatchdogLine})
                        \cup (IF task.scheduler THEN {FirstTimerLine} ELSE {})
    /\ slice' = IF task.scheduler THEN [slice EXCEPT !.on = TRUE] ELSE slice
    /\ task' = [pc |-> "slept", waited |-> task.waited, count |-> task.count]
    /\ UNCHANGED clocks

SleepReturns ==
    /\ At("slept")
    /\ task' = Idle
    /\ UNCHANGED <<clocks, slice, wd, fiqs>>
-----------------------------------------------------------------------------
Fiq == FiqRelay \/ FiqHandle
Sleeper == CheckEnabled \/ wait_for_interrupt \/ NextRound \/ SleepEnd \/ SleepReturns

Next ==
    \/ RtcTick \/ SysTick \/ SliceTick \/ WdTick \/ OtherIrq \/ NdlessStart
    \/ FiqRelay \/ FiqHandle
    \/ \E kind \in {"unix", "milli", "micro"} : ReadFirst(kind)
    \/ ReadSecond \/ ReadReturns
    \/ \E t \in Times : systime_set_unix(t) \/ systime_set_unix_milli(t)
    \/ Boot \/ SetRtc \/ SetOverflowsOfTimer \/ SetTimer
    \/ EnableScheduling \/ DisableScheduling
    \/ \E t \in Sleeps : msleep(t) \/ microsleep(t) \/ SchedulerSleep(t)
    \/ CheckEnabled \/ wait_for_interrupt \/ NextRound \/ SleepEnd \/ SleepReturns

\* The watchdog counts, FIQs are delivered, the processor executes the
\* sleeper's code and TI-OS has timers of its own whose interrupts keep coming.
\* FIQs are far apart, so that the sleeper runs between them (strong fairness).
Fairness == WF_vars(WdTick) /\ WF_vars(Fiq) /\ SF_vars(Sleeper) /\ WF_vars(OtherIrq)

Spec == Init /\ [][Next]_vars /\ Fairness
-----------------------------------------------------------------------------

\* The seconds can be reconstructed from the RTC and the overflows counted,
\* one of which may still wait for its FIQ, unless an overflow fell between
\* the two writes of a set.
SecondsKept ==
    "seconds" \in exact /\ task.pc # "rtc" =>
        UnixOf(timer_seconds_overflows, rtc.value)
            + (IF rtc.raw THEN RtcWrap ELSE 0) = secs

\* So can the ticks of SYSTIME_TIMER, also while the scheduler has its
\* interrupt line switched off, unless the timer overflows twice meanwhile,
\* a set finds an overflow not handled yet, or it was systime_set_unix_milli.
MillisKept ==
    "millis" \in exact /\ task.pc # "load" =>
        timer_milis_overflows * TimerWrap + (TimerWrap - 1 - sys.value)
            + (IF sys.raw THEN TimerWrap ELSE 0) = ticks

\* systime_unix, systime_unix_milli and systime_unix_micro return a time the
\* clock had while they ran, whichever operand they read first, unless an
\* overflow falls between the two reads or is not counted yet.
ReadExact ==
    task.pc = "result" /\ task.clean /\ ClockOf(task.kind) \in exact =>
        task.time \in task.since .. task.until

\* A sleep takes all the counts it was asked for, over all its rounds: no
\* other interrupt and no watchdog FIQ left over from before cuts it short.
SleepFull == task.pc = "slept" => task.waited = task.count

\* Every sleep ends, also when the watchdog's FIQ comes between the test of
\* watchdog_enabled and the wait for interrupt.
SleepEnds == (task.pc = "check") ~> (task.pc = "idle")
=============================================================================
