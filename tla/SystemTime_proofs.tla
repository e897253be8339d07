-------------------------- MODULE SystemTime_proofs --------------------------
(***************************************************************************)
(* Proofs about SystemTime: for every width of the counters and every      *)
(* argument, overflows are counted exactly, readings are right and sleeps  *)
(* take their time, wherever the FIQ handler interrupts the code.          *)
(***************************************************************************)
EXTENDS SystemTime, TLAPS

Clocks == {"seconds", "millis"}
Kinds == {"unix", "milli", "micro"}
Functions == {WATCHDOG_INVALID, WATCHDOG_WAIT}

ReadTasks == [pc : {"read"}, kind : Kinds, clock : Clocks, first : {"overflows", "value"},
              seen : Nat, clean : BOOLEAN, since : Nat]
ResultTasks == [pc : {"result"}, kind : Kinds, time : Int, clean : BOOLEAN,
                since : Nat, until : Nat]
SetPcs == {"rtc", "milis", "load"}
SetTasks == [pc : SetPcs, kind : {"unix", "milli"}, unix : Nat, clock : Clocks, clean : BOOLEAN]
SleepPcs == {"check", "wfi_next", "wfi"}
SleepTasks == [pc : SleepPcs, waited : Nat, count : Nat, overflows : Nat, scheduler : BOOLEAN,
               enabled : BOOLEAN, load : Nat, function : Functions]
SleptTasks == [pc : {"slept"}, waited : Nat, count : Nat]

\* What the task remembers, by where it is.
Shape(t) ==
    /\ t.pc \in {"idle", "boot", "read", "result", "slept"} \union SetPcs \union SleepPcs
    /\ t.pc = "read" => t \in ReadTasks
    /\ t.pc = "result" => t \in ResultTasks
    /\ t.pc \in SetPcs => t \in SetTasks
    /\ t.pc \in {"milis", "load"} => t.clock = "millis"
    /\ t.pc \in SleepPcs => t \in SleepTasks
    /\ t.pc = "slept" => t \in SleptTasks

Rtcs == [value : 0 .. RtcWrap - 1, raw : BOOLEAN]
Timers == [value : 0 .. TimerWrap - 1, raw : BOOLEAN]
Watchdogs == [on : BOOLEAN, left : Nat, load : Nat, raw : BOOLEAN, function : Functions]

Typed ==
    /\ rtc \in Rtcs /\ sys \in Timers /\ slice \in [on : BOOLEAN, raw : BOOLEAN]
    /\ wd \in Watchdogs
    /\ RtcLine \in fiqs
    /\ timer_seconds_overflows \in Nat /\ timer_milis_overflows \in Nat
    /\ secs \in Nat /\ ticks \in Nat /\ exact \subseteq Clocks
    /\ Shape(task)

-----------------------------------------------------------------------------
(***************************************************************************)
(* Arithmetic.                                                             *)
(***************************************************************************)
LEMMA OneMore ==
    ASSUME NEW a \in Nat, NEW w \in Nat
    PROVE  (a + 1) * w = a * w + w /\ a * w \in Nat
OBVIOUS

LEMMA DivMod ==
    ASSUME NEW a \in Nat, NEW w \in Nat \ {0}
    PROVE  (a \div w) * w + (a % w) = a /\ a \div w \in Nat /\ a % w \in 0 .. w - 1
OBVIOUS

LEMMA StepUp ==
    ASSUME NEW w \in Nat \ {0}, NEW v \in 0 .. w - 1
    PROVE  (v + 1) % w = IF v = w - 1 THEN 0 ELSE v + 1
OBVIOUS

LEMMA StepDown ==
    ASSUME NEW w \in Nat \ {0}, NEW v \in 0 .. w - 1
    PROVE  (v - 1) % w = IF v = 0 THEN w - 1 ELSE v - 1
OBVIOUS

LEMMA DivMono ==
    ASSUME NEW a \in Nat, NEW b \in Nat, a <= b, NEW w \in Nat \ {0}
    PROVE  a \div w <= b \div w /\ a \div w \in Nat
OBVIOUS

LEMMA MulMono ==
    ASSUME NEW a \in Nat, NEW b \in Nat, a <= b, NEW w \in Nat
    PROVE  a * w <= b * w /\ a * w \in Nat
OBVIOUS

LEMMA DivSplit ==
    ASSUME NEW q \in Nat, NEW r \in Nat, NEW w \in Nat \ {0}
    PROVE  (q * w + r) \div w = q + r \div w
OBVIOUS

LEMMA Widths ==
    /\ RtcWrap \in Nat \ {0} /\ TimerWrap \in Nat \ {0} /\ WdWrap \in Nat \ {0, 1}
    /\ TicksPerMilli \in Nat \ {0} /\ MillisPerSecond \in Nat \ {0}
    /\ MicrosPerMilli \in Nat /\ WdPerMilli \in Nat /\ WdPerMicro \in Nat
BY WidthAssumption, ArgumentsAssumption

USE Widths

\* A wrap of the timer is a whole number of milliseconds.
LEMMA WholeMillis ==
    /\ TimerWrap \div TicksPerMilli \in Nat \ {0}
    /\ (TimerWrap \div TicksPerMilli) * TicksPerMilli = TimerWrap
<1> DEFINE m == TimerWrap \div TicksPerMilli
<1>1. m * TicksPerMilli + (TimerWrap % TicksPerMilli) = TimerWrap /\ m \in Nat
  BY DivMod
<1>2. m * TicksPerMilli = TimerWrap
  BY <1>1, WidthAssumption
<1>3. m # 0
  BY <1>2
<1>4. QED
  BY <1>1, <1>2, <1>3

-----------------------------------------------------------------------------
(***************************************************************************)
(* What the devices and the FIQ handler do to the task.                    *)
(***************************************************************************)
LEMMA WrappedShape ==
    ASSUME Shape(task), NEW clock
    PROVE  /\ Shape(Wrapped(clock)) /\ Wrapped(clock).pc = task.pc
           /\ task.pc \notin {"read", "rtc", "load"} => Wrapped(clock) = task
           /\ task.pc \in {"read", "rtc", "load"} =>
                /\ Wrapped(clock).clock = task.clock /\ Wrapped(clock).kind = task.kind
                /\ Wrapped(clock).clean => task.clean /\ task.clock # clock
           /\ task.pc = "read" =>
                /\ Wrapped(clock).first = task.first /\ Wrapped(clock).seen = task.seen
                /\ Wrapped(clock).since = task.since
           /\ task.pc \in {"rtc", "load"} => Wrapped(clock).unix = task.unix
<1>1. CASE task.pc = "read"
  <2>1. task \in ReadTasks
    BY <1>1 DEF Shape
  <2>2. CASE task.clock = clock
    <3>1. Wrapped(clock) = [task EXCEPT !.clean = FALSE]
      BY <1>1, <2>2 DEF Wrapped
    <3>2. Wrapped(clock) \in ReadTasks
      BY <2>1, <3>1 DEF ReadTasks
    <3>3. QED
      BY <1>1, <2>1, <2>2, <3>1, <3>2 DEF ReadTasks, Shape, SetPcs, SleepPcs
  <2>3. CASE task.clock # clock
    BY <1>1, <2>1, <2>3 DEF Wrapped
  <2>4. QED
    BY <2>2, <2>3
<1>2. CASE task.pc \in {"rtc", "load"}
  <2>1. task \in SetTasks
    BY <1>2 DEF Shape, SetPcs
  <2>2. CASE task.clock = clock
    <3>1. Wrapped(clock) = [task EXCEPT !.clean = FALSE]
      BY <1>2, <2>2 DEF Wrapped
    <3>2. Wrapped(clock) \in SetTasks
      BY <2>1, <3>1 DEF SetTasks
    <3>3. QED
      BY <1>2, <2>1, <2>2, <3>1, <3>2 DEF SetTasks, Shape, SetPcs, SleepPcs
  <2>3. CASE task.clock # clock
    BY <1>2, <2>1, <2>3 DEF Wrapped
  <2>4. QED
    BY <2>2, <2>3
<1>3. CASE task.pc \notin {"read", "rtc", "load"}
  BY <1>3 DEF Wrapped
<1>4. QED
  BY <1>1, <1>2, <1>3

LEMMA WokenShape ==
    ASSUME Shape(task)
    PROVE  /\ Shape(Woken)
           /\ task.pc \notin SleepPcs => Woken = task
           /\ task.pc \in SleepPcs =>
                /\ Woken.pc \in SleepPcs /\ Woken.waited = task.waited
                /\ Woken.count = task.count /\ Woken.overflows = task.overflows
<1>1. CASE task.pc = "wfi"
  <2>1. task \in SleepTasks /\ Woken = [task EXCEPT !.pc = "check"]
    BY <1>1 DEF Shape, SleepPcs, Woken
  <2>2. Woken \in SleepTasks /\ Woken.pc = "check"
    BY <2>1 DEF SleepTasks, SleepPcs
  <2>3. QED
    BY <1>1, <2>1, <2>2 DEF SleepTasks, SleepPcs, SetPcs, Shape
<1>2. CASE task.pc # "wfi"
  BY <1>2 DEF Woken
<1>3. QED
  BY <1>1, <1>2

\* A count of the watchdog counts for a sleep under way.
Counted == IF task.pc \in SleepPcs /\ wd.left > 0 THEN [task EXCEPT !.waited = @ + 1] ELSE task

LEMMA CountedShape ==
    ASSUME Shape(task), NEW n \in Nat, wd.left = n
    PROVE  /\ Shape(Counted) /\ Counted.pc = task.pc
           /\ task.pc \notin SleepPcs => Counted = task
           /\ task.pc \in SleepPcs =>
                /\ Counted.waited = task.waited + (IF n > 0 THEN 1 ELSE 0)
                /\ Counted.count = task.count /\ Counted.overflows = task.overflows
<1>1. CASE task.pc \in SleepPcs /\ n > 0
  <2>1. task \in SleepTasks /\ Counted = [task EXCEPT !.waited = @ + 1]
    BY <1>1 DEF Shape, Counted
  <2>2. Counted \in SleepTasks /\ Counted.pc = task.pc
    BY <2>1 DEF SleepTasks
  <2>3. QED
    BY <1>1, <2>1, <2>2 DEF SleepTasks, SleepPcs, SetPcs, Shape
<1>2. CASE ~ (task.pc \in SleepPcs /\ n > 0)
  <2>1. Counted = task
    BY <1>2 DEF Counted
  <2>2. task.pc \in SleepPcs => n = 0 /\ task.waited \in Nat
    BY <1>2 DEF Shape, SleepTasks
  <2>3. QED
    BY <2>1, <2>2
<1>3. QED
  BY <1>1, <1>2

LEMMA TrueTimeNat ==
    ASSUME Typed, NEW kind \in Kinds
    PROVE  TrueTime(kind) \in Nat
<1>1. ticks * MicrosPerMilli \in Nat /\ ticks \in Nat /\ secs \in Nat
  BY MulMono DEF Typed
<1>2. ticks \div TicksPerMilli \in Nat /\ (ticks * MicrosPerMilli) \div TicksPerMilli \in Nat
  BY <1>1, DivMod
<1>3. QED
  BY <1>1, <1>2 DEF TrueTime, Kinds

LEMMA ReadingInt ==
    ASSUME NEW kind \in Kinds, NEW o \in Nat, NEW v \in Nat
    PROVE  Reading(kind, o, v) \in Int
BY DEF Reading, Kinds, UnixOf, MilliOf, MicroOf

LEMMA CountNat ==
    ASSUME NEW t \in Int, t > 0
    PROVE  msleep_count(t) \in Nat /\ microsleep_count(t) \in Nat
<1>1. WdPerMilli * t \in Nat /\ WdPerMicro * t \in Nat
  BY MulMono
<1>2. (WdPerMicro * t) % WdWrap \in Nat
  BY <1>1, DivMod
<1>3. QED
  BY <1>1, <1>2 DEF msleep_count, microsleep_count

LEMMA SleepStartTyped ==
    ASSUME Typed, NEW count \in Nat, NEW sched \in BOOLEAN, SleepStart(count, sched)
    PROVE  Typed'
<1>2. count % (WdWrap - 1) \in Nat /\ count \div (WdWrap - 1) \in Nat
  <2> DEFINE w == WdWrap - 1
  <2>1. w \in Nat \ {0}
    OBVIOUS
  <2> HIDE DEF w
  <2>2. count \div w \in Nat /\ count % w \in 0 .. w - 1
    BY <2>1, DivMod
  <2>3. QED
    BY <2>2 DEF w
<1>3. task' \in SleepTasks /\ task'.pc = "check"
  BY <1>2 DEF SleepStart, SleepTasks, SleepPcs, Typed, Watchdogs
<1>4. Shape(task')
  BY <1>3 DEF Shape, SleepPcs, SetPcs
<1>5. wd' \in Watchdogs
  BY <1>2 DEF SleepStart, StartWatchdog, watchdog_enable, watchdog_set_load,
              watchdog_set_function, Typed, Watchdogs, Functions
<1>6. slice' \in [on : BOOLEAN, raw : BOOLEAN]
  BY DEF SleepStart, Typed
<1>8. RtcLine \in fiqs'
  BY DEF SleepStart, Typed, RtcLine, FirstTimerLine
<1>7. QED
  BY <1>4, <1>5, <1>6, <1>8 DEF SleepStart, clocks, Typed

\* The arguments of the sets are whole; SetUnix also serves Boot.
LEMMA SetOverflowsTyped ==
    ASSUME NEW unix \in Nat, NEW kind \in {"unix", "milli"}, SetOverflowsOfRtc(unix, kind)
    PROVE  /\ timer_seconds_overflows' \in Nat /\ Shape(task')
           /\ task'.pc = "rtc" /\ task'.unix = unix /\ task'.clock = "seconds"
<1>1. unix \div RtcWrap \in Nat
  BY DivMod
<1>2. task' \in SetTasks /\ task'.pc = "rtc" /\ task'.unix = unix /\ task'.clock = "seconds"
  BY DEF SetOverflowsOfRtc, SetTasks, SetPcs, Clocks
<1>3. QED
  BY <1>1, <1>2 DEF SetOverflowsOfRtc, Shape, SetPcs, SleepPcs

LEMMA IdleShape == Shape(Idle) /\ Idle.pc = "idle"
BY DEF Idle, Shape, SetPcs, SleepPcs

\* The value the timer is loaded with stays in its range.
LEMMA LoadRange ==
    ASSUME NEW m \in Nat, m * TicksPerMilli < TimerWrap
    PROVE  TimerWrap - 1 - m * TicksPerMilli \in 0 .. TimerWrap - 1
BY MulMono

LEMMA FractionRange ==
    ASSUME NEW milis \in Nat
    PROVE  LET seconds == milis \div MillisPerSecond
               rest == milis - seconds * MillisPerSecond
           IN  seconds \in Nat /\ rest \in Nat /\ rest * TicksPerMilli < TimerWrap
<1> DEFINE seconds == milis \div MillisPerSecond
           rest == milis - seconds * MillisPerSecond
<1>1. /\ seconds * MillisPerSecond + (milis % MillisPerSecond) = milis /\ seconds \in Nat
      /\ milis % MillisPerSecond \in 0 .. MillisPerSecond - 1
  BY DivMod
<1>2. rest \in Nat /\ rest + 1 <= MillisPerSecond
  BY <1>1
<1> HIDE DEF rest
<1>3. (rest + 1) * TicksPerMilli <= MillisPerSecond * TicksPerMilli
  BY <1>2, MulMono
<1>4. (rest + 1) * TicksPerMilli = rest * TicksPerMilli + TicksPerMilli /\ rest * TicksPerMilli \in Nat
  BY <1>2, OneMore
<1>5. rest * TicksPerMilli < TimerWrap
  BY <1>3, <1>4, WidthAssumption
<1>6. QED
  BY <1>1, <1>2, <1>5 DEF rest

LEMMA RestRange ==
    ASSUME NEW unix \in Nat
    PROVE  LET wrap == TimerWrap \div TicksPerMilli
               rest == (unix * MillisPerSecond) % wrap
               q == (unix * MillisPerSecond) \div wrap
           IN  /\ rest \in Nat /\ q \in Nat /\ rest * TicksPerMilli < TimerWrap
               /\ q * TimerWrap + rest * TicksPerMilli = unix * MillisPerSecond * TicksPerMilli
<1> DEFINE wrap == TimerWrap \div TicksPerMilli
           u == unix * MillisPerSecond
           rest == u % wrap
           q == u \div wrap
<1>1. wrap \in Nat \ {0} /\ wrap * TicksPerMilli = TimerWrap /\ u \in Nat
  BY WholeMillis, MulMono
<1> HIDE DEF wrap, u
<1>2. q * wrap + rest = u /\ q \in Nat /\ rest \in 0 .. wrap - 1
  BY <1>1, DivMod
<1> HIDE DEF rest, q
<1>3. rest \in Nat /\ rest + 1 <= wrap
  BY <1>1, <1>2
<1>4. (rest + 1) * TicksPerMilli <= wrap * TicksPerMilli
  BY <1>1, <1>3, MulMono
<1>5. (rest + 1) * TicksPerMilli = rest * TicksPerMilli + TicksPerMilli /\ rest * TicksPerMilli \in Nat
  BY <1>3, OneMore
<1>6. rest * TicksPerMilli < TimerWrap
  BY <1>1, <1>4, <1>5
<1>7. q * TimerWrap + rest * TicksPerMilli = u * TicksPerMilli
  <2>1. q * (wrap * TicksPerMilli) = (q * wrap) * TicksPerMilli
    BY <1>1, <1>2
  <2>2. (q * wrap + rest) * TicksPerMilli = (q * wrap) * TicksPerMilli + rest * TicksPerMilli
    BY <1>1, <1>2, <1>3
  <2>3. QED
    BY <1>1, <1>2, <2>1, <2>2
<1>8. QED
  BY <1>2, <1>3, <1>6, <1>7 DEF wrap, u, rest, q

-----------------------------------------------------------------------------
(***************************************************************************)
(* Types.                                                                  *)
(***************************************************************************)
LEMMA TypedStep ==
    ASSUME Typed, [Next]_vars
    PROVE  Typed'
<1> USE DEF Typed
<1>1. CASE RtcTick
  <2>1. rtc' \in Rtcs
    <3>1. rtc.value \in 0 .. RtcWrap - 1
      BY DEF Rtcs
    <3>2. (rtc.value + 1) % RtcWrap \in 0 .. RtcWrap - 1
      BY <3>1, StepUp
    <3>3. QED
      BY <1>1, <3>2 DEF RtcTick, Rtcs
  <2>2. Shape(task')
    BY <1>1, WrappedShape DEF RtcTick
  <2>3. QED
    BY <1>1, <2>1, <2>2 DEF RtcTick
<1>2. CASE SysTick
  <2>1. sys' \in Timers
    <3>1. sys.value \in 0 .. TimerWrap - 1
      BY DEF Timers
    <3>2. (sys.value - 1) % TimerWrap \in 0 .. TimerWrap - 1
      BY <3>1, StepDown
    <3>3. QED
      BY <1>2, <3>2 DEF SysTick, Timers
  <2>2. Shape(task')
    BY <1>2, WrappedShape DEF SysTick
  <2>3. exact' \subseteq Clocks
    BY <1>2 DEF SysTick
  <2>4. QED
    BY <1>2, <2>1, <2>2, <2>3 DEF SysTick
<1>3. CASE SliceTick
  BY <1>3 DEF SliceTick, clocks
<1>4. CASE WdTick
  <2>1. wd' \in Watchdogs
    <3>1. CASE wd.left = 0
      <4>1. wd' = [wd EXCEPT !.raw = TRUE, !.left = wd.load]
        BY <1>4, <3>1 DEF WdTick
      <4>2. QED
        BY <4>1 DEF Watchdogs
    <3>2. CASE wd.left # 0
      <4>1. wd' = [wd EXCEPT !.left = wd.left - 1] /\ wd.left - 1 \in Nat
        BY <1>4, <3>2 DEF WdTick, Watchdogs
      <4>2. QED
        BY <4>1 DEF Watchdogs
    <3>3. QED
      BY <3>1, <3>2
  <2>2. Shape(task')
    <3>1. task' = Counted
      BY <1>4 DEF WdTick, Counted, SleepPcs
    <3>2. wd.left \in Nat
      BY DEF Watchdogs
    <3>3. QED
      BY <3>1, <3>2, CountedShape
  <2>3. QED
    BY <1>4, <2>1, <2>2 DEF WdTick, clocks
<1>5. CASE OtherIrq
  <2>1. task' = Woken
    BY <1>5 DEF OtherIrq, Woken
  <2>2. QED
    BY <1>5, <2>1, WokenShape DEF OtherIrq, clocks
<1>6. CASE NdlessStart
  <2>1. wd' \in Watchdogs
    BY <1>6 DEF NdlessStart, Watchdogs
  <2>2. QED
    BY <1>6, <2>1 DEF NdlessStart, clocks
<1>7. CASE FiqRelay
  <2>1. wd' \in Watchdogs
    BY <1>7 DEF FiqRelay, watchdog_irq_clear, Watchdogs
  <2>2. QED
    BY <1>7, <2>1, WokenShape DEF FiqRelay, clocks
<1>8. CASE FiqHandle
  <2>1. wd' \in Watchdogs
    BY <1>8 DEF FiqHandle, watchdog_irq_clear, watchdog_disable, Watchdogs
  <2>2. rtc' \in Rtcs
    BY <1>8 DEF FiqHandle, rtc_irq_clear, Rtcs
  <2>3. sys' \in Timers
    BY <1>8 DEF FiqHandle, timer_irq_clear, Timers
  <2>4. slice' \in [on : BOOLEAN, raw : BOOLEAN]
    BY <1>8 DEF FiqHandle, timer_irq_clear
  <2>5. RtcLine \in fiqs'
    BY <1>8 DEF FiqHandle, RtcLine, WatchdogLine
  <2>6. timer_seconds_overflows' \in Nat /\ timer_milis_overflows' \in Nat
    BY <1>8 DEF FiqHandle
  <2>7. Shape(task') /\ UNCHANGED <<secs, ticks, exact>>
    BY <1>8, WokenShape DEF FiqHandle
  <2>8. QED
    BY <2>1, <2>2, <2>3, <2>4, <2>5, <2>6, <2>7
<1>9. ASSUME NEW kind \in Kinds, ReadFirst(kind) PROVE Typed'
  <2>1. Overflows(kind) \in Nat /\ Counter(kind).value \in Nat
    BY DEF Overflows, Counter, Rtcs, Timers
  <2>2. TrueTime(kind) \in Nat /\ ClockOf(kind) \in Clocks
    BY TrueTimeNat DEF ClockOf, Clocks
  <2>3. task' \in ReadTasks /\ task'.pc = "read"
    BY <1>9, <2>1, <2>2 DEF ReadFirst, ReadTasks
  <2>4. Shape(task')
    BY <2>3 DEF Shape, SetPcs, SleepPcs
  <2>5. QED
    BY <1>9, <2>4 DEF ReadFirst, clocks
<1>10. CASE ReadSecond
  <2> DEFINE kind == task.kind
             now == IF task.first = "overflows"
                      THEN Reading(kind, task.seen, Counter(kind).value)
                      ELSE Reading(kind, Overflows(kind), task.seen)
  <2>1. /\ kind \in Kinds /\ task.seen \in Nat /\ task.clean \in BOOLEAN /\ task.since \in Nat
    BY <1>10 DEF ReadSecond, At, Shape, ReadTasks
  <2>2. Overflows(kind) \in Nat /\ Counter(kind).value \in Nat
    BY DEF Overflows, Counter, Rtcs, Timers
  <2>3. task' = [pc |-> "result", kind |-> kind, time |-> now, clean |-> task.clean,
                 since |-> task.since, until |-> TrueTime(kind)]
    BY <1>10 DEF ReadSecond
  <2> HIDE DEF kind
  <2>4. now \in Int /\ TrueTime(kind) \in Nat
    BY <2>1, <2>2, ReadingInt, TrueTimeNat
  <2> HIDE DEF now
  <2>5. task' \in ResultTasks /\ task'.pc = "result"
    BY <2>1, <2>3, <2>4 DEF ResultTasks
  <2>6. Shape(task')
    BY <2>5 DEF Shape, SetPcs, SleepPcs
  <2>7. QED
    BY <1>10, <2>6 DEF ReadSecond, clocks
<1>11. CASE ReadReturns
  BY <1>11, IdleShape DEF ReadReturns, clocks
<1>12. ASSUME NEW unix \in Int, SetUnix(unix) PROVE Typed'
  <2>1. CASE unix <= 0
    BY <1>12, <2>1, IdleShape DEF SetUnix
  <2>2. CASE unix > 0
    <3>1. unix \in Nat /\ SetOverflowsOfRtc(unix, "unix")
      BY <1>12, <2>2 DEF SetUnix
    <3>2. timer_seconds_overflows' \in Nat /\ Shape(task')
      BY <3>1, SetOverflowsTyped
    <3>3. QED
      BY <1>12, <3>2 DEF SetUnix
  <2>3. QED
    BY <2>1, <2>2
<1>13. ASSUME NEW t \in Times, systime_set_unix(t) PROVE Typed'
  BY <1>12, <1>13, ArgumentsAssumption DEF systime_set_unix
<1>14. CASE Boot
  <2>1. UnixOf(timer_seconds_overflows, rtc.value) \in Int
    BY DEF UnixOf, Rtcs
  <2>2. QED
    BY <1>12, <1>14, <2>1 DEF Boot
<1>15. ASSUME NEW t \in Times, systime_set_unix_milli(t) PROVE Typed'
  <2> DEFINE seconds == t \div MillisPerSecond
             rest == t - seconds * MillisPerSecond
  <2>1. t \in Nat
    BY <1>15, ArgumentsAssumption DEF systime_set_unix_milli
  <2>2. /\ sys' = timer_set_load(sys, TimerWrap - 1 - rest * TicksPerMilli)
        /\ ticks' = t * TicksPerMilli /\ exact' = exact \ {"millis"}
        /\ SetOverflowsOfRtc(seconds, "milli")
        /\ UNCHANGED <<rtc, timer_milis_overflows, secs, slice, wd, fiqs>>
    BY <1>15 DEF systime_set_unix_milli
  <2>3. seconds \in Nat /\ rest \in Nat /\ rest * TicksPerMilli < TimerWrap
    BY <2>1, FractionRange
  <2> HIDE DEF seconds, rest
  <2>4. TimerWrap - 1 - rest * TicksPerMilli \in 0 .. TimerWrap - 1
    BY <2>3, LoadRange
  <2>5. sys' \in Timers
    BY <2>2, <2>4 DEF timer_set_load, Timers
  <2>6. timer_seconds_overflows' \in Nat /\ Shape(task')
    BY <2>2, <2>3, SetOverflowsTyped
  <2>7. ticks' \in Nat
    BY <2>1, <2>2, MulMono
  <2>8. QED
    BY <2>2, <2>5, <2>6, <2>7
<1>16. CASE SetRtc
  <2>1. task \in SetTasks /\ task.pc = "rtc"
    BY <1>16 DEF SetRtc, At, Shape, SetPcs
  <2>2. task.unix \in Nat
    BY <2>1 DEF SetTasks
  <2>3. RtcValue(task.unix) \in 0 .. RtcWrap - 1
    BY <2>2, DivMod DEF RtcValue
  <2>4. rtc' \in Rtcs
    BY <1>16, <2>3 DEF SetRtc, Rtcs
  <2>5. Shape(task')
    <3>1. CASE task.kind = "milli"
      BY <1>16, <3>1, IdleShape DEF SetRtc
    <3>2. CASE task.kind # "milli"
      <4>1. task' = [task EXCEPT !.pc = "milis", !.clock = "millis"]
        BY <1>16, <3>2 DEF SetRtc
      <4>2. task' \in SetTasks /\ task'.pc = "milis" /\ task'.clock = "millis"
        BY <2>1, <4>1 DEF SetTasks, SetPcs, Clocks
      <4>3. QED
        BY <4>2 DEF Shape, SetPcs, SleepPcs
    <3>3. QED
      BY <3>1, <3>2
  <2>6. secs' = task.unix /\ exact' \subseteq Clocks
    BY <1>16 DEF SetRtc, Settled, Clocks
  <2>7. QED
    BY <1>16, <2>2, <2>4, <2>5, <2>6 DEF SetRtc
<1>17. CASE SetOverflowsOfTimer
  <2>1. task \in SetTasks /\ task.clock = "millis"
    BY <1>17 DEF SetOverflowsOfTimer, At, Shape, SetPcs
  <2>2. OverflowsOf(task.unix) \in Nat
    <3>1. task.unix \in Nat
      BY <2>1 DEF SetTasks
    <3>2. QED
      BY <3>1, RestRange DEF OverflowsOf
  <2>3. task' \in SetTasks /\ task'.pc = "load" /\ task'.clock = "millis"
    BY <1>17, <2>1 DEF SetOverflowsOfTimer, SetTasks, SetPcs
  <2>4. Shape(task')
    BY <2>3 DEF Shape, SetPcs, SleepPcs
  <2>5. QED
    BY <1>17, <2>2, <2>4 DEF SetOverflowsOfTimer
<1>18. CASE SetTimer
  <2> DEFINE rest == (task.unix * MillisPerSecond) % (TimerWrap \div TicksPerMilli)
  <2>1. task.unix \in Nat
    BY <1>18 DEF SetTimer, At, Shape, SetPcs, SetTasks
  <2>2. rest \in Nat /\ rest * TicksPerMilli < TimerWrap
    BY <2>1, RestRange
  <2>3. sys' = timer_set_load(sys, TimerWrap - 1 - rest * TicksPerMilli)
    BY <1>18 DEF SetTimer
  <2> HIDE DEF rest
  <2>4. TimerWrap - 1 - rest * TicksPerMilli \in 0 .. TimerWrap - 1
    BY <2>2, LoadRange
  <2>5. sys' \in Timers
    BY <2>3, <2>4 DEF timer_set_load, Timers
  <2>6. ticks' \in Nat
    <3>1. task.unix * MillisPerSecond \in Nat
      BY <2>1, MulMono
    <3>2. task.unix * MillisPerSecond * TicksPerMilli \in Nat
      BY <3>1, MulMono
    <3>3. QED
      BY <1>18, <3>2 DEF SetTimer
  <2>7. exact' \subseteq Clocks
    BY <1>18 DEF SetTimer, Settled, Clocks
  <2>8. QED
    BY <1>18, <2>5, <2>6, <2>7, IdleShape DEF SetTimer
<1>19. CASE EnableScheduling \/ DisableScheduling
  <2>1. slice' \in [on : BOOLEAN, raw : BOOLEAN]
    BY <1>19 DEF EnableScheduling, DisableScheduling, timer_enable, timer_disable
  <2>2. RtcLine \in fiqs'
    BY <1>19 DEF EnableScheduling, DisableScheduling, timer_enable, timer_disable, RtcLine,
                 FirstTimerLine
  <2>3. QED
    BY <1>19, <2>1, <2>2 DEF EnableScheduling, DisableScheduling, clocks
<1>20. ASSUME NEW t \in Sleeps, msleep(t) \/ microsleep(t) \/ SchedulerSleep(t) PROVE Typed'
  <2>1. t \in Int /\ t > 0
    BY <1>20, ArgumentsAssumption DEF msleep, microsleep, SchedulerSleep
  <2>2. msleep_count(t) \in Nat /\ microsleep_count(t) \in Nat
    BY <2>1, CountNat
  <2>3. QED
    BY <1>20, <2>2, SleepStartTyped DEF msleep, microsleep, SchedulerSleep
<1>21. CASE CheckEnabled \/ wait_for_interrupt
  <2>1. task \in SleepTasks
    BY <1>21 DEF CheckEnabled, wait_for_interrupt, At, Shape, SleepPcs
  <2>2. task' \in SleepTasks /\ task'.pc \in {"wfi_next", "wfi"}
    BY <1>21, <2>1 DEF CheckEnabled, wait_for_interrupt, SleepTasks, SleepPcs
  <2>3. Shape(task')
    BY <2>2 DEF Shape, SetPcs, SleepPcs
  <2>4. QED
    BY <1>21, <2>3 DEF CheckEnabled, wait_for_interrupt, clocks
<1>22. CASE NextRound
  <2>1. task \in SleepTasks /\ task.overflows > 0 /\ task.pc = "check"
    BY <1>22 DEF NextRound, At, Shape, SleepPcs
  <2>2. task' = [task EXCEPT !.overflows = task.overflows - 1] /\ task.overflows - 1 \in Nat
    BY <1>22, <2>1 DEF NextRound, SleepTasks
  <2>3. task' \in SleepTasks /\ task'.pc = "check"
    BY <2>1, <2>2 DEF SleepTasks
  <2>4. Shape(task')
    BY <2>3 DEF Shape, SetPcs, SleepPcs
  <2>5. wd' \in Watchdogs
    <3>1. wd' = StartWatchdog(wd, WdWrap - 1)
      BY <1>22 DEF NextRound
    <3> DEFINE n == WdWrap - 1
    <3>2. n \in Nat
      OBVIOUS
    <3> HIDE DEF n
    <3>3. StartWatchdog(wd, n) \in Watchdogs
      BY <3>2 DEF StartWatchdog, watchdog_enable, watchdog_set_load, Watchdogs
    <3>4. QED
      BY <3>1, <3>3 DEF n
  <2>6. QED
    BY <1>22, <2>4, <2>5 DEF NextRound, clocks
<1>23. CASE SleepEnd
  <2>1. task \in SleepTasks
    BY <1>23 DEF SleepEnd, At, Shape, SleepPcs
  <2>2. task' \in SleptTasks /\ task'.pc = "slept"
    BY <1>23, <2>1 DEF SleepEnd, SleepTasks, SleptTasks
  <2>3. Shape(task')
    BY <2>2 DEF Shape, SetPcs, SleepPcs
  <2>4. wd' \in Watchdogs
    <3> DEFINE restored == watchdog_set_load(watchdog_set_function(wd, task.function), task.load)
    <3>1. task.function \in Functions /\ task.load \in Nat
      BY <2>1 DEF SleepTasks
    <3>2. restored \in Watchdogs
      BY <3>1 DEF watchdog_set_load, watchdog_set_function, Watchdogs
    <3>3. wd' = restored \/ wd' = watchdog_enable(restored)
      BY <1>23 DEF SleepEnd
    <3> HIDE DEF restored
    <3>4. QED
      BY <3>2, <3>3 DEF watchdog_enable, Watchdogs
  <2>5. slice' \in [on : BOOLEAN, raw : BOOLEAN]
    BY <1>23 DEF SleepEnd
  <2>6. RtcLine \in fiqs'
    BY <1>23 DEF SleepEnd, RtcLine, WatchdogLine
  <2>7. QED
    BY <1>23, <2>3, <2>4, <2>5, <2>6 DEF SleepEnd, clocks
<1>24. CASE SleepReturns
  BY <1>24, IdleShape DEF SleepReturns, clocks
<1>25. CASE UNCHANGED vars
  BY <1>25 DEF vars
<1>26. QED
  BY <1>1, <1>2, <1>3, <1>4, <1>5, <1>6, <1>7, <1>8, <1>9, <1>10, <1>11, <1>13, <1>14, <1>15,
     <1>16, <1>17, <1>18, <1>19, <1>20, <1>21, <1>22, <1>23, <1>24, <1>25 DEF Next, Kinds

-----------------------------------------------------------------------------
(***************************************************************************)
(* The seconds.                                                            *)
(***************************************************************************)

\* Between the two writes of a set the overflow counter is the new one, and no overflow
\* of the RTC is pending as long as the set is clean.
SettingSeconds ==
    task.pc = "rtc" => /\ task.clock = "seconds"
                       /\ task.clean => /\ ~ rtc.raw
                                        /\ timer_seconds_overflows = task.unix \div RtcWrap

SecondsInv == SecondsKept /\ SettingSeconds

\* The task goes on setting the RTC, or had nothing to do with it.
SameSetting(pc) ==
    /\ task'.pc = pc <=> task.pc = pc
    /\ task.pc = pc => /\ task'.clock = task.clock /\ task'.unix = task.unix
                       /\ task'.clean => task.clean

LEMMA SecondsFrame ==
    ASSUME SecondsInv, UNCHANGED <<rtc, timer_seconds_overflows, secs>>,
           "seconds" \in exact' => "seconds" \in exact, SameSetting("rtc")
    PROVE  SecondsInv'
BY DEF SecondsInv, SecondsKept, SettingSeconds, SameSetting

LEMMA WrappedSetting ==
    ASSUME Shape(task), NEW clock, task' = Wrapped(clock) \/ task' = task
    PROVE  SameSetting("rtc") /\ SameSetting("load")
<1>1. CASE task' = task
  BY <1>1 DEF SameSetting
<1>2. CASE task' = Wrapped(clock)
  BY <1>2, WrappedShape DEF SameSetting
<1>3. QED
  BY <1>1, <1>2

LEMMA WokenSetting ==
    ASSUME Shape(task), task' = Woken
    PROVE  SameSetting("rtc") /\ SameSetting("load")
<1>1. task.pc \notin SleepPcs => task' = task
  BY WokenShape
<1>2. task.pc \in SleepPcs => task'.pc \in SleepPcs
  BY WokenShape
<1>3. QED
  BY <1>1, <1>2 DEF SameSetting, SleepPcs

\* What leaves both clocks and their settings alone.
Elsewhere ==
    \/ SliceTick \/ WdTick \/ OtherIrq \/ NdlessStart \/ FiqRelay
    \/ (\E kind \in Kinds : ReadFirst(kind)) \/ ReadSecond \/ ReadReturns
    \/ EnableScheduling \/ DisableScheduling
    \/ (\E t \in Sleeps : msleep(t) \/ microsleep(t) \/ SchedulerSleep(t))
    \/ CheckEnabled \/ wait_for_interrupt \/ NextRound \/ SleepEnd \/ SleepReturns
    \/ UNCHANGED vars

LEMMA ElsewhereFrame ==
    ASSUME Typed, Elsewhere
    PROVE  UNCHANGED clocks /\ SameSetting("rtc") /\ SameSetting("load")
<1> USE DEF Typed, SameSetting
<1>1. CASE SliceTick \/ NdlessStart \/ EnableScheduling \/ DisableScheduling \/ UNCHANGED vars
  BY <1>1 DEF SliceTick, NdlessStart, EnableScheduling, DisableScheduling, vars, clocks
<1>2. CASE WdTick
  <2>1. task' = Counted /\ wd.left \in Nat
    BY <1>2 DEF WdTick, Counted, SleepPcs, Watchdogs
  <2>2. task'.pc = task.pc /\ (task.pc \notin SleepPcs => task' = task)
    BY <2>1, CountedShape
  <2>3. QED
    BY <1>2, <2>2 DEF WdTick, SleepPcs
<1>3. CASE OtherIrq \/ FiqRelay
  <2>1. task' = Woken /\ UNCHANGED clocks
    BY <1>3 DEF OtherIrq, FiqRelay, Woken
  <2>2. QED
    BY <2>1, WokenSetting
<1>4. CASE (\E kind \in Kinds : ReadFirst(kind)) \/ ReadSecond \/ ReadReturns
  BY <1>4 DEF ReadFirst, ReadSecond, ReadReturns, At, Idle
<1>5. ASSUME NEW t \in Sleeps, msleep(t) \/ microsleep(t) \/ SchedulerSleep(t)
      PROVE  UNCHANGED clocks /\ SameSetting("rtc") /\ SameSetting("load")
  BY <1>5 DEF msleep, microsleep, SchedulerSleep, SleepStart, At
<1>6. CASE CheckEnabled \/ wait_for_interrupt \/ NextRound
  <2>1. task \in SleepTasks /\ task.pc \in SleepPcs /\ UNCHANGED clocks
    BY <1>6 DEF CheckEnabled, wait_for_interrupt, NextRound, At, Shape, SleepPcs
  <2>2. task'.pc \in SleepPcs
    BY <1>6, <2>1 DEF CheckEnabled, wait_for_interrupt, NextRound, SleepTasks, SleepPcs
  <2>3. QED
    BY <2>1, <2>2 DEF SleepPcs
<1>7. CASE SleepEnd \/ SleepReturns
  BY <1>7 DEF SleepEnd, SleepReturns, At, Idle
<1>8. QED
  BY <1>1, <1>2, <1>3, <1>4, <1>5, <1>6, <1>7 DEF Elsewhere

LEMMA SetsOrElsewhere ==
    ASSUME [Next]_vars
    PROVE  \/ RtcTick \/ SysTick \/ FiqHandle \/ Elsewhere
           \/ (\E t \in Times : systime_set_unix(t) \/ systime_set_unix_milli(t))
           \/ Boot \/ SetRtc \/ SetOverflowsOfTimer \/ SetTimer
BY DEF Next, Elsewhere, Kinds

LEMMA SecondsStep ==
    ASSUME Typed, SecondsInv, [Next]_vars
    PROVE  SecondsInv'
<1>1. CASE RtcTick
  <2> DEFINE v == rtc.value
             o == timer_seconds_overflows
             wrap == v = RtcWrap - 1
  <2>1. v \in 0 .. RtcWrap - 1 /\ o \in Nat /\ secs \in Nat /\ o * RtcWrap \in Nat
    BY MulMono DEF Typed, Rtcs
  <2>2. rtc.raw => RtcLine \in vic_fiq_status
    BY DEF vic_fiq_status, Typed
  <2>3. /\ secs' = secs + 1 /\ UNCHANGED <<timer_seconds_overflows, exact>>
        /\ rtc'.value = (v + 1) % RtcWrap /\ (rtc'.raw <=> rtc.raw \/ wrap)
        /\ wrap => ~ rtc.raw /\ task' = Wrapped("seconds")
        /\ ~ wrap => task' = task
    BY <1>1, <2>2 DEF RtcTick
  <2>4. SameSetting("rtc")
    BY <2>3, WrappedSetting DEF Typed
  <2> HIDE DEF v, o
  <2>5. (v + 1) % RtcWrap = IF wrap THEN 0 ELSE v + 1
    BY <2>1, StepUp
  <2>6. SecondsKept'
    BY <2>1, <2>3, <2>4, <2>5 DEF SecondsInv, SecondsKept, SameSetting, UnixOf, v, o
  <2>7. SettingSeconds'
    <3>1. CASE wrap
      BY <2>3, <2>4, <3>1, WrappedShape DEF SecondsInv, SettingSeconds, SameSetting, Typed
    <3>2. CASE ~ wrap
      BY <2>3, <3>2 DEF SecondsInv, SettingSeconds
    <3>3. QED
      BY <3>1, <3>2
  <2>8. QED
    BY <2>6, <2>7 DEF SecondsInv
<1>2. CASE SysTick
  <2>1. SameSetting("rtc")
    BY <1>2, WrappedSetting DEF SysTick, Typed
  <2>2. "seconds" \in exact' => "seconds" \in exact
    BY <1>2 DEF SysTick
  <2>3. QED
    BY <1>2, <2>1, <2>2, SecondsFrame DEF SysTick
<1>3. CASE FiqHandle
  <2>1. SameSetting("rtc")
    BY <1>3, WokenSetting DEF FiqHandle, Typed
  <2>2. RtcLine \in vic_fiq_status <=> rtc.raw
    BY DEF vic_fiq_status, Typed, RtcLine, WatchdogLine, FirstTimerLine
  <2>3. CASE rtc.raw
    <3>1. /\ rtc' = rtc_irq_clear(rtc) /\ timer_seconds_overflows' = timer_seconds_overflows + 1
          /\ UNCHANGED <<secs, exact>>
      BY <1>3, <2>2, <2>3 DEF FiqHandle
    <3>2. rtc'.value = rtc.value /\ ~ rtc'.raw
      BY <3>1 DEF rtc_irq_clear, Typed, Rtcs
    <3>3. (timer_seconds_overflows + 1) * RtcWrap = timer_seconds_overflows * RtcWrap + RtcWrap
      BY OneMore DEF Typed
    <3>4. timer_seconds_overflows * RtcWrap \in Nat /\ rtc.value \in Nat
      BY OneMore DEF Typed, Rtcs
    <3>5. SecondsKept'
      BY <2>1, <2>3, <3>1, <3>2, <3>3, <3>4 DEF SecondsInv, SecondsKept, UnixOf, SameSetting
    <3>6. SettingSeconds'
      BY <2>1, <2>3 DEF SecondsInv, SettingSeconds, SameSetting
    <3>7. QED
      BY <3>5, <3>6 DEF SecondsInv
  <2>4. CASE ~ rtc.raw
    <3>1. UNCHANGED <<rtc, timer_seconds_overflows, secs, exact>>
      BY <1>3, <2>2, <2>4 DEF FiqHandle, Typed
    <3>2. QED
      BY <2>1, <3>1, SecondsFrame
  <2>5. QED
    BY <2>3, <2>4
<1>4. CASE Elsewhere
  <2>1. UNCHANGED clocks /\ SameSetting("rtc")
    BY <1>4, ElsewhereFrame
  <2>2. QED
    BY <2>1, SecondsFrame DEF clocks
<1>5. ASSUME NEW unix \in Nat, NEW kind, SetOverflowsOfRtc(unix, kind), UNCHANGED rtc
      PROVE  SecondsInv'
  <2>1. /\ task'.pc = "rtc" /\ task'.clock = "seconds" /\ task'.unix = unix
        /\ task'.clean <=> ~ rtc.raw
        /\ timer_seconds_overflows' = unix \div RtcWrap
    BY <1>5 DEF SetOverflowsOfRtc
  <2>2. QED
    BY <1>5, <2>1 DEF SecondsInv, SecondsKept, SettingSeconds
<1>6. ASSUME NEW unix \in Int, SetUnix(unix), task.pc # "rtc" PROVE SecondsInv'
  <2>1. CASE unix <= 0
    <3>1. task'.pc = "idle" /\ UNCHANGED <<rtc, timer_seconds_overflows, secs, exact>>
      BY <1>6, <2>1 DEF SetUnix, Idle
    <3>2. QED
      BY <1>6, <3>1, SecondsFrame DEF SameSetting
  <2>2. CASE unix > 0
    <3>1. unix \in Nat /\ SetOverflowsOfRtc(unix, "unix") /\ UNCHANGED rtc
      BY <1>6, <2>2 DEF SetUnix
    <3>2. QED
      BY <1>5, <3>1
  <2>3. QED
    BY <2>1, <2>2
<1>7. ASSUME NEW t \in Times, systime_set_unix(t) PROVE SecondsInv'
  BY <1>6, <1>7, ArgumentsAssumption DEF systime_set_unix, At
<1>8. CASE Boot
  <2>1. UnixOf(timer_seconds_overflows, rtc.value) \in Int
    BY DEF UnixOf, Typed, Rtcs
  <2>2. QED
    BY <1>6, <1>8, <2>1 DEF Boot, At
<1>9. ASSUME NEW t \in Times, systime_set_unix_milli(t) PROVE SecondsInv'
  <2>1. t \in Nat
    BY <1>9, ArgumentsAssumption DEF systime_set_unix_milli
  <2>2. t \div MillisPerSecond \in Nat
    BY <2>1, DivMod
  <2>3. SetOverflowsOfRtc(t \div MillisPerSecond, "milli") /\ UNCHANGED rtc
    BY <1>9 DEF systime_set_unix_milli
  <2>4. QED
    BY <1>5, <2>2, <2>3
<1>10. CASE SetRtc
  <2>1. task.pc = "rtc" /\ task.unix \in Nat
    BY <1>10 DEF SetRtc, At, Typed, Shape, SetPcs, SetTasks
  <2>2. task'.pc # "rtc"
    <3>1. task \in SetTasks
      BY <2>1 DEF Typed, Shape, SetPcs
    <3>2. task' = Idle \/ task' = [task EXCEPT !.pc = "milis", !.clock = "millis"]
      BY <1>10 DEF SetRtc
    <3>3. CASE task' = Idle
      BY <3>3, IdleShape
    <3>4. CASE task' = [task EXCEPT !.pc = "milis", !.clock = "millis"]
      <4>1. task'.pc = "milis"
        BY <3>1, <3>4 DEF SetTasks
      <4>2. QED
        BY <4>1
    <3>5. QED
      BY <3>2, <3>3, <3>4
  <2>3. PICK match \in BOOLEAN :
          /\ rtc' = [value |-> RtcValue(task.unix), raw |-> rtc.raw \/ match]
          /\ exact' = Settled("seconds", task.clean /\ ~ match)
    BY <1>10 DEF SetRtc
  <2>4. secs' = task.unix /\ UNCHANGED timer_seconds_overflows
    BY <1>10 DEF SetRtc
  <2>5. "seconds" \in exact' => task.clean /\ ~ match
    BY <2>3 DEF Settled
  <2>6. "seconds" \in exact' => ~ rtc'.raw /\ timer_seconds_overflows' = task.unix \div RtcWrap
    BY <2>1, <2>3, <2>4, <2>5 DEF SecondsInv, SettingSeconds
  <2>7. rtc'.value = task.unix % RtcWrap
    BY <2>3 DEF RtcValue
  <2>8. (task.unix \div RtcWrap) * RtcWrap + (task.unix % RtcWrap) = task.unix
    BY <2>1, DivMod
  <2>9. task.unix % RtcWrap \in Nat /\ (task.unix \div RtcWrap) * RtcWrap \in Nat
    BY <2>1, DivMod, MulMono
  <2>10. QED
    BY <2>2, <2>4, <2>6, <2>7, <2>8, <2>9
       DEF SecondsInv, SecondsKept, SettingSeconds, UnixOf
<1>11. CASE SetOverflowsOfTimer
  <2>1. task \in SetTasks /\ task.pc = "milis"
    BY <1>11 DEF SetOverflowsOfTimer, At, Typed, Shape, SetPcs
  <2>2. task'.pc = "load" /\ UNCHANGED <<rtc, timer_seconds_overflows, secs, exact>>
    BY <1>11, <2>1 DEF SetOverflowsOfTimer, SetTasks
  <2>3. QED
    BY <2>1, <2>2, SecondsFrame DEF SameSetting
<1>12. CASE SetTimer
  <2>1. /\ task.pc = "load" /\ task'.pc = "idle"
        /\ UNCHANGED <<rtc, timer_seconds_overflows, secs>>
    BY <1>12 DEF SetTimer, At, Idle
  <2>2. "seconds" \in exact' => "seconds" \in exact
    BY <1>12 DEF SetTimer, Settled
  <2>3. QED
    BY <2>1, <2>2, SecondsFrame DEF SameSetting
<1>13. QED
  BY <1>1, <1>2, <1>3, <1>4, <1>7, <1>8, <1>9, <1>10, <1>11, <1>12, SetsOrElsewhere

-----------------------------------------------------------------------------
(***************************************************************************)
(* The milliseconds.                                                       *)
(***************************************************************************)
SettingMillis ==
    task.pc = "load" => /\ task.clock = "millis"
                        /\ task.clean => /\ ~ sys.raw
                                         /\ timer_milis_overflows = OverflowsOf(task.unix)

MillisInv == MillisKept /\ SettingMillis

LEMMA MillisFrame ==
    ASSUME MillisInv, UNCHANGED <<sys, timer_milis_overflows, ticks>>,
           "millis" \in exact' => "millis" \in exact, SameSetting("load")
    PROVE  MillisInv'
BY DEF MillisInv, MillisKept, SettingMillis, SameSetting

LEMMA MillisStep ==
    ASSUME Typed, MillisInv, [Next]_vars
    PROVE  MillisInv'
<1>1. CASE RtcTick
  <2>1. SameSetting("load")
    BY <1>1, WrappedSetting DEF RtcTick, Typed
  <2>2. QED
    BY <1>1, <2>1, MillisFrame DEF RtcTick
<1>2. CASE SysTick
  <2> DEFINE v == sys.value
             o == timer_milis_overflows
             wrap == v = 0
  <2>1. v \in 0 .. TimerWrap - 1 /\ o \in Nat /\ ticks \in Nat /\ o * TimerWrap \in Nat
    BY MulMono DEF Typed, Timers
  <2>2. /\ ticks' = ticks + 1 /\ UNCHANGED timer_milis_overflows
        /\ sys'.value = (v - 1) % TimerWrap /\ (sys'.raw <=> sys.raw \/ wrap)
        /\ wrap => task' = Wrapped("millis")
        /\ ~ wrap => task' = task
        /\ exact' = IF wrap /\ sys.raw THEN exact \ {"millis"} ELSE exact
    BY <1>2 DEF SysTick
  <2>3. SameSetting("load")
    BY <2>2, WrappedSetting DEF Typed
  <2> HIDE DEF v, o
  <2>4. (v - 1) % TimerWrap = IF wrap THEN TimerWrap - 1 ELSE v - 1
    BY <2>1, StepDown
  <2>5. MillisKept'
    <3> DEFINE total == o * TimerWrap + (TimerWrap - 1 - v) + (IF sys.raw THEN TimerWrap ELSE 0)
               total2 == o * TimerWrap + (TimerWrap - 1 - sys'.value)
                           + (IF sys'.raw THEN TimerWrap ELSE 0)
    <3>1. "millis" \in exact' /\ task'.pc # "load" => total = ticks
      BY <2>2, <2>3 DEF MillisInv, MillisKept, SameSetting, v, o
    <3>2. "millis" \in exact' => ~ (wrap /\ sys.raw)
      BY <2>2
    <3>3. ~ (wrap /\ sys.raw) => total2 = total + 1
      <4>1. sys'.value \in Nat
        BY <2>1, <2>2, <2>4
      <4>2. CASE wrap /\ ~ sys.raw
        BY <2>1, <2>2, <2>4, <4>2
      <4>3. CASE ~ wrap /\ sys.raw
        BY <2>1, <2>2, <2>4, <4>3
      <4>4. CASE ~ wrap /\ ~ sys.raw
        BY <2>1, <2>2, <2>4, <4>4
      <4>5. QED
        BY <4>2, <4>3, <4>4
    <3>4. MillisKept' = ("millis" \in exact' /\ task'.pc # "load" => total2 = ticks')
      BY <2>2 DEF MillisKept, o
    <3>5. QED
      BY <2>2, <3>1, <3>2, <3>3, <3>4
  <2>6. SettingMillis'
    <3>1. CASE wrap
      BY <2>2, <2>3, <3>1, WrappedShape DEF MillisInv, SettingMillis, SameSetting, Typed
    <3>2. CASE ~ wrap
      BY <2>2, <3>2 DEF MillisInv, SettingMillis
    <3>3. QED
      BY <3>1, <3>2
  <2>7. QED
    BY <2>5, <2>6 DEF MillisInv
<1>3. CASE FiqHandle
  <2>1. SameSetting("load")
    BY <1>3, WokenSetting DEF FiqHandle, Typed
  <2>2. CASE FirstTimerLine \in vic_fiq_status /\ sys.raw
    <3>1. /\ sys' = timer_irq_clear(sys) /\ timer_milis_overflows' = timer_milis_overflows + 1
          /\ UNCHANGED <<ticks, exact>>
      BY <1>3, <2>2 DEF FiqHandle
    <3>2. sys'.value = sys.value /\ ~ sys'.raw
      BY <3>1 DEF timer_irq_clear, Typed, Timers
    <3>3. (timer_milis_overflows + 1) * TimerWrap = timer_milis_overflows * TimerWrap + TimerWrap
      BY OneMore DEF Typed
    <3>4. timer_milis_overflows * TimerWrap \in Nat /\ sys.value \in Nat
      BY OneMore DEF Typed, Timers
    <3>5. MillisKept'
      BY <2>1, <2>2, <3>1, <3>2, <3>3, <3>4 DEF MillisInv, MillisKept, SameSetting
    <3>6. SettingMillis'
      BY <2>1, <2>2 DEF MillisInv, SettingMillis, SameSetting
    <3>7. QED
      BY <3>5, <3>6 DEF MillisInv
  <2>3. CASE ~ (FirstTimerLine \in vic_fiq_status /\ sys.raw)
    <3>1. UNCHANGED <<sys, timer_milis_overflows, ticks, exact>>
      BY <1>3, <2>3 DEF FiqHandle, Typed
    <3>2. QED
      BY <2>1, <3>1, MillisFrame
  <2>4. QED
    BY <2>2, <2>3
<1>4. CASE Elsewhere
  <2>1. UNCHANGED clocks /\ SameSetting("load")
    BY <1>4, ElsewhereFrame
  <2>2. QED
    BY <2>1, MillisFrame DEF clocks
<1>5. ASSUME NEW unix, SetUnix(unix), task.pc # "load" PROVE MillisInv'
  <2>1. task'.pc # "load" /\ UNCHANGED <<sys, timer_milis_overflows, ticks, exact>>
    BY <1>5 DEF SetUnix, SetOverflowsOfRtc, Idle
  <2>2. QED
    BY <1>5, <2>1, MillisFrame DEF SameSetting
<1>6. ASSUME NEW t \in Times, systime_set_unix(t) PROVE MillisInv'
  BY <1>5, <1>6 DEF systime_set_unix, At
<1>7. CASE Boot
  BY <1>5, <1>7 DEF Boot, At
<1>8. ASSUME NEW t \in Times, systime_set_unix_milli(t) PROVE MillisInv'
  <2>1. task'.pc = "rtc" /\ "millis" \notin exact'
    BY <1>8 DEF systime_set_unix_milli, SetOverflowsOfRtc
  <2>2. QED
    BY <2>1 DEF MillisInv, MillisKept, SettingMillis
<1>9. CASE SetRtc
  <2>1. task \in SetTasks /\ task.pc = "rtc"
    BY <1>9 DEF SetRtc, At, Typed, Shape, SetPcs
  <2>2. task'.pc # "load"
    <3>1. task' = Idle \/ task' = [task EXCEPT !.pc = "milis", !.clock = "millis"]
      BY <1>9 DEF SetRtc
    <3>2. CASE task' = Idle
      BY <3>2, IdleShape
    <3>3. CASE task' = [task EXCEPT !.pc = "milis", !.clock = "millis"]
      <4>1. task'.pc = "milis"
        BY <2>1, <3>3 DEF SetTasks
      <4>2. QED
        BY <4>1
    <3>4. QED
      BY <3>1, <3>2, <3>3
  <2>3. UNCHANGED <<sys, timer_milis_overflows, ticks>>
    BY <1>9 DEF SetRtc
  <2>4. "millis" \in exact' => "millis" \in exact
    BY <1>9 DEF SetRtc, Settled
  <2>5. QED
    BY <2>1, <2>2, <2>3, <2>4, MillisFrame DEF SameSetting
<1>10. CASE SetOverflowsOfTimer
  <2>1. task \in SetTasks /\ task.pc = "milis"
    BY <1>10 DEF SetOverflowsOfTimer, At, Typed, Shape, SetPcs
  <2>2. /\ task' = [task EXCEPT !.pc = "load", !.clean = ~ sys.raw]
        /\ timer_milis_overflows' = OverflowsOf(task.unix) /\ UNCHANGED sys
    BY <1>10 DEF SetOverflowsOfTimer
  <2>3. task'.pc = "load" /\ task'.clock = task.clock /\ task'.unix = task.unix
        /\ (task'.clean <=> ~ sys.raw)
    BY <2>1, <2>2 DEF SetTasks
  <2>4. task.clock = "millis"
    BY <2>1 DEF Typed, Shape
  <2>5. QED
    BY <2>2, <2>3, <2>4 DEF MillisInv, MillisKept, SettingMillis
<1>11. CASE SetTimer
  <2> DEFINE rest == (task.unix * MillisPerSecond) % (TimerWrap \div TicksPerMilli)
             total == task.unix * MillisPerSecond * TicksPerMilli
  <2>1. task.pc = "load" /\ task.unix \in Nat /\ task'.pc = "idle"
    BY <1>11 DEF SetTimer, At, Typed, Shape, SetPcs, SetTasks, Idle
  <2>2. /\ rest \in Nat
        /\ OverflowsOf(task.unix) \in Nat
        /\ OverflowsOf(task.unix) * TimerWrap + rest * TicksPerMilli = total
    BY <2>1, RestRange DEF OverflowsOf
  <2>3. /\ sys' = timer_set_load(sys, TimerWrap - 1 - rest * TicksPerMilli)
        /\ ticks' = total /\ exact' = Settled("millis", task.clean)
        /\ UNCHANGED timer_milis_overflows
    BY <1>11 DEF SetTimer
  <2> HIDE DEF rest, total
  <2>4. sys'.value = TimerWrap - 1 - rest * TicksPerMilli /\ sys'.raw = sys.raw
    BY <2>3 DEF timer_set_load, Typed, Timers
  <2>5. "millis" \in exact' => ~ sys'.raw /\ timer_milis_overflows' = OverflowsOf(task.unix)
    BY <2>1, <2>3, <2>4 DEF Settled, MillisInv, SettingMillis
  <2>6. rest * TicksPerMilli \in Nat /\ OverflowsOf(task.unix) * TimerWrap \in Nat
    BY <2>2, MulMono
  <2>7. QED
    BY <2>1, <2>2, <2>3, <2>4, <2>5, <2>6 DEF MillisInv, MillisKept, SettingMillis
<1>12. QED
  BY <1>1, <1>2, <1>3, <1>4, <1>6, <1>7, <1>8, <1>9, <1>10, <1>11, SetsOrElsewhere

-----------------------------------------------------------------------------
(***************************************************************************)
(* Reading.                                                                *)
(***************************************************************************)

\* What a reader of clock k knows between its two reads: while no overflow has
\* disturbed it, what it saw first is still what the clock has, or had when it began.
Knows(k) ==
    /\ task.clock = ClockOf(k)
    /\ task.since <= TrueTime(k)
    /\ task.clean => /\ ~ Counter(k).raw
                     /\ task.first = "overflows" => task.seen = Overflows(k)
    /\ task.clean /\ task.first = "value" /\ ClockOf(k) \in exact =>
         Reading(k, Overflows(k), task.seen) = task.since

Reader == task.pc = "read" => \A k \in Kinds : task.kind = k => Knows(k)

ReadInv == Reader /\ ReadExact

\* A counter without a pending overflow gives the time.
LEMMA ReadingTrue ==
    ASSUME Typed, SecondsKept, MillisKept, NEW k \in Kinds, ~ Counter(k).raw,
           ClockOf(k) \in exact, task.pc \notin {"rtc", "load"}
    PROVE  Reading(k, Overflows(k), Counter(k).value) = TrueTime(k)
<1>1. CASE k = "unix"
  <2>1. UnixOf(timer_seconds_overflows, rtc.value) = secs
    <3>1. UnixOf(timer_seconds_overflows, rtc.value) + 0 = secs
      BY <1>1 DEF SecondsKept, Counter, ClockOf
    <3>2. timer_seconds_overflows * RtcWrap \in Nat /\ rtc.value \in Nat
      BY MulMono DEF Typed, Rtcs
    <3>3. QED
      BY <3>1, <3>2 DEF UnixOf
  <2>2. QED
    BY <1>1, <2>1 DEF Reading, Overflows, Counter, TrueTime
<1>2. CASE k \in {"milli", "micro"}
  <2> DEFINE o == timer_milis_overflows
             d == TimerWrap - 1 - sys.value
  <2>1. o \in Nat /\ d \in Nat /\ o * TimerWrap \in Nat /\ ticks \in Nat
    BY MulMono DEF Typed, Timers
  <2>2. o * TimerWrap + d = ticks
    <3>1. ~ sys.raw /\ "millis" \in exact
      BY <1>2 DEF Counter, ClockOf
    <3>2. o * TimerWrap + d + 0 = ticks
      BY <3>1 DEF MillisKept
    <3>3. QED
      BY <2>1, <3>2
  <2>3. CASE k = "micro"
    BY <2>2, <2>3 DEF Reading, MicroOf, Overflows, Counter, TrueTime
  <2>4. CASE k = "milli"
    <3> DEFINE m == TimerWrap \div TicksPerMilli
    <3>1. m \in Nat \ {0} /\ m * TicksPerMilli = TimerWrap
      BY WholeMillis
    <3>2. Reading(k, Overflows(k), Counter(k).value)
            = (o * TimerWrap) \div TicksPerMilli + d \div TicksPerMilli
      BY <2>4 DEF Reading, MilliOf, Overflows, Counter
    <3>3. TrueTime(k) = (o * TimerWrap + d) \div TicksPerMilli
      BY <2>2, <2>4 DEF TrueTime
    <3> HIDE DEF m, o, d
    <3>4. o * TimerWrap = (o * m) * TicksPerMilli /\ o * m \in Nat
      BY <2>1, <3>1
    <3>5. ((o * m) * TicksPerMilli + d) \div TicksPerMilli = o * m + d \div TicksPerMilli
      BY <2>1, <3>4, DivSplit
    <3>6. ((o * m) * TicksPerMilli + 0) \div TicksPerMilli = o * m + 0 \div TicksPerMilli
      BY <3>4, DivSplit
    <3>7. (o * TimerWrap) \div TicksPerMilli = o * m
      <4>1. (o * m) * TicksPerMilli + 0 = (o * m) * TicksPerMilli /\ 0 \div TicksPerMilli = 0
        BY <3>4
      <4>2. QED
        BY <3>4, <3>6, <4>1
    <3>8. QED
      BY <3>2, <3>3, <3>4, <3>5, <3>7
  <2>5. QED
    BY <1>2, <2>3, <2>4
<1>3. QED
  BY <1>1, <1>2 DEF Kinds

\* Time does not run backwards while nobody sets it.
LEMMA TimeForward ==
    ASSUME Typed, Typed', secs <= secs', ticks <= ticks', NEW k \in Kinds
    PROVE  TrueTime(k) <= TrueTime(k)' /\ TrueTime(k) \in Nat /\ TrueTime(k)' \in Nat
<1>1. secs \in Nat /\ ticks \in Nat /\ secs' \in Nat /\ ticks' \in Nat
  BY DEF Typed
<1>2. CASE k = "unix"
  BY <1>1, <1>2 DEF TrueTime
<1>3. CASE k = "milli"
  BY <1>1, <1>3, DivMono DEF TrueTime
<1>4. CASE k = "micro"
  <2>1. /\ ticks * MicrosPerMilli <= ticks' * MicrosPerMilli
        /\ ticks * MicrosPerMilli \in Nat /\ ticks' * MicrosPerMilli \in Nat
    <3>1. ticks * MicrosPerMilli <= ticks' * MicrosPerMilli /\ ticks * MicrosPerMilli \in Nat
      BY <1>1, MulMono
    <3>2. ticks' * MicrosPerMilli \in Nat
      <4>1. ticks' <= ticks'
        BY <1>1
      <4>2. QED
        BY <1>1, <4>1, MulMono
    <3>3. QED
      BY <3>1, <3>2
  <2>2. /\ (ticks * MicrosPerMilli) \div TicksPerMilli <= (ticks' * MicrosPerMilli) \div TicksPerMilli
        /\ (ticks * MicrosPerMilli) \div TicksPerMilli \in Nat
        /\ (ticks' * MicrosPerMilli) \div TicksPerMilli \in Nat
    BY <2>1, DivMono
  <2>3. QED
    BY <1>4, <2>2 DEF TrueTime
<1>5. QED
  BY <1>2, <1>3, <1>4 DEF Kinds

\* A reader is not disturbed by what leaves its clock's counts alone, or takes note of it.
LEMMA ReaderFrame ==
    ASSUME Typed, Typed', Reader, secs <= secs', ticks <= ticks',
           \A c \in Clocks : c \in exact' => c \in exact,
           task'.pc = "read" =>
             /\ task.pc = "read" /\ task'.clock = task.clock /\ task'.kind = task.kind
             /\ task'.first = task.first /\ task'.seen = task.seen /\ task'.since = task.since
             /\ task'.clean => task.clean,
           \A k \in Kinds : task'.pc = "read" /\ task'.kind = k /\ task'.clean =>
             Overflows(k)' = Overflows(k) /\ Counter(k)'.raw = Counter(k).raw
    PROVE  Reader'
<1> SUFFICES ASSUME task'.pc = "read", NEW k \in Kinds, task'.kind = k
             PROVE  Knows(k)'
  BY DEF Reader
<1>1. Knows(k)
  BY DEF Reader
<1>2. task'.clock = ClockOf(k)
  BY <1>1 DEF Knows
<1>3. task'.since <= TrueTime(k)'
  <2>1. task.since \in Nat
    BY DEF Typed, Shape, ReadTasks
  <2>2. QED
    BY <1>1, <2>1, TimeForward DEF Knows
<1>4. CASE task'.clean
  <2>1. task.clean /\ Overflows(k)' = Overflows(k) /\ Counter(k)'.raw = Counter(k).raw
    BY <1>4
  <2>2. ~ Counter(k)'.raw /\ (task'.first = "overflows" => task'.seen = Overflows(k)')
    BY <1>1, <2>1 DEF Knows
  <2>3. ASSUME task'.first = "value", ClockOf(k) \in exact'
        PROVE  Reading(k, Overflows(k)', task'.seen) = task'.since
    <3>1. ClockOf(k) \in exact
      BY <2>3 DEF ClockOf, Clocks
    <3>2. Reading(k, Overflows(k), task.seen) = task.since
      BY <1>1, <2>1, <2>3, <3>1 DEF Knows
    <3>3. QED
      BY <2>1, <3>2
  <2>4. QED
    BY <1>2, <1>3, <2>2, <2>3 DEF Knows, Reading, UnixOf, MilliOf, MicroOf, ClockOf
<1>5. CASE ~ task'.clean
  BY <1>2, <1>3, <1>5 DEF Knows, ClockOf
<1>6. QED
  BY <1>4, <1>5


\* A task with its result keeps it until it returns.
LEMMA ResultFrame ==
    ASSUME ReadExact, task'.pc = "result" => task' = task,
           task.pc = "result" => \A c \in Clocks : c \in exact' => c \in exact
    PROVE  ReadExact'
BY DEF ReadExact, ClockOf, Clocks

LEMMA ReadStep ==
    ASSUME Typed, Typed', SecondsInv, MillisInv, ReadInv, [Next]_vars
    PROVE  ReadInv'
<1>0. secs \in Nat /\ ticks \in Nat /\ Shape(task)
  BY DEF Typed
<1>1. ASSUME NEW clock \in Clocks, task' = task \/ task' = Wrapped(clock)
      PROVE  /\ task'.pc = "read" =>
                  /\ task.pc = "read" /\ task'.clock = task.clock /\ task'.kind = task.kind
                  /\ task'.first = task.first /\ task'.seen = task.seen
                  /\ task'.since = task.since
                  /\ task'.clean => task.clean /\ (task' = task \/ task.clock # clock)
             /\ task'.pc = "result" => task' = task
  <2>1. CASE task' = task
    BY <2>1
  <2>2. CASE task' = Wrapped(clock)
    BY <1>0, <2>2, WrappedShape
  <2>3. QED
    BY <1>1, <2>1, <2>2
<1>2. CASE RtcTick
  <2> DEFINE wrap == rtc.value = RtcWrap - 1
  <2>1. /\ secs' = secs + 1 /\ (rtc'.raw <=> rtc.raw \/ wrap)
        /\ wrap => task' = Wrapped("seconds")
        /\ ~ wrap => task' = task
        /\ UNCHANGED <<sys, timer_seconds_overflows, timer_milis_overflows, ticks, exact>>
    BY <1>2 DEF RtcTick
  <2>2. rtc.raw \in BOOLEAN /\ rtc'.raw \in BOOLEAN
    BY DEF Typed, Rtcs
  <2>3. ASSUME NEW k \in Kinds, task'.pc = "read", task'.kind = k, task'.clean
        PROVE  Overflows(k)' = Overflows(k) /\ Counter(k)'.raw = Counter(k).raw
    <3>1. CASE k = "unix"
      <4>1. task.pc = "read" /\ task.kind = k
        BY <1>1, <2>1, <2>3 DEF Clocks
      <4>2. task.clock = "seconds"
        BY <3>1, <4>1 DEF ReadInv, Reader, Knows, ClockOf
      <4>3. ~ wrap
        BY <1>0, <2>1, <2>3, <4>1, <4>2, WrappedShape
      <4>4. QED
        BY <2>1, <2>2, <3>1, <4>3 DEF Overflows, Counter
    <3>2. CASE k # "unix"
      BY <2>1, <3>2 DEF Overflows, Counter
    <3>3. QED
      BY <3>1, <3>2
  <2>4. Reader'
    <3>1. Reader /\ secs <= secs' /\ ticks <= ticks'
      BY <1>0, <2>1 DEF ReadInv
    <3>2. task'.pc = "read" =>
            /\ task.pc = "read" /\ task'.clock = task.clock /\ task'.kind = task.kind
            /\ task'.first = task.first /\ task'.seen = task.seen /\ task'.since = task.since
            /\ task'.clean => task.clean
      BY <1>1, <2>1 DEF Clocks
    <3>3. QED
      BY <2>1, <2>3, <3>1, <3>2, ReaderFrame
  <2>5. ReadExact'
    BY <1>1, <2>1, ResultFrame DEF ReadInv, Clocks
  <2>6. QED
    BY <2>4, <2>5 DEF ReadInv
<1>3. CASE SysTick
  <2> DEFINE wrap == sys.value = 0
  <2>1. /\ ticks' = ticks + 1 /\ (sys'.raw <=> sys.raw \/ wrap)
        /\ wrap => task' = Wrapped("millis")
        /\ ~ wrap => task' = task
        /\ UNCHANGED <<rtc, timer_seconds_overflows, timer_milis_overflows, secs>>
        /\ \A c \in Clocks : c \in exact' => c \in exact
    BY <1>3 DEF SysTick
  <2>2. sys.raw \in BOOLEAN /\ sys'.raw \in BOOLEAN
    BY DEF Typed, Timers
  <2>3. ASSUME NEW k \in Kinds, task'.pc = "read", task'.kind = k, task'.clean
        PROVE  Overflows(k)' = Overflows(k) /\ Counter(k)'.raw = Counter(k).raw
    <3>1. CASE k # "unix"
      <4>1. task.pc = "read" /\ task.kind = k
        BY <1>1, <2>1, <2>3 DEF Clocks
      <4>2. task.clock = "millis"
        BY <3>1, <4>1 DEF ReadInv, Reader, Knows, ClockOf
      <4>3. ~ wrap
        BY <1>0, <2>1, <2>3, <4>1, <4>2, WrappedShape
      <4>4. QED
        BY <2>1, <2>2, <3>1, <4>3 DEF Overflows, Counter
    <3>2. CASE k = "unix"
      BY <2>1, <3>2 DEF Overflows, Counter
    <3>3. QED
      BY <3>1, <3>2
  <2>4. Reader'
    <3>1. Reader /\ secs <= secs' /\ ticks <= ticks'
      BY <1>0, <2>1 DEF ReadInv
    <3>2. task'.pc = "read" =>
            /\ task.pc = "read" /\ task'.clock = task.clock /\ task'.kind = task.kind
            /\ task'.first = task.first /\ task'.seen = task.seen /\ task'.since = task.since
            /\ task'.clean => task.clean
      BY <1>1, <2>1 DEF Clocks
    <3>3. QED
      BY <2>1, <2>3, <3>1, <3>2, ReaderFrame
  <2>5. ReadExact'
    BY <1>1, <2>1, ResultFrame DEF ReadInv, Clocks
  <2>6. QED
    BY <2>4, <2>5 DEF ReadInv
<1>4. CASE FiqHandle
  <2>1. /\ task' = Woken /\ UNCHANGED <<secs, ticks, exact>>
    BY <1>4 DEF FiqHandle
  <2>2. task'.pc \in {"read", "result"} => task' = task
    BY <1>0, <2>1, WokenShape DEF SleepPcs
  <2>3. RtcLine \in vic_fiq_status => rtc.raw
    BY DEF vic_fiq_status, RtcLine, WatchdogLine, FirstTimerLine
  <2>4. ASSUME NEW k \in Kinds, task'.pc = "read", task'.kind = k, task'.clean
        PROVE  Overflows(k)' = Overflows(k) /\ Counter(k)'.raw = Counter(k).raw
    <3>1. ~ Counter(k).raw
      BY <2>2, <2>4 DEF ReadInv, Reader, Knows
    <3>2. CASE k = "unix"
      <4>1. RtcLine \notin vic_fiq_status
        BY <2>3, <3>1, <3>2 DEF Counter
      <4>2. rtc' = rtc /\ timer_seconds_overflows' = timer_seconds_overflows
        BY <1>4, <4>1 DEF FiqHandle, Typed
      <4>3. QED
        BY <3>2, <4>2 DEF Overflows, Counter
    <3>3. CASE k # "unix"
      <4>1. ~ sys.raw
        BY <3>1, <3>3 DEF Counter
      <4>2. sys' = sys /\ timer_milis_overflows' = timer_milis_overflows
        BY <1>4, <4>1 DEF FiqHandle, Typed
      <4>3. QED
        BY <3>3, <4>2 DEF Overflows, Counter
    <3>4. QED
      BY <3>2, <3>3
  <2>5. Reader'
    <3>1. Reader /\ secs <= secs' /\ ticks <= ticks'
      BY <1>0, <2>1 DEF ReadInv
    <3>2. QED
      BY <2>1, <2>2, <2>4, <3>1, ReaderFrame
  <2>6. ReadExact'
    BY <2>1, <2>2, ResultFrame DEF ReadInv
  <2>7. QED
    BY <2>5, <2>6 DEF ReadInv
<1>5. ASSUME NEW kind \in Kinds, ReadFirst(kind) PROVE ReadInv'
  <2>1. PICK first \in {"overflows", "value"} :
          task' = [pc |-> "read", kind |-> kind, clock |-> ClockOf(kind), first |-> first,
                   seen |-> IF first = "overflows" THEN Overflows(kind) ELSE Counter(kind).value,
                   clean |-> ~ Counter(kind).raw, since |-> TrueTime(kind)]
    BY <1>5 DEF ReadFirst
  <2>2. UNCHANGED clocks /\ task.pc = "idle"
    BY <1>5 DEF ReadFirst, At
  <2>3. /\ TrueTime(kind)' = TrueTime(kind) /\ Overflows(kind)' = Overflows(kind)
        /\ Counter(kind)' = Counter(kind) /\ TrueTime(kind) \in Nat
    BY <2>2, TrueTimeNat DEF clocks, TrueTime, Overflows, Counter
  <2>4. /\ task'.pc = "read" /\ task'.kind = kind /\ task'.clock = ClockOf(kind)
        /\ task'.since = TrueTime(kind) /\ (task'.clean <=> ~ Counter(kind).raw)
        /\ task'.first = "overflows" => task'.seen = Overflows(kind)
        /\ task'.first = "value" => task'.seen = Counter(kind).value
    BY <2>1
  <2>5. ASSUME ~ Counter(kind).raw, ClockOf(kind) \in exact
        PROVE  Reading(kind, Overflows(kind), Counter(kind).value) = TrueTime(kind)
    BY <2>2, <2>5, ReadingTrue DEF SecondsInv, MillisInv
  <2>6. Knows(kind)'
    <3>1. exact' = exact
      BY <2>2 DEF clocks
    <3>2. ASSUME task'.clean, task'.first = "value", ClockOf(kind) \in exact'
          PROVE  Reading(kind, Overflows(kind)', task'.seen) = task'.since
      BY <2>3, <2>4, <2>5, <3>1, <3>2
    <3>3. task'.since <= TrueTime(kind)'
      BY <2>3, <2>4
    <3>4. task'.clean => /\ ~ Counter(kind)'.raw
                         /\ task'.first = "overflows" => task'.seen = Overflows(kind)'
      BY <2>3, <2>4
    <3>5. QED
      BY <2>4, <3>2, <3>3, <3>4 DEF Knows, Reading, UnixOf, MilliOf, MicroOf, ClockOf
  <2>7. QED
    BY <2>4, <2>6 DEF ReadInv, Reader, ReadExact
<1>6. CASE ReadSecond
  <2> DEFINE k == task.kind
             now == IF task.first = "overflows"
                      THEN Reading(k, task.seen, Counter(k).value)
                      ELSE Reading(k, Overflows(k), task.seen)
  <2>1. /\ k \in Kinds /\ task.first \in {"overflows", "value"} /\ task.since \in Nat
        /\ task.pc = "read"
    BY <1>0, <1>6 DEF ReadSecond, At, Shape, ReadTasks
  <2>2. /\ task' = [pc |-> "result", kind |-> k, time |-> now, clean |-> task.clean,
                    since |-> task.since, until |-> TrueTime(k)]
        /\ exact' = exact
    BY <1>6 DEF ReadSecond, clocks
  <2>3. Knows(k)
    BY <2>1 DEF ReadInv, Reader
  <2>4. TrueTime(k) \in Nat
    BY <2>1, TrueTimeNat
  <2>5. ASSUME task.clean, ClockOf(k) \in exact
        PROVE  now \in task.since .. TrueTime(k)
    <3>1. ~ Counter(k).raw
      BY <2>3, <2>5 DEF Knows
    <3>2. CASE task.first = "overflows"
      <4>1. Reading(k, Overflows(k), Counter(k).value) = TrueTime(k)
        BY <2>1, <2>5, <3>1, ReadingTrue DEF SecondsInv, MillisInv
      <4>2. now = TrueTime(k)
        BY <2>3, <2>5, <3>2, <4>1 DEF Knows
      <4>3. QED
        BY <2>1, <2>3, <2>4, <4>2 DEF Knows
    <3>3. CASE task.first = "value"
      <4>1. now = task.since
        BY <2>3, <2>5, <3>3 DEF Knows
      <4>2. QED
        BY <2>1, <2>3, <2>4, <4>1 DEF Knows
    <3>4. QED
      BY <2>1, <3>2, <3>3
  <2> HIDE DEF now
  <2>6. /\ task'.pc = "result" /\ task'.time = now /\ task'.since = task.since
        /\ task'.until = TrueTime(k) /\ task'.clean = task.clean /\ task'.kind = k
    BY <2>2
  <2>7. ReadExact'
    <3>1. ASSUME task'.clean, ClockOf(task'.kind) \in exact'
          PROVE  task'.time \in task'.since .. task'.until
      BY <2>2, <2>5, <2>6, <3>1
    <3>2. QED
      BY <3>1 DEF ReadExact, ClockOf
  <2>8. QED
    BY <2>6, <2>7 DEF ReadInv, Reader
<1>7. ASSUME task'.pc \in {"read", "result"} => task' = task,
             task'.pc \in {"read", "result"} => UNCHANGED clocks
      PROVE  ReadInv'
  <2>1. CASE task'.pc = "read"
    <3>1. task' = task /\ UNCHANGED clocks
      BY <1>7, <2>1
    <3>2. Reader'
      BY <3>1 DEF ReadInv, Reader, Knows, clocks, TrueTime, Overflows, Counter, Reading, ClockOf,
                  UnixOf, MilliOf, MicroOf
    <3>3. QED
      BY <2>1, <3>2 DEF ReadInv, ReadExact
  <2>2. CASE task'.pc = "result"
    BY <1>7, <2>2 DEF ReadInv, Reader, ReadExact, clocks, ClockOf
  <2>3. CASE task'.pc \notin {"read", "result"}
    BY <2>3 DEF ReadInv, Reader, ReadExact
  <2>4. QED
    BY <2>1, <2>2, <2>3
<1>8. ASSUME Elsewhere, ~ (\E kind \in Kinds : ReadFirst(kind)), ~ ReadSecond PROVE ReadInv'
  <2>1. UNCHANGED clocks
    BY <1>8, ElsewhereFrame
  <2>2. task'.pc \in {"read", "result"} => task' = task
    <3>1. CASE SliceTick \/ NdlessStart \/ EnableScheduling \/ DisableScheduling \/ UNCHANGED vars
      BY <3>1 DEF SliceTick, NdlessStart, EnableScheduling, DisableScheduling, vars
    <3>2. CASE WdTick
      <4>1. task' = Counted /\ wd.left \in Nat
        BY <3>2 DEF WdTick, Counted, SleepPcs, Typed, Watchdogs
      <4>2. QED
        BY <1>0, <4>1, CountedShape DEF SleepPcs
    <3>3. CASE OtherIrq \/ FiqRelay
      <4>1. task' = Woken
        BY <3>3 DEF OtherIrq, FiqRelay, Woken
      <4>2. QED
        BY <1>0, <4>1, WokenShape DEF SleepPcs
    <3>4. CASE ReadReturns \/ SleepEnd \/ SleepReturns
      BY <3>4 DEF ReadReturns, SleepEnd, SleepReturns, Idle
    <3>5. ASSUME NEW t \in Sleeps, msleep(t) \/ microsleep(t) \/ SchedulerSleep(t)
          PROVE  task'.pc \notin {"read", "result"}
      BY <3>5 DEF msleep, microsleep, SchedulerSleep, SleepStart
    <3>6. CASE CheckEnabled \/ wait_for_interrupt \/ NextRound
      <4>1. task \in SleepTasks
        BY <1>0, <3>6 DEF CheckEnabled, wait_for_interrupt, NextRound, At, Shape, SleepPcs
      <4>2. task'.pc \in SleepPcs
        BY <3>6, <4>1 DEF CheckEnabled, wait_for_interrupt, NextRound, SleepTasks, SleepPcs
      <4>3. QED
        BY <4>2 DEF SleepPcs
    <3>7. QED
      BY <1>8, <3>1, <3>2, <3>3, <3>4, <3>5, <3>6 DEF Elsewhere
  <2>3. QED
    BY <1>7, <2>1, <2>2
<1>9. ASSUME NEW t \in Times, systime_set_unix(t) \/ systime_set_unix_milli(t) PROVE ReadInv'
  BY <1>7, <1>9 DEF systime_set_unix, systime_set_unix_milli, SetUnix, SetOverflowsOfRtc, Idle
<1>10. CASE Boot
  BY <1>7, <1>10 DEF Boot, SetUnix, SetOverflowsOfRtc, Idle
<1>11. CASE SetRtc \/ SetOverflowsOfTimer
  <2>1. task \in SetTasks
    BY <1>0, <1>11 DEF SetRtc, SetOverflowsOfTimer, At, Shape, SetPcs
  <2>2. \/ task' = Idle
        \/ task' = [task EXCEPT !.pc = "milis", !.clock = "millis"]
        \/ task' = [task EXCEPT !.pc = "load", !.clean = ~ sys.raw]
    BY <1>11 DEF SetRtc, SetOverflowsOfTimer
  <2>3. CASE task' = Idle
    BY <1>7, <2>3, IdleShape
  <2>4. CASE task' = [task EXCEPT !.pc = "milis", !.clock = "millis"]
    <3>1. task'.pc = "milis"
      BY <2>1, <2>4 DEF SetTasks
    <3>2. QED
      BY <1>7, <3>1
  <2>5. CASE task' = [task EXCEPT !.pc = "load", !.clean = ~ sys.raw]
    <3>1. task'.pc = "load"
      BY <2>1, <2>5 DEF SetTasks
    <3>2. QED
      BY <1>7, <3>1
  <2>6. QED
    BY <2>2, <2>3, <2>4, <2>5
<1>12. CASE SetTimer
  BY <1>7, <1>12, IdleShape DEF SetTimer
<1>13. QED
  BY <1>2, <1>3, <1>4, <1>5, <1>6, <1>8, <1>9, <1>10, <1>11, <1>12, SetsOrElsewhere


-----------------------------------------------------------------------------
(***************************************************************************)
(* Sleeping.                                                               *)
(***************************************************************************)

\* What the watchdog still has to count before its FIQ ends the round.
Left == IF wd.on /\ ~ wd.raw THEN wd.left ELSE 0

\* The watchdog never runs without its FIQ, and none of its FIQs outlives it.
Armed == (wd.on => WatchdogLine \in fiqs) /\ (wd.raw => wd.on)

\* The counts waited, those of this round and those of the rounds to come are the sleep's.
Balance ==
    task.pc \in SleepPcs =>
        /\ wd.function = WATCHDOG_WAIT
        /\ task.waited + Left + task.overflows * (WdWrap - 1) = task.count

SleepInv == Armed /\ Balance /\ SleepFull

\* The sleeper is where it was, or another place of the same wait.
SameSleep ==
    /\ task'.pc \in SleepPcs =>
         /\ task.pc \in SleepPcs /\ task'.waited = task.waited
         /\ task'.count = task.count /\ task'.overflows = task.overflows
    /\ task'.pc = "slept" => task' = task

LEMMA SleepFrame ==
    ASSUME SleepInv, SameSleep, UNCHANGED wd, WatchdogLine \in fiqs => WatchdogLine \in fiqs'
    PROVE  SleepInv'
BY DEF SleepInv, SameSleep, Armed, Balance, SleepFull, Left

LEMMA SleepStartInv ==
    ASSUME Typed, NEW count \in Nat, NEW sched \in BOOLEAN, SleepStart(count, sched), ~ wd.raw
    PROVE  SleepInv'
<1> DEFINE w == WdWrap - 1
           first == count % w
           rounds == count \div w
<1>1. w \in Nat \ {0}
  OBVIOUS
<1>2. /\ wd' = StartWatchdog(watchdog_set_function(wd, WATCHDOG_WAIT), first)
      /\ task' = [pc |-> "check", waited |-> 0, count |-> count, overflows |-> rounds,
                  scheduler |-> sched, enabled |-> wd.on, load |-> wd.load,
                  function |-> wd.function]
      /\ WatchdogLine \in fiqs'
  BY DEF SleepStart, WatchdogLine, FirstTimerLine
<1> HIDE DEF w
<1>3. rounds * w + first = count /\ rounds \in Nat /\ first \in Nat
  <2>1. rounds * w + first = count /\ rounds \in Nat /\ first \in 0 .. w - 1
    BY <1>1, DivMod
  <2>2. QED
    BY <1>1, <2>1
<1>4. rounds * w \in Nat
  BY <1>1, <1>3, MulMono
<1> HIDE DEF first, rounds
<1>5. wd'.on /\ ~ wd'.raw /\ wd'.left = first /\ wd'.function = WATCHDOG_WAIT
  BY <1>2 DEF StartWatchdog, watchdog_enable, watchdog_set_load, watchdog_set_function, Typed,
              Watchdogs
<1>6. task'.pc = "check" /\ task'.waited = 0 /\ task'.count = count /\ task'.overflows = rounds
  BY <1>2
<1>7. Armed' /\ SleepFull'
  BY <1>2, <1>5, <1>6 DEF Armed, SleepFull
<1>8. Left' = first
  BY <1>5 DEF Left
<1>9. 0 + first + rounds * w = count
  BY <1>3, <1>4
<1>10. Balance'
  BY <1>5, <1>6, <1>8, <1>9 DEF Balance, w
<1>11. QED
  BY <1>7, <1>10 DEF SleepInv

LEMMA OneCounted ==
    ASSUME NEW a \in Nat, NEW l \in Nat, NEW d \in Nat, NEW n \in Nat, l + d = n, NEW r \in Int
    PROVE  (a + d) + l + r = a + n + r
OBVIOUS

LEMMA SleepStep ==
    ASSUME Typed, Typed', SleepInv, [Next]_vars
    PROVE  SleepInv'
<1>0. Shape(task) /\ wd \in Watchdogs /\ wd' \in Watchdogs
  BY DEF Typed
<1>1. ASSUME task' = Woken PROVE SameSleep
  BY <1>0, <1>1, WokenShape DEF SameSleep, SleepPcs
<1>2. WatchdogLine \in vic_fiq_status <=> wd.raw
  BY DEF SleepInv, Armed, vic_fiq_status, WatchdogLine, RtcLine, FirstTimerLine
<1>3. ASSUME task.pc \in {"read", "rtc", "load"} => task'.pc = task.pc,
             task.pc \notin {"read", "rtc", "load"} => task' = task
      PROVE  SameSleep
  BY <1>3 DEF SameSleep, SleepPcs
<1>4. CASE RtcTick \/ SysTick
  <2>1. /\ UNCHANGED <<wd, fiqs>>
        /\ task' = task \/ task' = Wrapped("seconds") \/ task' = Wrapped("millis")
    BY <1>4 DEF RtcTick, SysTick
  <2>2. SameSleep
    BY <1>0, <1>3, <2>1, WrappedShape
  <2>3. QED
    BY <2>1, <2>2, SleepFrame
<1>5. CASE SliceTick \/ UNCHANGED vars
  BY <1>5, SleepFrame DEF SliceTick, vars, SameSleep
<1>6. CASE EnableScheduling \/ DisableScheduling
  <2>1. UNCHANGED <<wd, task>> /\ (WatchdogLine \in fiqs => WatchdogLine \in fiqs')
    BY <1>6 DEF EnableScheduling, DisableScheduling, timer_enable, timer_disable, WatchdogLine,
                FirstTimerLine
  <2>2. QED
    BY <2>1, SleepFrame DEF SameSleep
<1>7. CASE WdTick
  <2> DEFINE n == wd.left
             rounds == task.overflows * (WdWrap - 1)
  <2>1. task' = Counted /\ n \in Nat /\ wd.on /\ ~ wd.raw /\ UNCHANGED fiqs
    BY <1>0, <1>7 DEF WdTick, Counted, SleepPcs, Watchdogs
  <2>2. Left = n
    BY <2>1 DEF Left
  <2>3. /\ task'.pc = task.pc
        /\ task.pc \notin SleepPcs => task' = task
        /\ task.pc \in SleepPcs =>
             /\ task'.waited = task.waited + (IF n > 0 THEN 1 ELSE 0)
             /\ task'.count = task.count /\ task'.overflows = task.overflows
    BY <1>0, <2>1, CountedShape
  <2>4. /\ wd'.on /\ wd'.function = wd.function
        /\ Left' + (IF n > 0 THEN 1 ELSE 0) = n /\ Left' \in Nat
    <3>1. CASE n = 0
      <4>1. wd' = [wd EXCEPT !.raw = TRUE, !.left = wd.load]
        BY <1>7, <3>1 DEF WdTick
      <4>2. wd'.on /\ wd'.raw /\ wd'.function = wd.function
        BY <1>0, <2>1, <4>1 DEF Watchdogs
      <4>3. QED
        BY <3>1, <4>2 DEF Left
    <3>2. CASE n # 0
      <4>1. wd' = [wd EXCEPT !.left = n - 1]
        BY <1>7, <3>2 DEF WdTick
      <4>2. wd'.on /\ ~ wd'.raw /\ wd'.function = wd.function /\ wd'.left = n - 1
        BY <1>0, <2>1, <4>1 DEF Watchdogs
      <4>3. Left' = n - 1
        BY <4>2 DEF Left
      <4>4. QED
        BY <2>1, <3>2, <4>2, <4>3
    <3>3. QED
      BY <3>1, <3>2
  <2>5. Balance'
    <3> SUFFICES ASSUME task'.pc \in SleepPcs PROVE Balance'
      BY DEF Balance
    <3>1. task.pc \in SleepPcs /\ task \in SleepTasks
      BY <1>0, <2>3 DEF Shape
    <3>2. wd.function = WATCHDOG_WAIT /\ task.waited + n + rounds = task.count
      BY <2>2, <3>1 DEF SleepInv, Balance
    <3>3. task.waited \in Nat /\ rounds \in Int
      BY <3>1 DEF SleepTasks
    <3> HIDE DEF n, rounds
    <3>4. task'.waited + Left' + rounds = task.count
      <4> DEFINE d == IF n > 0 THEN 1 ELSE 0
                 l == Left'
      <4>1. d \in Nat /\ l \in Nat /\ l + d = n /\ task'.waited = task.waited + d
        BY <2>1, <2>3, <2>4, <3>1
      <4> HIDE DEF d, l
      <4>2. (task.waited + d) + l + rounds = task.waited + n + rounds
        BY <2>1, <3>3, <4>1, OneCounted
      <4>3. task'.waited + l + rounds = task.count
        BY <3>2, <4>1, <4>2
      <4>4. QED
        BY <4>3 DEF l
    <3>5. QED
      BY <2>3, <2>4, <3>1, <3>2, <3>4 DEF Balance, rounds
  <2>6. Armed' /\ SleepFull'
    BY <2>1, <2>3, <2>4 DEF SleepInv, Armed, SleepFull, SleepPcs
  <2>7. QED
    BY <2>5, <2>6 DEF SleepInv
<1>8. CASE OtherIrq
  <2>1. task' = Woken /\ UNCHANGED <<wd, fiqs>>
    BY <1>8 DEF OtherIrq, Woken
  <2>2. QED
    BY <1>1, <2>1, SleepFrame
<1>9. CASE NdlessStart
  <2>1. wd' = [wd EXCEPT !.on = TRUE, !.left = 1, !.load = 1, !.raw = FALSE]
    BY <1>9 DEF NdlessStart
  <2>2. ~ wd'.raw
    BY <1>0, <2>1 DEF Watchdogs
  <2>3. WatchdogLine \in fiqs' /\ task' = task /\ task.pc = "idle"
    BY <1>9 DEF NdlessStart
  <2>4. QED
    BY <2>2, <2>3 DEF SleepInv, Armed, Balance, SleepFull, SleepPcs
<1>10. CASE FiqRelay
  <2>1. wd' = watchdog_irq_clear(wd) /\ UNCHANGED fiqs
    BY <1>10 DEF FiqRelay
  <2>2. task.pc \notin SleepPcs
    BY <1>10 DEF FiqRelay, SleepInv, Balance, WATCHDOG_INVALID, WATCHDOG_WAIT
  <2>3. task' = task
    BY <1>0, <1>10, <2>2, WokenShape DEF FiqRelay
  <2>4. ~ wd'.raw /\ wd'.on = wd.on
    BY <1>0, <2>1 DEF watchdog_irq_clear, Watchdogs
  <2>5. QED
    BY <2>1, <2>2, <2>3, <2>4 DEF SleepInv, Armed, Balance, SleepFull
<1>11. CASE FiqHandle
  <2>1. SameSleep
    BY <1>1, <1>11 DEF FiqHandle
  <2>2. CASE wd.raw
    <3>1. wd' = watchdog_disable(watchdog_irq_clear(wd))
      BY <1>2, <1>11, <2>2 DEF FiqHandle
    <3>2. ~ wd'.raw /\ ~ wd'.on /\ wd'.function = wd.function
      BY <1>0, <3>1 DEF watchdog_disable, watchdog_irq_clear, Watchdogs
    <3>3. Left = 0 /\ Left' = 0
      BY <2>2, <3>2 DEF Left
    <3>4. Balance'
      BY <2>1, <3>2, <3>3 DEF SleepInv, SameSleep, Balance
    <3>5. Armed' /\ SleepFull'
      BY <2>1, <3>2 DEF SleepInv, Armed, SleepFull, SameSleep
    <3>6. QED
      BY <3>4, <3>5 DEF SleepInv
  <2>3. CASE ~ wd.raw
    <3>1. UNCHANGED <<wd, fiqs>>
      BY <1>2, <1>11, <2>3 DEF FiqHandle
    <3>2. QED
      BY <2>1, <3>1, SleepFrame
  <2>4. QED
    BY <2>2, <2>3
<1>12. ASSUME UNCHANGED <<wd, fiqs>>, task'.pc \notin SleepPcs \union {"slept"} PROVE SleepInv'
  BY <1>12, SleepFrame DEF SameSleep
<1>13. ASSUME NEW kind \in Kinds, ReadFirst(kind) PROVE SleepInv'
  BY <1>12, <1>13 DEF ReadFirst, SleepPcs
<1>14. CASE ReadSecond \/ ReadReturns \/ SleepReturns \/ Boot \/ SetTimer
  BY <1>12, <1>14 DEF ReadSecond, ReadReturns, SleepReturns, Boot, SetTimer, SetUnix,
                      SetOverflowsOfRtc, Idle, SleepPcs
<1>15. ASSUME NEW t \in Times, systime_set_unix(t) \/ systime_set_unix_milli(t) PROVE SleepInv'
  BY <1>12, <1>15 DEF systime_set_unix, systime_set_unix_milli, SetUnix, SetOverflowsOfRtc, Idle,
                      SleepPcs
<1>16. CASE SetRtc \/ SetOverflowsOfTimer
  <2>1. task \in SetTasks /\ UNCHANGED <<wd, fiqs>>
    BY <1>0, <1>16 DEF SetRtc, SetOverflowsOfTimer, At, Shape, SetPcs
  <2>2. \/ task' = Idle
        \/ task' = [task EXCEPT !.pc = "milis", !.clock = "millis"]
        \/ task' = [task EXCEPT !.pc = "load", !.clean = ~ sys.raw]
    BY <1>16 DEF SetRtc, SetOverflowsOfTimer
  <2>3. CASE task' = Idle
    BY <1>12, <2>1, <2>3, IdleShape DEF SleepPcs
  <2>4. CASE task' = [task EXCEPT !.pc = "milis", !.clock = "millis"]
    <3>1. task'.pc = "milis"
      BY <2>1, <2>4 DEF SetTasks
    <3>2. QED
      BY <1>12, <2>1, <3>1 DEF SleepPcs
  <2>5. CASE task' = [task EXCEPT !.pc = "load", !.clean = ~ sys.raw]
    <3>1. task'.pc = "load"
      BY <2>1, <2>5 DEF SetTasks
    <3>2. QED
      BY <1>12, <2>1, <3>1 DEF SleepPcs
  <2>6. QED
    BY <2>2, <2>3, <2>4, <2>5
<1>17. ASSUME NEW t \in Sleeps, msleep(t) \/ microsleep(t) \/ SchedulerSleep(t) PROVE SleepInv'
  <2>1. t \in Int /\ t > 0
    BY <1>17, ArgumentsAssumption DEF msleep, microsleep, SchedulerSleep
  <2>2. msleep_count(t) \in Nat /\ microsleep_count(t) \in Nat
    BY <2>1, CountNat
  <2>3. ~ wd.raw
    BY <1>2, <1>17 DEF msleep, microsleep, SchedulerSleep, At
  <2>4. QED
    BY <1>17, <2>2, <2>3, SleepStartInv DEF msleep, microsleep, SchedulerSleep
<1>18. CASE CheckEnabled \/ wait_for_interrupt
  <2>1. task \in SleepTasks /\ task.pc \in SleepPcs /\ UNCHANGED <<wd, fiqs>>
    BY <1>0, <1>18 DEF CheckEnabled, wait_for_interrupt, At, Shape, SleepPcs
  <2>2. PICK pc \in {"wfi_next", "wfi"} : task' = [task EXCEPT !.pc = pc]
    BY <1>18 DEF CheckEnabled, wait_for_interrupt
  <2>3. /\ task'.pc = pc /\ task'.waited = task.waited /\ task'.count = task.count
        /\ task'.overflows = task.overflows
    BY <2>1, <2>2 DEF SleepTasks
  <2>4. SameSleep
    BY <2>1, <2>3 DEF SameSleep
  <2>5. QED
    BY <2>1, <2>4, SleepFrame
<1>19. CASE NextRound
  <2> DEFINE w == WdWrap - 1
             r == task.overflows
  <2>1. /\ task \in SleepTasks /\ task.pc = "check" /\ r > 0
        /\ ~ wd.on /\ wd' = StartWatchdog(wd, w) /\ WatchdogLine \in fiqs'
        /\ task' = [task EXCEPT !.overflows = r - 1]
    BY <1>0, <1>19 DEF NextRound, WaitOver, At, Shape, SleepPcs
  <2>2. r \in Nat \ {0} /\ w \in Nat /\ task.waited \in Nat
    BY <2>1 DEF SleepTasks
  <2>3. ~ wd.raw /\ Left = 0
    BY <2>1 DEF SleepInv, Armed, Left
  <2>4. wd.function = WATCHDOG_WAIT /\ task.waited + 0 + r * w = task.count
    BY <2>1, <2>3 DEF SleepInv, Balance, SleepPcs
  <2>5. /\ task'.pc = "check" /\ task'.waited = task.waited /\ task'.count = task.count
        /\ task'.overflows = r - 1
    BY <2>1 DEF SleepTasks
  <2> HIDE DEF w, r
  <2>6. wd'.on /\ ~ wd'.raw /\ wd'.left = w /\ wd'.function = wd.function
    BY <1>0, <2>1, <2>3 DEF StartWatchdog, watchdog_enable, watchdog_set_load, Watchdogs
  <2>7. Left' = w
    BY <2>6 DEF Left
  <2>8. r * w = (r - 1) * w + w /\ (r - 1) * w \in Nat
    <3>1. r - 1 \in Nat /\ (r - 1) + 1 = r
      BY <2>2
    <3>2. ((r - 1) + 1) * w = (r - 1) * w + w /\ (r - 1) * w \in Nat
      BY <2>2, <3>1, OneMore
    <3>3. QED
      BY <3>1, <3>2
  <2>9. task.waited + w + (r - 1) * w = task.count
    BY <2>2, <2>4, <2>8
  <2>10. Balance'
    BY <2>4, <2>5, <2>6, <2>7, <2>9 DEF Balance, w
  <2>11. Armed' /\ SleepFull'
    BY <2>1, <2>5, <2>6 DEF Armed, SleepFull
  <2>12. QED
    BY <2>10, <2>11 DEF SleepInv
<1>20. CASE SleepEnd
  <2> DEFINE restored == watchdog_set_load(watchdog_set_function(wd, task.function), task.load)
             restart == task.enabled /\ WatchdogLine \in fiqs
  <2>1. /\ task \in SleepTasks /\ task.pc = "check" /\ task.overflows = 0 /\ ~ wd.on
        /\ task' = [pc |-> "slept", waited |-> task.waited, count |-> task.count]
        /\ wd' = IF restart THEN watchdog_enable(restored) ELSE restored
        /\ restart => WatchdogLine \in fiqs'
    BY <1>0, <1>20 DEF SleepEnd, WaitOver, At, Shape, SleepPcs
  <2>2. ~ wd.raw /\ Left = 0
    BY <2>1 DEF SleepInv, Armed, Left
  <2>3. task.waited + 0 + 0 * (WdWrap - 1) = task.count /\ task.waited \in Nat
    BY <2>1, <2>2 DEF SleepInv, Balance, SleepPcs, SleepTasks
  <2>4. task.waited = task.count
    BY <2>3
  <2>5. ~ restored.on /\ ~ restored.raw
    BY <1>0, <2>1, <2>2 DEF watchdog_set_load, watchdog_set_function, Watchdogs
  <2>6. ~ wd'.raw /\ (wd'.on => restart)
    BY <2>1, <2>5 DEF watchdog_enable, watchdog_set_load, watchdog_set_function
  <2>7. QED
    BY <2>1, <2>4, <2>6 DEF SleepInv, Armed, Balance, SleepFull, SleepPcs
<1>21. QED
  BY <1>4, <1>5, <1>6, <1>7, <1>8, <1>9, <1>10, <1>11, <1>13, <1>14, <1>15, <1>16, <1>17, <1>18,
     <1>19, <1>20 DEF Next, Kinds
-----------------------------------------------------------------------------
(***************************************************************************)
(* The theorems.                                                           *)
(***************************************************************************)
TimeInv == Typed /\ SecondsInv /\ MillisInv /\ ReadInv /\ SleepInv

LEMMA TimeInit == Init => TimeInv
<1> SUFFICES ASSUME Init PROVE TimeInv
  OBVIOUS
<1> USE DEF Init
<1>1. task.pc = "boot" /\ Shape(task)
  BY DEF Shape, SetPcs, SleepPcs
<1>2. rtc \in Rtcs /\ rtc.value \in Nat /\ ~ rtc.raw
  <2>1. rtc \in [value : 0 .. RtcWrap - 1, raw : {FALSE}]
    OBVIOUS
  <2>2. rtc.value \in 0 .. RtcWrap - 1 /\ rtc.raw = FALSE
    BY <2>1
  <2>3. rtc \in Rtcs
    BY <2>1 DEF Rtcs
  <2>4. QED
    BY <2>2, <2>3
<1>3. sys \in Timers /\ wd \in Watchdogs /\ slice \in [on : BOOLEAN, raw : BOOLEAN]
  BY DEF Timers, Watchdogs, Functions
<1>4. Typed
  BY <1>1, <1>2, <1>3 DEF Typed, Clocks
<1>5. SecondsInv
  <2>1. UnixOf(0, rtc.value) + 0 = secs
    BY <1>2 DEF UnixOf
  <2>2. QED
    BY <1>1, <1>2, <2>1 DEF SecondsInv, SecondsKept, SettingSeconds
<1>6. MillisInv
  <2>1. 0 * TimerWrap + (TimerWrap - 1 - (TimerWrap - 1)) + 0 = 0
    OBVIOUS
  <2>2. QED
    BY <1>1, <2>1 DEF MillisInv, MillisKept, SettingMillis
<1>7. ReadInv
  BY <1>1 DEF ReadInv, Reader, ReadExact
<1>8. SleepInv
  BY <1>1 DEF SleepInv, Armed, Balance, SleepFull, SleepPcs
<1>9. QED
  BY <1>4, <1>5, <1>6, <1>7, <1>8 DEF TimeInv

LEMMA TimeStep == TimeInv /\ [Next]_vars => TimeInv'
<1> SUFFICES ASSUME TimeInv, [Next]_vars PROVE TimeInv'
  OBVIOUS
<1>1. Typed'
  BY TypedStep DEF TimeInv
<1>2. SecondsInv' /\ MillisInv'
  BY SecondsStep, MillisStep DEF TimeInv
<1>3. ReadInv'
  BY <1>1, ReadStep DEF TimeInv
<1>4. SleepInv'
  BY <1>1, SleepStep DEF TimeInv
<1>5. QED
  BY <1>1, <1>2, <1>3, <1>4 DEF TimeInv

\* The inductive invariant of the time base.
LEMMA TimeInvariant == Spec => []TimeInv
BY TimeInit, TimeStep, PTL DEF Spec

\* The RTC, the overflows fiq_handler counted and an overflow still waiting for its FIQ give
\* the seconds since the clock was set, however wide the RTC is, unless an overflow fell
\* between the two writes of systime_set_unix.
THEOREM SecondsKeptCorrect == Spec => []SecondsKept
<1>1. TimeInv => SecondsKept
  BY DEF TimeInv, SecondsInv
<1>2. QED
  BY <1>1, TimeInvariant, PTL

\* The same for SYSTIME_TIMER, which counts down, shares its interrupt line with the
\* scheduler's timer and is loaded with what systime_set_unix leaves of its last wrap.
THEOREM MillisKeptCorrect == Spec => []MillisKept
<1>1. TimeInv => MillisKept
  BY DEF TimeInv, MillisInv
<1>2. QED
  BY <1>1, TimeInvariant, PTL

\* systime_unix, systime_unix_milli and systime_unix_micro return a time the clock had while
\* they ran, whichever of its two halves they read first and wherever a FIQ comes between,
\* unless an overflow was pending or happened meanwhile.
THEOREM ReadExactCorrect == Spec => []ReadExact
<1>1. TimeInv => ReadExact
  BY DEF TimeInv, ReadInv
<1>2. QED
  BY <1>1, TimeInvariant, PTL

\* msleep and microsleep wait for every count they asked for, over all their rounds: no other
\* interrupt, no FIQ left over from Ndless' watchdog and no FIQ before the wait cuts one short.
THEOREM SleepFullCorrect == Spec => []SleepFull
<1>1. TimeInv => SleepFull
  BY DEF TimeInv, SleepInv
<1>2. QED
  BY <1>1, TimeInvariant, PTL
=============================================================================
