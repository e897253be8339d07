------------------------ MODULE KernelThreads_proofs ------------------------
(***************************************************************************)
(* Proofs about KernelThreads, for every set of threads, every set of      *)
(* sleep times and every word size.                                        *)
(***************************************************************************)
EXTENDS KernelThreads, TLAPS

USE NullAssumption, WordAssumption, MillisAssumption, SleepLimitAssumption

\* The types of the variables a scheduling decision sets.
TypeScheduled ==
    /\ running' \in Threads
    /\ status' \in [Threads -> {RUNNABLE, WAITING, WAITING_FOR}]
    /\ waiting' \in [Threads -> 0 .. (Word - 2)]
    /\ saved' \subseteq Threads
    /\ owed' \in [Threads -> Nat]
    /\ panic' \in BOOLEAN

\* What schedule_kernel_thread_current_saved leaves behind is well typed.
LEMMA ScheduleTyped ==
    ASSUME TypeOK,
           NEW nx, NEW run,
           NEW st \in [Threads -> {RUNNABLE, WAITING, WAITING_FOR}],
           NEW wt \in [Threads -> 0 .. (Word - 2)],
           NEW sv \in SUBSET Threads,
           NEW ow \in [Threads -> Nat],
           Schedule(nx, st, wt, run, sv, ow)
    PROVE  /\ TypeScheduled
           /\ running' \in RingOf(nx, run)
           /\ saved' = sv \ {running'}
<1>1. RingOf(nx, run) \subseteq Threads
  BY DEF RingOf
<1>2. panic \in BOOLEAN
  BY DEF TypeOK
<1>3. CASE ScheduleRunnable(nx, st, wt, run, sv, ow)
  BY <1>1, <1>2, <1>3 DEF ScheduleRunnable, Resume, TypeScheduled
<1>4. CASE ScheduleBlocked(nx, st, wt, run, sv, ow)
  <2>1. panic' \in BOOLEAN
    BY <1>4 DEF ScheduleBlocked
  <2>2. QED
    BY <1>1, <1>4, <2>1 DEF ScheduleBlocked, Resume, TypeScheduled
<1>5. CASE ScheduleSleep(nx, st, wt, run, sv, ow)
  <2>1. PICK t \in RingOf(nx, run) :
            /\ Resume(t, sv)
            /\ status' = WakeStatus(RingOf(nx, run), st, wt, wt[t])
            /\ waiting' = WakeWaiting(RingOf(nx, run), st, wt, wt[t])
            /\ owed' = Elapse(ow, Slept(wt[t]))
            /\ panic' = (panic \/ (wt[t] = Word - 1 /\ t = run))
    BY <1>5 DEF ScheduleSleep
  <2>2. t \in Threads
    BY <1>1
  <2>3. status' \in [Threads -> {RUNNABLE, WAITING, WAITING_FOR}]
    BY <2>1, <2>2 DEF WakeStatus
  <2>4. waiting' \in [Threads -> 0 .. (Word - 2)]
    BY <2>1, <2>2 DEF WakeWaiting
  <2>5. Slept(wt[t]) \in Nat
    BY <2>2 DEF Slept, Timeslice
  <2>6. owed' \in [Threads -> Nat]
    BY <2>1, <2>5 DEF Elapse
  <2>7. panic' \in BOOLEAN
    BY <2>1
  <2>8. QED
    BY <2>1, <2>2, <2>3, <2>4, <2>6, <2>7 DEF Resume, TypeScheduled
<1>6. QED
  BY <1>3, <1>4, <1>5 DEF Schedule

LEMMA TypeInit == Init => TypeOK
<1> SUFFICES ASSUME Init PROVE TypeOK
  OBVIOUS
<1>1. call \in Calls
  BY DEF Init, Calls
<1>2. 0 \in 0 .. (Word - 2)
  OBVIOUS
<1>3. gui \in BOOLEAN /\ panic \in BOOLEAN /\ main \in [Threads -> BOOLEAN]
  BY DEF Init
<1>4. bank \in [Threads -> {"svc", "fiq"}]
  BY DEF Init
<1>5. QED
  BY <1>1, <1>2, <1>3, <1>4 DEF Init, TypeOK, RUNNABLE

\* The part of TypeOK that a step which only enters or leaves swi_wrapper can touch.
LEMMA TypeCallOnly ==
    ASSUME TypeOK,
           UNCHANGED <<fields, alloc, handles, running, gui, panic, saved, bank, owed>>,
           count' \in Int, call' \in Calls
    PROVE  TypeOK'
BY DEF TypeOK, fields

LEMMA TypeReturn ==
    ASSUME TypeOK, SwiReturn
    PROVE  count' \in Int /\ call' \in Calls
BY DEF TypeOK, SwiReturn, Calls

LEMMA TypeEnter ==
    ASSUME TypeOK, Enter
    PROVE  TypeOK'
<1> SUFFICES ASSUME NEW op, NEW arg, SwiEnter(op, arg),
                    \/ /\ op \in {"enable", "disable", "create", "delegate"}
                       /\ arg = NULL
                    \/ op = "wait_millis" /\ arg \in Millis
                    \/ op \in {"wait_for", "delete"} /\ arg \in Threads \cup {NULL}
             PROVE  TypeOK'
  BY DEF TypeOK, Enter, EnterEnable, EnterDisable, EnterWait, EnterWaitFor,
         EnterCreate, EnterDelete, EnterDelegate
<1>1. call' \in Calls
  BY DEF SwiEnter, TypeOK, Calls
<1>2. count' \in Int
  BY DEF SwiEnter, TypeOK
<1>3. QED
  BY <1>1, <1>2, TypeCallOnly DEF SwiEnter

LEMMA TypeCreate ==
    ASSUME TypeOK,
           NEW t \in Threads, NEW nx \in [Threads -> Threads \cup {NULL}],
           NEW m \in BOOLEAN,
           CreateSvcThread(t, nx, m), SwiReturn,
           running' \in Threads \cup {NULL}, handles' \subseteq Threads,
           UNCHANGED <<gui, panic>>
    PROVE  TypeOK'
BY TypeReturn DEF TypeOK, CreateSvcThread, RUNNABLE, WAITING, WAITING_FOR

\* The argument of a call is what its entry stub put into r0.
LEMMA CallArgs ==
    ASSUME call \in Calls
    PROVE  /\ call.op = "wait_millis" => call.arg \in Millis
           /\ call.op \in {"wait_for", "delete"} => call.arg \in Threads \cup {NULL}
<1>1. CASE call = NoCall
  BY <1>1 DEF NoCall
<1>2. CASE call # NoCall
  BY <1>2 DEF Calls
<1>3. QED
  BY <1>1, <1>2

\* The types of the variables Unlink sets.
TypeUnlinked ==
    /\ next' \in [Threads -> Threads \cup {NULL}]
    /\ status_data' \in [Threads -> Threads \cup {NULL}]
    /\ alloc' \subseteq Threads
    /\ bank' \in [Threads -> {"svc", "fiq"}]

LEMMA TypeUnlink ==
    ASSUME TypeOK, NEW t, NEW R, Unlink(t, R), t \in Threads
    PROVE  TypeUnlinked
BY DEF TypeOK, Unlink, TypeUnlinked

LEMMA TypeReleased ==
    ASSUME TypeOK, NEW t, NEW R
    PROVE  ReleasedStatus(R, t) \in [Threads -> {RUNNABLE, WAITING, WAITING_FOR}]
BY DEF TypeOK, ReleasedStatus

LEMMA TypeDestroySelf ==
    ASSUME TypeOK, running # NULL, DestroySelf, count' \in Int, call' \in Calls
    PROVE  TypeOK'
<1>1. running \in Threads
  BY DEF TypeOK
<1>2. TypeUnlinked
  BY <1>1, TypeUnlink DEF DestroySelf
<1>3. TypeScheduled
  <2>1. /\ waiting \in [Threads -> 0 .. (Word - 2)]
        /\ owed \in [Threads -> Nat]
        /\ saved \in SUBSET Threads
    BY DEF TypeOK
  <2> DEFINE nx == [next EXCEPT ![Pred(running)] = next[running]]
             st == ReleasedStatus(Ring \ {running}, running)
             run == next[running]
  <2>2. st \in [Threads -> {RUNNABLE, WAITING, WAITING_FOR}]
    BY TypeReleased
  <2>3. Schedule(nx, st, waiting, run, saved, owed)
    BY DEF DestroySelf
  <2> HIDE DEF nx, st, run
  <2>4. QED
    BY <2>1, <2>2, <2>3, ScheduleTyped
<1>4. QED
  BY <1>2, <1>3 DEF DestroySelf, TypeOK, TypeUnlinked, TypeScheduled

\* The history variable keeps a natural number.
LEMMA OwedNat ==
    ASSUME NEW m \in Nat
    PROVE  Owed(m) \in Nat
BY DEF Owed, Timeslice

\* The marks scheduler_kernel_thread_wait puts on the running thread.
LEMMA TypeWaitSleep ==
    ASSUME TypeOK, WaitSleep
    PROVE  /\ [status EXCEPT ![running] = WAITING]
                  \in [Threads -> {RUNNABLE, WAITING, WAITING_FOR}]
           /\ [waiting EXCEPT ![running] = call.arg \div Timeslice + 1]
                  \in [Threads -> 0 .. (Word - 2)]
           /\ [owed EXCEPT ![running] = Owed(call.arg)] \in [Threads -> Nat]
<1> DEFINE ticks == call.arg \div Timeslice
<1>1. call.arg \in 0 .. (Word - 1)
  BY CallArgs DEF TypeOK, WaitSleep, InHandler
<1>2. ticks \in Nat /\ ticks + 1 \in 0 .. (Word - 2)
  BY <1>1 DEF Timeslice
<1> HIDE DEF ticks
<1>3. /\ [waiting EXCEPT ![running] = ticks + 1] \in [Threads -> 0 .. (Word - 2)]
      /\ [owed EXCEPT ![running] = Owed(call.arg)] \in [Threads -> Nat]
  BY <1>2, <1>1, OwedNat DEF TypeOK, WaitSleep
<1>4. QED
  BY <1>3 DEF TypeOK, ticks

LEMMA TypeHandler ==
    ASSUME TypeOK, Handler
    PROVE  TypeOK'
<1>1. CASE EnableOff
  <2>1. PICK t \in Threads : /\ CreateSvcThread(t, [next EXCEPT ![t] = t], TRUE)
                             /\ running' = t
    BY <1>1 DEF EnableOff
  <2>2. [next EXCEPT ![t] = t] \in [Threads -> Threads \cup {NULL}]
    BY DEF TypeOK
  <2>3. QED
    BY <1>1, <2>1, <2>2, TypeCreate DEF EnableOff, TypeOK
<1>2. CASE CreateAdds
  <2>1. PICK t \in Threads :
          /\ CreateSvcThread(t, [next EXCEPT ![t] = next[running], ![running] = t], FALSE)
          /\ handles' = handles \cup {t}
    BY <1>2 DEF CreateAdds
  <2>2. [next EXCEPT ![t] = next[running], ![running] = t]
            \in [Threads -> Threads \cup {NULL}]
    BY <1>2 DEF TypeOK, CreateAdds
  <2>3. QED
    BY <1>2, <2>1, <2>2, TypeCreate DEF CreateAdds, TypeOK
<1>3. CASE CreateUnlinked
  <2>1. PICK t \in Threads : /\ CreateSvcThread(t, [next EXCEPT ![t] = NULL], FALSE)
                             /\ handles' = handles \cup {t}
    BY <1>3 DEF CreateUnlinked
  <2>2. [next EXCEPT ![t] = NULL] \in [Threads -> Threads \cup {NULL}]
    BY DEF TypeOK
  <2>3. QED
    BY <1>3, <2>1, <2>2, TypeCreate DEF CreateUnlinked, TypeOK
<1>4. CASE DisableMain
  BY <1>4, TypeReturn DEF DisableMain, TypeOK, fields
<1>5. CASE \/ EnableOn \/ DisableRefused \/ WaitReturns \/ WaitForReturns
           \/ DeleteReturns \/ DelegateReturns
  BY <1>5, TypeReturn, TypeCallOnly
     DEF EnableOn, DisableRefused, WaitReturns, WaitForReturns, DeleteReturns,
         DelegateReturns
<1>6. CASE WaitSleep
  <2> DEFINE ticks == call.arg \div Timeslice
             st == [status EXCEPT ![running] = WAITING]
             wt == [waiting EXCEPT ![running] = ticks + 1]
             ow == [owed EXCEPT ![running] = Owed(call.arg)]
  <2>3. /\ st \in [Threads -> {RUNNABLE, WAITING, WAITING_FOR}]
        /\ wt \in [Threads -> 0 .. (Word - 2)]
        /\ ow \in [Threads -> Nat]
        /\ saved \cup {running} \in SUBSET Threads
    BY <1>6, TypeWaitSleep DEF TypeOK, WaitSleep
  <2>4. Schedule(next, st, wt, running, saved \cup {running}, ow)
    BY <1>6 DEF WaitSleep
  <2> HIDE DEF st, wt, ow
  <2>5. TypeScheduled
    BY <2>3, <2>4, ScheduleTyped
  <2>6. count' \in Int /\ call' \in Calls
    BY <1>6, TypeReturn DEF WaitSleep, MarkAsFinished, SwiReturn
  <2>7. QED
    BY <1>6, <2>5, <2>6 DEF WaitSleep, TypeOK, TypeScheduled
<1>7. CASE WaitForBlocks
  <2> DEFINE st == [status EXCEPT ![running] = WAITING_FOR]
  <2>1. /\ st \in [Threads -> {RUNNABLE, WAITING, WAITING_FOR}]
        /\ saved \cup {running} \in SUBSET Threads
    BY <1>7 DEF TypeOK, WaitForBlocks
  <2>2. call.arg \in Threads
    BY <1>7, CallArgs DEF TypeOK, WaitForBlocks, InHandler
  <2>3. Schedule(next, st, waiting, running, saved \cup {running}, owed)
    BY <1>7 DEF WaitForBlocks
  <2> HIDE DEF st
  <2>4. TypeScheduled
    <3>1. waiting \in [Threads -> 0 .. (Word - 2)] /\ owed \in [Threads -> Nat]
      BY DEF TypeOK
    <3>2. QED
      BY <2>1, <2>3, <3>1, ScheduleTyped
  <2>5. count' \in Int /\ call' \in Calls
    BY <1>7, TypeReturn DEF WaitForBlocks, MarkAsFinished, SwiReturn
  <2>6. QED
    BY <1>7, <2>2, <2>4, <2>5 DEF WaitForBlocks, TypeOK, TypeScheduled
<1>8. CASE DeleteSelf
  <2>1. count' \in Int /\ call' \in Calls
    BY <1>8, TypeReturn DEF DeleteSelf, MarkAsFinished, SwiReturn
  <2>2. QED
    BY <1>8, <2>1, TypeDestroySelf DEF DeleteSelf
<1>9. CASE DeleteOther
  <2>1. TypeUnlinked
    BY <1>9, TypeUnlink DEF DeleteOther, Ring, RingOf
  <2>2. status' \in [Threads -> {RUNNABLE, WAITING, WAITING_FOR}]
    BY <1>9, TypeReleased DEF DeleteOther
  <2>3. /\ saved' \subseteq Threads
        /\ owed' \in [Threads -> Nat]
    BY <1>9 DEF DeleteOther, TypeOK
  <2>4. count' \in Int /\ call' \in Calls
    BY <1>9, TypeReturn DEF DeleteOther
  <2>5. QED
    BY <1>9, <2>1, <2>2, <2>3, <2>4 DEF DeleteOther, TypeOK, TypeUnlinked
<1>10. QED
  BY <1>1, <1>2, <1>3, <1>4, <1>5, <1>6, <1>7, <1>8, <1>9 DEF Handler

LEMMA TypeFiqTick ==
    ASSUME TypeOK, FiqTick
    PROVE  TypeOK'
<1>1. running \in Threads
  BY DEF TypeOK, FiqTick, FiqMaySwitch
<1>2. TypeScheduled
  <2>1. /\ status \in [Threads -> {RUNNABLE, WAITING, WAITING_FOR}]
        /\ waiting \in [Threads -> 0 .. (Word - 2)]
        /\ owed \in [Threads -> Nat]
        /\ saved \cup {running} \in SUBSET Threads
    BY <1>1 DEF TypeOK
  <2>2. Schedule(next, status, waiting, running, saved \cup {running}, owed)
    BY DEF FiqTick
  <2>3. QED
    BY <2>1, <2>2, ScheduleTyped
<1>3. QED
  BY <1>1, <1>2 DEF FiqTick, TypeOK, TypeScheduled

\* Every struct field, the head of the ring and the call in progress keep their type:
\* the waiting times stay in the word, the pointers stay pointers to threads.
THEOREM TypeCorrect == Spec => []TypeOK
<1>1. Init => TypeOK
  BY TypeInit
<1>2. TypeOK /\ [Next]_vars => TypeOK'
  <2> SUFFICES ASSUME TypeOK, [Next]_vars PROVE TypeOK'
    OBVIOUS
  <2>1. CASE Enter
    BY <2>1, TypeEnter
  <2>2. CASE Handler
    BY <2>2, TypeHandler
  <2>3. CASE ThreadExit
    BY <2>3, TypeDestroySelf DEF ThreadExit, TypeOK
  <2>4. CASE FiqTick
    BY <2>4, TypeFiqTick
  <2>5. CASE TaskAway
    BY <2>5 DEF TaskAway, TypeOK, fields
  <2>6. CASE TaskBack
    BY <2>6 DEF TaskBack, TypeOK, fields
  <2>7. CASE UNCHANGED vars
    BY <2>7 DEF vars, TypeOK
  <2>8. QED
    BY <2>1, <2>2, <2>3, <2>4, <2>5, <2>6, <2>7 DEF Next
<1>3. QED
  BY <1>1, <1>2, PTL DEF Spec

-----------------------------------------------------------------------------
(***************************************************************************)
(* The ring.  A circle is the ring of each of its threads (CircleRing), it *)
(* stays one when a thread is linked in (CircleAdd) and when a thread is   *)
(* taken out (CircleRemove).                                               *)
(***************************************************************************)

LEMMA RingMember ==
    ASSUME NEW nx, NEW run \in Threads
    PROVE  run \in RingOf(nx, run) /\ RingOf(nx, run) \subseteq Threads
BY DEF RingOf

LEMMA CircleRing ==
    ASSUME NEW nx, NEW R \in SUBSET Threads, Circle(nx, R), NEW t \in R
    PROVE  RingOf(nx, t) = R
<1>1. RingOf(nx, t) \subseteq R
  BY DEF RingOf, Circle
<1>2. ASSUME NEW S \in SUBSET Threads, t \in S, Closed(nx, S)
      PROVE  R \subseteq S
  <2>1. Closed(nx, S \cap R)
    BY <1>2 DEF Circle, Closed
  <2>2. S \cap R \in SUBSET R /\ S \cap R # {}
    BY <1>2
  <2>3. S \cap R = R
    BY <2>1, <2>2 DEF Circle
  <2>4. QED
    BY <2>3
<1>3. R \subseteq RingOf(nx, t)
  BY <1>2 DEF RingOf
<1>4. QED
  BY <1>1, <1>3

LEMMA CircleAdd ==
    ASSUME NEW nx \in [Threads -> Threads \cup {NULL}],
           NEW R \in SUBSET Threads, Circle(nx, R),
           NEW run \in R, NEW t \in Threads \ R
    PROVE  Circle([nx EXCEPT ![t] = nx[run], ![run] = t], R \cup {t})
<1> DEFINE mx == [nx EXCEPT ![t] = nx[run], ![run] = t]
<1>1. /\ mx[t] = nx[run]
      /\ mx[run] = t
      /\ \A x \in R \ {run} : mx[x] = nx[x]
  OBVIOUS
<1> HIDE DEF mx
<1>2. \A x \in R : nx[x] \in R
  BY DEF Circle, Closed
<1>3. \A x, y \in R : nx[x] = nx[y] => x = y
  BY DEF Circle
<1>4. Closed(mx, R \cup {t})
  BY <1>1, <1>2 DEF Closed
<1>5. \A x, y \in R \cup {t} : mx[x] = mx[y] => x = y
  BY <1>1, <1>2, <1>3
<1>6. ASSUME NEW S \in SUBSET (R \cup {t}), S # {}, Closed(mx, S)
      PROVE  S = R \cup {t}
  <2>1. Closed(nx, S \cap R)
    BY <1>1, <1>2, <1>6 DEF Closed
  <2>2. S \cap R # {}
    BY <1>1, <1>2, <1>6 DEF Closed
  <2>3. S \cap R = R
    <3>1. S \cap R \in SUBSET R
      OBVIOUS
    <3>2. QED
      BY <2>1, <2>2, <3>1 DEF Circle
  <2>4. t \in S
    BY <1>1, <1>6, <2>3 DEF Closed
  <2>5. QED
    BY <2>3, <2>4
<1>7. QED
  BY <1>4, <1>5, <1>6 DEF Circle, mx

LEMMA CircleRemove ==
    ASSUME NEW nx \in [Threads -> Threads \cup {NULL}],
           NEW R \in SUBSET Threads, Circle(nx, R),
           NEW t \in R, NEW p \in R, nx[p] = t, R # {t}
    PROVE  /\ Circle([nx EXCEPT ![p] = nx[t]], R \ {t})
           /\ nx[t] \in R \ {t}
<1> DEFINE mx == [nx EXCEPT ![p] = nx[t]]
<1>1. /\ mx[p] = nx[t]
      /\ \A x \in R \ {p} : mx[x] = nx[x]
  OBVIOUS
<1> HIDE DEF mx
<1>2. \A x \in R : nx[x] \in R
  BY DEF Circle, Closed
<1>3. \A x, y \in R : nx[x] = nx[y] => x = y
  BY DEF Circle
<1>4. nx[t] # t
  <2>1. SUFFICES ASSUME nx[t] = t PROVE FALSE
    OBVIOUS
  <2>2. Closed(nx, {t}) /\ {t} \in SUBSET R
    BY <2>1 DEF Closed
  <2>3. QED
    BY <2>2 DEF Circle
<1>5. p # t
  BY <1>4
<1>6. Closed(mx, R \ {t})
  BY <1>1, <1>2, <1>3, <1>4 DEF Closed
<1>7. \A x, y \in R \ {t} : mx[x] = mx[y] => x = y
  BY <1>1, <1>2, <1>3
<1>8. ASSUME NEW S \in SUBSET (R \ {t}), S # {}, Closed(mx, S)
      PROVE  S = R \ {t}
  <2>1. p \in S
    <3>1. SUFFICES ASSUME p \notin S PROVE FALSE
      OBVIOUS
    <3>2. Closed(nx, S)
      BY <1>1, <1>8, <3>1 DEF Closed
    <3>3. S \in SUBSET R
      OBVIOUS
    <3>4. S = R
      BY <1>8, <3>2, <3>3 DEF Circle
    <3>5. QED
      BY <3>4
  <2>2. Closed(nx, S \cup {t})
    BY <1>1, <1>8, <2>1 DEF Closed
  <2>3. S \cup {t} \in SUBSET R
    OBVIOUS
  <2>4. S \cup {t} = R
    BY <2>2, <2>3 DEF Circle
  <2>5. QED
    BY <2>4
<1>9. QED
  BY <1>2, <1>4, <1>6, <1>7, <1>8 DEF Circle, mx

LEMMA CirclePred ==
    ASSUME NEW nx \in [Threads -> Threads \cup {NULL}],
           NEW R \in SUBSET Threads, Circle(nx, R), NEW t \in R
    PROVE  \E p \in R : nx[p] = t
<1> SUFFICES ASSUME \A p \in R : nx[p] # t PROVE FALSE
  OBVIOUS
<1>1. Closed(nx, R \ {t})
  BY DEF Circle, Closed
<1>2. R \ {t} \in SUBSET R /\ R \ {t} # R
  OBVIOUS
<1>3. R \ {t} = {}
  BY <1>1, <1>2 DEF Circle
<1>4. nx[t] = t
  BY <1>3 DEF Circle, Closed
<1>5. QED
  BY <1>4

-----------------------------------------------------------------------------
(***************************************************************************)
(* A scheduling decision on a circle R that holds a main thread.           *)
(***************************************************************************)

\* The thread that runs is runnable, or it is main and every thread is blocked.
ReadyIn(mn, R, st, run) ==
    \/ st[run] = RUNNABLE
    \/ /\ mn[run]
       /\ st[run] = WAITING_FOR
       /\ \A t \in R : st[t] # WAITING

LEMMA ScheduleRing ==
    ASSUME TypeOK,
           NEW nx, NEW R \in SUBSET Threads, Circle(nx, R), NEW run \in R,
           NEW st \in [Threads -> {RUNNABLE, WAITING, WAITING_FOR}],
           NEW wt \in [Threads -> 0 .. (Word - 2)],
           NEW sv \in SUBSET Threads,
           NEW ow \in [Threads -> Nat],
           Schedule(nx, st, wt, run, sv, ow),
           \E m \in R : main[m], ~ panic
    PROVE  /\ running' \in R
           /\ RingOf(nx, running') = R
           /\ saved' = sv \ {running'}
           /\ ReadyIn(main, R, status', running')
           /\ ~ panic'
<1>1. RingOf(nx, run) = R
  BY CircleRing
<1>2. running' \in R /\ saved' = sv \ {running'}
  BY <1>1, ScheduleTyped
<1>3. RingOf(nx, running') = R
  BY <1>2, CircleRing
<1>4. CASE ScheduleRunnable(nx, st, wt, run, sv, ow)
  <2>1. st[running'] = RUNNABLE
    BY <1>1, <1>4 DEF ScheduleRunnable, Resume, IsFirst
  <2>2. status' = st /\ waiting' = wt /\ panic' = panic
    BY <1>4 DEF ScheduleRunnable
  <2>3. ReadyIn(main, R, status', running')
    BY <2>1, <2>2 DEF ReadyIn
  <2>4. QED
    BY <1>2, <1>3, <2>2, <2>3
<1>5. CASE ScheduleBlocked(nx, st, wt, run, sv, ow)
  <2> DEFINE Mains == {u \in R : main[u]}
  <2>1. Mains # {}
    OBVIOUS
  <2>2. /\ running' \in Mains
        /\ \A u \in R : st[u] = WAITING_FOR
        /\ status' = st /\ waiting' = wt
    BY <1>1, <1>5, <2>1 DEF ScheduleBlocked, Resume, IsFirst
  <2>3. ~ panic'
    BY <1>1, <1>5, <2>1 DEF ScheduleBlocked
  <2>4. ReadyIn(main, R, status', running')
    BY <2>2 DEF ReadyIn, WAITING, WAITING_FOR
  <2>5. QED
    BY <1>2, <1>3, <2>2, <2>3, <2>4
<1>6. CASE ScheduleSleep(nx, st, wt, run, sv, ow)
  <2> DEFINE Sleepers == {u \in R : st[u] = WAITING}
             Shortest == {u \in Sleepers : \A v \in Sleepers : wt[u] <= wt[v]}
  <2>1. PICK t \in R :
            /\ IsLast(nx, run, Shortest, t)
            /\ Resume(t, sv)
            /\ status' = WakeStatus(R, st, wt, wt[t])
            /\ waiting' = WakeWaiting(R, st, wt, wt[t])
            /\ panic' = (panic \/ (wt[t] = Word - 1 /\ t = run))
    BY <1>1, <1>6 DEF ScheduleSleep
  <2>2. t \in Shortest /\ t \in Threads /\ running' = t
    BY <2>1 DEF IsLast, Resume
  <2>3. status'[t] = RUNNABLE
    BY <2>1, <2>2 DEF WakeStatus
  <2>4. ~ panic'
    <3>1. wt[t] # Word - 1
      BY <2>2
    <3>2. QED
      BY <2>1, <3>1
  <2>5. QED
    BY <1>2, <1>3, <2>2, <2>3, <2>4 DEF ReadyIn
<1>7. QED
  BY <1>4, <1>5, <1>6 DEF Schedule

-----------------------------------------------------------------------------
(***************************************************************************)
(* The invariant of the ring.  Its conjuncts need each other: the circle   *)
(* makes the walks find what they look for, the main thread keeps a lone   *)
(* thread from ending itself and the fallback from panicking, and the      *)
(* running thread's readiness is decided by the same scheduling step that  *)
(* stores and loads contexts.                                              *)
(***************************************************************************)
RingInv == RingIntact /\ MainInRing /\ ContextSaved /\ RunningIsReady /\ NoPanic

\* Exactly one thread of R is the main thread.
OneMain(mn, R) == /\ \E t \in R : mn[t]
                  /\ \A s, t \in R : mn[s] /\ mn[t] => s = t

\* RingInv while threads are scheduled, said of a set R that is the ring.
LEMMA RingInvOpen ==
    ASSUME TypeOK, RingInv, running # NULL
    PROVE  /\ Ring \in SUBSET Threads /\ running \in Ring
           /\ Circle(next, Ring) /\ Ring \subseteq alloc
           /\ OneMain(main, Ring)
           /\ Ring \ {running} \subseteq saved /\ running \notin saved
           /\ ReadyIn(main, Ring, status, running)
           /\ ~ panic
<1>1. running \in Threads
  BY DEF TypeOK
<1>2. Ring \in SUBSET Threads /\ running \in Ring
  BY <1>1, RingMember DEF Ring
<1>3. QED
  BY <1>2 DEF RingInv, RingIntact, MainInRing, ContextSaved, RunningIsReady, NoPanic,
              OneMain, ReadyIn

LEMMA RingInvClose ==
    ASSUME NEW R \in SUBSET Threads, running' \in R,
           Circle(next', R), R \subseteq alloc',
           OneMain(main', R),
           R \ {running'} \subseteq saved', running' \notin saved',
           ReadyIn(main', R, status', running'),
           ~ panic'
    PROVE  RingInv' /\ Ring' = R
<1>1. Ring' = R
  BY CircleRing DEF Ring
<1>2. Circle(next, Ring)'
  BY <1>1
<1>3. RunningIsReady'
  BY <1>1 DEF RunningIsReady, ReadyIn
<1>4. QED
  BY <1>1, <1>2, <1>3 DEF RingInv, RingIntact, MainInRing, ContextSaved, NoPanic,
                          OneMain

LEMMA RingInvOff ==
    ASSUME running' = NULL, ~ panic'
    PROVE  RingInv'
<1>1. Ring' = {}
  BY DEF Ring, RingOf
<1>2. Circle(next, Ring)'
  BY <1>1 DEF Circle, Closed
<1>3. QED
  BY <1>1, <1>2 DEF RingInv, RingIntact, MainInRing, ContextSaved, RunningIsReady,
                    NoPanic

LEMMA RingSame ==
    ASSUME RingInv, UNCHANGED <<fields, alloc, running, panic, saved>>
    PROVE  RingInv' /\ Ring' = Ring
<1>1. Ring' = Ring
  BY DEF fields, Ring, RingOf, Closed
<1>2. Circle(next, Ring)' = Circle(next, Ring)
  BY <1>1 DEF fields, Circle, Closed
<1>3. QED
  BY <1>1, <1>2 DEF fields, RingInv, RingIntact, MainInRing, ContextSaved,
                    RunningIsReady, NoPanic

\* A step that marks the running thread and lets the scheduler decide.
LEMMA ScheduleKeeps ==
    ASSUME TypeOK, RingInv, running # NULL,
           NEW st \in [Threads -> {RUNNABLE, WAITING, WAITING_FOR}],
           NEW wt \in [Threads -> 0 .. (Word - 2)],
           NEW ow \in [Threads -> Nat],
           Schedule(next, st, wt, running, saved \cup {running}, ow),
           UNCHANGED <<next, main, alloc>>
    PROVE  RingInv' /\ Ring' = Ring
<1> DEFINE R == Ring
<1>1. /\ R \in SUBSET Threads /\ running \in R
      /\ Circle(next, R) /\ R \subseteq alloc
      /\ OneMain(main, R)
      /\ R \ {running} \subseteq saved
      /\ ~ panic
  BY RingInvOpen
<1> DEFINE sv == saved \cup {running}
<1>2. sv \in SUBSET Threads /\ Schedule(next, st, wt, running, sv, ow)
  BY <1>1 DEF TypeOK
<1>3. \E m \in R : main[m]
  BY <1>1 DEF OneMain
<1>4. /\ running' \in R
      /\ saved' = sv \ {running'}
      /\ ReadyIn(main, R, status', running')
      /\ ~ panic'
  <2> HIDE DEF R, sv
  <2>1. QED
    BY <1>1, <1>2, <1>3, ScheduleRing
<1>5. QED
  BY <1>1, <1>4, RingInvClose

LEMMA RingDestroySelf ==
    ASSUME TypeOK, RingInv, running # NULL, DestroySelf
    PROVE  RingInv' /\ Ring' = Ring \ {running}
<1> DEFINE R == Ring
           nx == [next EXCEPT ![Pred(running)] = next[running]]
           st == ReleasedStatus(Ring \ {running}, running)
<1>1. /\ R \in SUBSET Threads /\ running \in R
      /\ Circle(next, R) /\ R \subseteq alloc
      /\ OneMain(main, R)
      /\ R \ {running} \subseteq saved /\ running \notin saved
      /\ ~ panic
  BY RingInvOpen
<1>2. next \in [Threads -> Threads \cup {NULL}]
  BY DEF TypeOK
<1>3. Pred(running) \in R /\ next[Pred(running)] = running
  BY <1>1, <1>2, CirclePred DEF Pred
<1>4. R # {running}
  BY <1>1 DEF DestroySelf, OneMain
<1>5. Circle(nx, R \ {running}) /\ next[running] \in R \ {running}
  <2> HIDE DEF R
  <2>1. QED
    BY <1>1, <1>2, <1>3, <1>4, CircleRemove
<1>6. OneMain(main, R \ {running})
  BY <1>1 DEF OneMain, DestroySelf
<1>7. /\ Schedule(nx, st, waiting, next[running], saved, owed)
      /\ next' = nx /\ main' = main /\ alloc' = alloc \ {running}
  BY DEF DestroySelf, Unlink
<1>8. /\ st \in [Threads -> {RUNNABLE, WAITING, WAITING_FOR}]
      /\ waiting \in [Threads -> 0 .. (Word - 2)]
      /\ owed \in [Threads -> Nat]
      /\ saved \in SUBSET Threads
  BY TypeReleased DEF TypeOK
<1>9. R \ {running} \in SUBSET Threads
  BY <1>1
<1>10. \E m \in R \ {running} : main[m]
  BY <1>6 DEF OneMain
<1> DEFINE Q == R \ {running}
           run == next[running]
<1>11. /\ running' \in Q
       /\ saved' = saved \ {running'}
       /\ ReadyIn(main, Q, status', running')
       /\ ~ panic'
  <2>1. /\ Q \in SUBSET Threads /\ Circle(nx, Q) /\ run \in Q
        /\ \E m \in Q : main[m]
        /\ Schedule(nx, st, waiting, run, saved, owed)
    BY <1>5, <1>7, <1>9, <1>10
  <2> HIDE DEF nx, st, Q, run, R
  <2>2. QED
    BY <1>1, <1>8, <2>1, ScheduleRing
<1>12. Q \in SUBSET Threads /\ Circle(next', Q) /\ Q \subseteq alloc' /\ OneMain(main', Q)
  BY <1>1, <1>5, <1>6, <1>7
<1>13. Q \ {running'} \subseteq saved' /\ running' \notin saved'
  BY <1>1, <1>11
<1>14. RingInv' /\ Ring' = Q
  <2> HIDE DEF Q
  <2>1. QED
    BY <1>7, <1>11, <1>12, <1>13, RingInvClose
<1>15. QED
  BY <1>14

LEMMA RingEnable ==
    ASSUME TypeOK, RingInv, EnableOff
    PROVE  RingInv' /\ Ring' = {running'}
<1>1. PICK t \in Threads : /\ CreateSvcThread(t, [next EXCEPT ![t] = t], TRUE)
                           /\ running' = t
  BY DEF EnableOff
<1>2. /\ next'[t] = t /\ main'[t] /\ status'[t] = RUNNABLE
      /\ t \in alloc' /\ t \notin saved'
  BY <1>1 DEF CreateSvcThread, TypeOK
<1>3. Circle(next', {t})
  BY <1>2 DEF Circle, Closed
<1>4. OneMain(main', {t})
  BY <1>2 DEF OneMain
<1>5. ~ panic'
  BY DEF EnableOff, RingInv, NoPanic
<1>6. ReadyIn(main', {t}, status', running')
  BY <1>1, <1>2 DEF ReadyIn
<1>7. QED
  BY <1>1, <1>2, <1>3, <1>4, <1>5, <1>6, RingInvClose

LEMMA RingCreate ==
    ASSUME TypeOK, RingInv, CreateAdds
    PROVE  RingInv' /\ \E t \in Threads \ alloc : Ring' = Ring \cup {t} /\ status'[t] = RUNNABLE
<1> DEFINE R == Ring
<1>1. /\ R \in SUBSET Threads /\ running \in R
      /\ Circle(next, R) /\ R \subseteq alloc
      /\ OneMain(main, R)
      /\ R \ {running} \subseteq saved /\ running \notin saved
      /\ ReadyIn(main, R, status, running)
      /\ ~ panic
  BY RingInvOpen DEF CreateAdds
<1> HIDE DEF R
<1>2. PICK t \in Threads :
        CreateSvcThread(t, [next EXCEPT ![t] = next[running], ![running] = t], FALSE)
  BY DEF CreateAdds
<1>3. t \in Threads \ R
  BY <1>1, <1>2 DEF CreateSvcThread, NewThread
<1>4. Circle(next', R \cup {t})
  BY <1>1, <1>2, <1>3, CircleAdd DEF TypeOK, CreateSvcThread
<1>5. /\ \A u \in R : main'[u] = main[u] /\ status'[u] = status[u]
      /\ ~ main'[t] /\ status'[t] = RUNNABLE
      /\ saved' = saved \cup {t} /\ alloc' = alloc \cup {t}
  BY <1>1, <1>2, <1>3 DEF CreateSvcThread, TypeOK
<1>6. OneMain(main', R \cup {t})
  BY <1>1, <1>5 DEF OneMain
<1>7. running' = running /\ ~ panic'
  BY <1>1 DEF CreateAdds
<1>8. ReadyIn(main', R \cup {t}, status', running')
  BY <1>1, <1>5, <1>7 DEF ReadyIn, RUNNABLE, WAITING
<1>9. RingInv' /\ Ring' = R \cup {t}
  BY <1>1, <1>3, <1>4, <1>5, <1>6, <1>7, <1>8, RingInvClose
<1>10. t \in Threads \ alloc
  BY <1>2 DEF CreateSvcThread, NewThread
<1>11. QED
  BY <1>5, <1>9, <1>10 DEF R

LEMMA RingDelete ==
    ASSUME TypeOK, RingInv, DeleteOther
    PROVE  RingInv' /\ Ring' = Ring \ {call.arg}
<1> DEFINE R == Ring
           t == call.arg
           nx == [next EXCEPT ![Pred(t)] = next[t]]
<1>1. /\ R \in SUBSET Threads /\ running \in R
      /\ Circle(next, R) /\ R \subseteq alloc
      /\ OneMain(main, R)
      /\ R \ {running} \subseteq saved /\ running \notin saved
      /\ ReadyIn(main, R, status, running)
      /\ ~ panic
  BY RingInvOpen DEF DeleteOther
<1>2. t \in R /\ t # running /\ ~ main[t]
  BY DEF DeleteOther
<1>3. next \in [Threads -> Threads \cup {NULL}]
  BY DEF TypeOK
<1>4. Pred(t) \in R /\ next[Pred(t)] = t
  BY <1>1, <1>2, <1>3, CirclePred DEF Pred
<1>5. Circle(nx, R \ {t})
  <2> HIDE DEF R, t
  <2>1. R # {t}
    BY <1>1, <1>2
  <2>2. QED
    BY <1>1, <1>2, <1>3, <1>4, <2>1, CircleRemove
<1>6. /\ next' = nx /\ main' = main /\ alloc' = alloc \ {t}
      /\ running' = running /\ saved' = saved \ {t} /\ panic' = panic
      /\ status' = ReleasedStatus(R \ {t}, t)
  BY DEF DeleteOther, Unlink
<1>7. \A u \in R \ {t} : status'[u] = status[u] \/ status'[u] = RUNNABLE
  BY <1>1, <1>6 DEF ReleasedStatus
<1>8. ReadyIn(main', R \ {t}, status', running')
  <2> HIDE DEF R, t, nx
  <2>1. running \in R \ {t} /\ running' = running /\ main' = main
    BY <1>1, <1>2, <1>6
  <2>2. RUNNABLE # WAITING
    BY DEF RUNNABLE, WAITING
  <2>3. QED
    BY <1>1, <1>7, <2>1, <2>2 DEF ReadyIn
<1>9. OneMain(main', R \ {t})
  BY <1>1, <1>2, <1>6 DEF OneMain
<1>10. /\ R \ {t} \in SUBSET Threads /\ running' \in R \ {t}
       /\ Circle(next', R \ {t}) /\ R \ {t} \subseteq alloc'
       /\ (R \ {t}) \ {running'} \subseteq saved' /\ running' \notin saved'
       /\ ~ panic'
  BY <1>1, <1>2, <1>5, <1>6
<1>11. RingInv' /\ Ring' = R \ {t}
  <2> HIDE DEF R, t
  <2>1. QED
    BY <1>8, <1>9, <1>10, RingInvClose
<1>12. QED
  BY <1>11

LEMMA RingHandler ==
    ASSUME TypeOK, RingInv, Handler
    PROVE  RingInv'
<1>1. CASE EnableOff
  BY <1>1, RingEnable
<1>2. CASE CreateAdds
  BY <1>2, RingCreate
<1>3. CASE CreateUnlinked
  BY <1>3, RingInvOff DEF CreateUnlinked, RingInv, NoPanic
<1>4. CASE DisableMain
  BY <1>4, RingInvOff DEF DisableMain, RingInv, NoPanic
<1>5. CASE \/ EnableOn \/ DisableRefused \/ WaitReturns \/ WaitForReturns
           \/ DeleteReturns \/ DelegateReturns
  BY <1>5, RingSame
     DEF EnableOn, DisableRefused, WaitReturns, WaitForReturns, DeleteReturns,
         DelegateReturns
<1>6. CASE WaitSleep
  <2> DEFINE ticks == call.arg \div Timeslice
             st == [status EXCEPT ![running] = WAITING]
             wt == [waiting EXCEPT ![running] = ticks + 1]
             ow == [owed EXCEPT ![running] = Owed(call.arg)]
  <2>1. /\ st \in [Threads -> {RUNNABLE, WAITING, WAITING_FOR}]
        /\ wt \in [Threads -> 0 .. (Word - 2)]
        /\ ow \in [Threads -> Nat]
    BY <1>6, TypeWaitSleep
  <2>2. /\ Schedule(next, st, wt, running, saved \cup {running}, ow)
        /\ running # NULL
        /\ UNCHANGED <<next, main, alloc>>
    BY <1>6 DEF WaitSleep
  <2> HIDE DEF st, wt, ow
  <2>3. QED
    BY <2>1, <2>2, ScheduleKeeps
<1>7. CASE WaitForBlocks
  <2> DEFINE st == [status EXCEPT ![running] = WAITING_FOR]
  <2>1. /\ st \in [Threads -> {RUNNABLE, WAITING, WAITING_FOR}]
        /\ waiting \in [Threads -> 0 .. (Word - 2)]
        /\ owed \in [Threads -> Nat]
    BY <1>7 DEF TypeOK, WaitForBlocks
  <2>2. /\ Schedule(next, st, waiting, running, saved \cup {running}, owed)
        /\ running # NULL
        /\ UNCHANGED <<next, main, alloc>>
    BY <1>7 DEF WaitForBlocks
  <2> HIDE DEF st
  <2>3. QED
    BY <2>1, <2>2, ScheduleKeeps
<1>8. CASE DeleteSelf
  BY <1>8, RingDestroySelf DEF DeleteSelf
<1>9. CASE DeleteOther
  BY <1>9, RingDelete
<1>10. QED
  BY <1>1, <1>2, <1>3, <1>4, <1>5, <1>6, <1>7, <1>8, <1>9 DEF Handler

LEMMA RingStep ==
    ASSUME TypeOK, RingInv, [Next]_vars
    PROVE  RingInv'
<1>1. CASE Enter
  BY <1>1, RingSame DEF Enter, EnterEnable, EnterDisable, EnterWait, EnterWaitFor,
                        EnterCreate, EnterDelete, EnterDelegate, SwiEnter
<1>2. CASE Handler
  BY <1>2, RingHandler
<1>3. CASE ThreadExit
  BY <1>3, RingDestroySelf DEF ThreadExit
<1>4. CASE FiqTick
  <2>1. /\ status \in [Threads -> {RUNNABLE, WAITING, WAITING_FOR}]
        /\ waiting \in [Threads -> 0 .. (Word - 2)]
        /\ owed \in [Threads -> Nat]
    BY DEF TypeOK
  <2>2. /\ Schedule(next, status, waiting, running, saved \cup {running}, owed)
        /\ running # NULL
        /\ UNCHANGED <<next, main, alloc>>
    BY <1>4 DEF FiqTick, FiqMaySwitch
  <2>3. QED
    BY <2>1, <2>2, ScheduleKeeps
<1>5. CASE TaskAway \/ TaskBack
  BY <1>5, RingSame DEF TaskAway, TaskBack
<1>6. CASE UNCHANGED vars
  BY <1>6, RingSame DEF vars, fields
<1>7. QED
  BY <1>1, <1>2, <1>3, <1>4, <1>5, <1>6 DEF Next

\* Whatever the program calls and whenever the timeslice FIQ falls: the threads stay
\* one circle of allocated structs with exactly one main thread, every suspended
\* thread has its registers stored, the running thread is runnable or the main
\* thread out of a deadlock, and the scheduler does not panic.
THEOREM RingCorrect ==
    Spec => [](RingIntact /\ MainInRing /\ ContextSaved /\ RunningIsReady /\ NoPanic)
<1>1. Init => RingInv
  <2> SUFFICES ASSUME Init PROVE RingInv
    OBVIOUS
  <2>1. Ring = {}
    BY DEF Init, Ring, RingOf
  <2>2. QED
    BY <2>1 DEF Init, RingInv, RingIntact, MainInRing, ContextSaved, RunningIsReady,
                NoPanic, Circle, Closed
<1>2. TypeOK /\ RingInv /\ [Next]_vars => RingInv'
  BY RingStep
<1>3. RingInv => RingIntact /\ MainInRing /\ ContextSaved /\ RunningIsReady /\ NoPanic
  BY DEF RingInv
<1>4. QED
  BY <1>1, <1>2, <1>3, TypeCorrect, PTL DEF Spec

\* While threads are scheduled exactly one thread of the ring is the main thread, so
\* that scheduler_disable is reachable, whichever threads come and go meanwhile.
THEOREM MainInRingCorrect == Spec => []MainInRing
BY RingCorrect, PTL

\* resume_svc_thread: every thread of the ring that does not run has its registers in
\* its struct, and the running thread is not resumed a second time from an old copy.
THEOREM ContextSavedCorrect == Spec => []ContextSaved
BY RingCorrect, PTL

\* schedule_kernel_thread_current_saved: the thread it lets run is runnable, or it is
\* the main thread resumed out of a deadlock while no thread sleeps.
THEOREM RunningIsReadyCorrect == Spec => []RunningIsReady
BY RingCorrect, PTL

\* Neither panic of schedule_kernel_thread_current_saved is reachable, for any number
\* of threads.
THEOREM NoPanicCorrect == Spec => []NoPanic
BY RingCorrect, PTL

LEMMA BalancedStep ==
    ASSUME SyscallsBalanced, [Next]_vars
    PROVE  SyscallsBalanced'
<1>1. CASE Enter
  BY <1>1 DEF Enter, EnterEnable, EnterDisable, EnterWait, EnterWaitFor, EnterCreate,
              EnterDelete, EnterDelegate, SwiEnter, ThreadCode, SyscallsBalanced, NoCall
<1>2. CASE Handler
  <2>1. call.op # "none"
    BY <1>2 DEF Handler, EnableOff, EnableOn, DisableMain, DisableRefused, WaitSleep,
                WaitReturns, WaitForBlocks, WaitForReturns, CreateAdds, CreateUnlinked,
                DeleteSelf, DeleteOther, DeleteReturns, DelegateReturns, InHandler
  <2>2. count' = count - 1 /\ call' = NoCall
    BY <1>2 DEF Handler, EnableOff, EnableOn, DisableMain, DisableRefused, WaitSleep,
                WaitReturns, WaitForBlocks, WaitForReturns, CreateAdds, CreateUnlinked,
                DeleteSelf, DeleteOther, DeleteReturns, DelegateReturns, SwiReturn,
                MarkAsFinished
  <2>3. call # NoCall
    BY <2>1 DEF NoCall
  <2>4. QED
    BY <2>2, <2>3 DEF SyscallsBalanced
<1>3. CASE ThreadExit \/ FiqTick
  BY <1>3 DEF ThreadExit, ThreadCode, FiqTick, FiqMaySwitch, SyscallsBalanced
<1>4. CASE TaskAway \/ TaskBack \/ UNCHANGED vars
  BY <1>4 DEF TaskAway, TaskBack, vars, SyscallsBalanced
<1>5. QED
  BY <1>1, <1>2, <1>3, <1>4 DEF Next

\* __syscall_in_progress counts exactly the call inside swi_wrapper, also when its
\* handler leaves through resume_svc_thread, and no thread switch separates a call
\* from the thread that made it.
THEOREM BalancedCorrect == Spec => []SyscallsBalanced
<1>1. Init => SyscallsBalanced
  BY DEF Init, SyscallsBalanced
<1>2. SyscallsBalanced /\ [Next]_vars => SyscallsBalanced'
  BY BalancedStep
<1>3. QED
  BY <1>1, <1>2, PTL DEF Spec

-----------------------------------------------------------------------------
(***************************************************************************)
(* Sleeping.  One msleep waits min_wait timeslices, or SleepLimit if that  *)
(* is less, or, when the product leaves the word, any time at all.  A      *)
(* sleeper is owed at most SleepLimit, so the second case pays it in full; *)
(* and the product only leaves the word when every sleeper asked for so    *)
(* much that nothing is owed to it.                                        *)
(***************************************************************************)
Longest == SleepLimit \div Timeslice

\* NoEarlyWake about given statuses, waiting and owed times, with the two bounds on
\* what is owed that make it inductive.
NotEarly(R, st, wt, ow) ==
    \A t \in R : /\ st[t] = WAITING => /\ ow[t] <= wt[t]
                                       /\ wt[t] * Timeslice >= Word => ow[t] = 0
                 /\ st[t] # WAITING => ow[t] = 0
                 /\ ow[t] <= Longest

SleepInv == NotEarly(Ring, status, waiting, owed)

LEMMA LongestNat == Longest \in Nat
BY DEF Longest, Timeslice

\* What one msleep waits.
LEMMA SleptTime ==
    ASSUME NEW w \in Nat
    PROVE  /\ Slept(w) \in Nat
           /\ w * Timeslice < Word => Slept(w) = w \/ (Slept(w) = Longest /\ Slept(w) <= w)
<1>1. (w * 2) % Word \in Nat
  OBVIOUS
<1>2. Slept(w) \in Nat
  BY <1>1 DEF Slept, Timeslice
<1>3. ASSUME w * 2 < Word
      PROVE  Slept(w) = w \/ (Slept(w) = Longest /\ Slept(w) <= w)
  <2>1. (w * 2) % Word = w * 2
    BY <1>3
  <2>2. CASE w * 2 < SleepLimit
    BY <2>1, <2>2 DEF Slept, Timeslice
  <2>3. CASE ~ (w * 2 < SleepLimit)
    <3>1. Slept(w) = SleepLimit \div 2
      BY <2>1, <2>3 DEF Slept, Timeslice
    <3>2. SleepLimit \div 2 <= w
      BY <2>3
    <3>3. QED
      BY <3>1, <3>2 DEF Longest, Timeslice
  <2>4. QED
    BY <2>2, <2>3
<1>4. QED
  BY <1>2, <1>3 DEF Timeslice

\* What scheduler_kernel_thread_wait sets for the running thread.
LEMMA OwedTime ==
    ASSUME NEW m \in Nat
    PROVE  /\ Owed(m) \in Nat /\ Owed(m) <= Longest
           /\ Owed(m) <= (m \div Timeslice) + 1
           /\ ((m \div Timeslice) + 1) * Timeslice >= Word => Owed(m) = 0
<1> DEFINE ticks == m \div Timeslice
<1>1. ticks \in Nat
  BY DEF Timeslice
<1>2. Owed(m) = IF (ticks + 1) * Timeslice >= Word THEN 0
                ELSE IF ticks < Longest THEN ticks ELSE Longest
  BY DEF Owed, Longest
<1> HIDE DEF ticks
<1>3. /\ Owed(m) \in Nat /\ Owed(m) <= Longest
      /\ Owed(m) <= ticks + 1
      /\ (ticks + 1) * Timeslice >= Word => Owed(m) = 0
  BY <1>1, <1>2, LongestNat DEF Timeslice
<1>4. QED
  BY <1>3 DEF ticks

LEMMA ScheduleNotEarly ==
    ASSUME NEW nx, NEW R \in SUBSET Threads, NEW run,
           RingOf(nx, run) = R,
           NEW st \in [Threads -> {RUNNABLE, WAITING, WAITING_FOR}],
           NEW wt \in [Threads -> 0 .. (Word - 2)],
           NEW sv,
           NEW ow \in [Threads -> Nat],
           Schedule(nx, st, wt, run, sv, ow),
           NotEarly(R, st, wt, ow)
    PROVE  NotEarly(R, status', waiting', owed')
<1>1. CASE ScheduleRunnable(nx, st, wt, run, sv, ow)
  BY <1>1 DEF ScheduleRunnable
<1>2. CASE ScheduleBlocked(nx, st, wt, run, sv, ow)
  BY <1>2 DEF ScheduleBlocked
<1>3. CASE ScheduleSleep(nx, st, wt, run, sv, ow)
  <2>1. PICK t \in R :
            /\ \A v \in R : st[v] = WAITING => wt[t] <= wt[v]
            /\ status' = WakeStatus(R, st, wt, wt[t])
            /\ waiting' = WakeWaiting(R, st, wt, wt[t])
            /\ owed' = Elapse(ow, Slept(wt[t]))
    BY <1>3 DEF ScheduleSleep, IsLast
  <2>2. PICK w \in Nat : w = wt[t]
    OBVIOUS
  <2>3. PICK slept \in Nat : slept = Slept(w)
    BY SleptTime
  <2>4. w * Timeslice < Word => slept = w \/ (slept = Longest /\ slept <= w)
    BY <2>3, SleptTime
  <2>5. ASSUME NEW u \in R
        PROVE  /\ status'[u] = WAITING => /\ owed'[u] <= waiting'[u]
                                          /\ waiting'[u] * Timeslice >= Word => owed'[u] = 0
               /\ status'[u] # WAITING => owed'[u] = 0
               /\ owed'[u] <= Longest
    <3>1. wt[u] \in Nat /\ ow[u] \in Nat /\ u \in Threads
      OBVIOUS
    <3>2. owed'[u] = IF ow[u] > slept THEN ow[u] - slept ELSE 0
      BY <2>1, <2>2, <2>3, <3>1 DEF Elapse
    <3>3. ow[u] <= Longest
      BY DEF NotEarly
    <3>4. owed'[u] \in Nat /\ owed'[u] <= ow[u] /\ owed'[u] <= Longest
      BY <3>1, <3>2, <3>3, LongestNat
    <3>5. CASE st[u] # WAITING
      <4>1. status'[u] # WAITING
        BY <2>1, <3>1, <3>5 DEF WakeStatus
      <4>2. ow[u] = 0
        BY <3>5 DEF NotEarly
      <4>3. QED
        BY <3>4, <4>1, <4>2
    <3>6. CASE st[u] = WAITING
      <4>1. /\ ow[u] <= wt[u] /\ w <= wt[u]
            /\ wt[u] * Timeslice >= Word => ow[u] = 0
        BY <2>1, <2>2, <3>6 DEF NotEarly
      <4>2. /\ waiting'[u] = IF wt[u] <= w THEN 0 ELSE wt[u] - w
            /\ status'[u] = IF wt[u] <= w THEN RUNNABLE ELSE WAITING
        BY <2>1, <2>2, <3>1, <3>6 DEF WakeStatus, WakeWaiting
      <4>3. CASE w * Timeslice < Word
        <5>1. CASE slept = w
          <6>1. CASE wt[u] <= w
            BY <3>1, <3>2, <3>4, <4>1, <4>2, <5>1, <6>1 DEF RUNNABLE, WAITING
          <6>2. CASE ~ (wt[u] <= w)
            <7>1. owed'[u] <= waiting'[u]
              BY <3>1, <3>2, <4>1, <4>2, <5>1, <6>2
            <7>2. ASSUME waiting'[u] * Timeslice >= Word PROVE owed'[u] = 0
              <8>1. wt[u] * Timeslice >= Word
                BY <3>1, <4>2, <6>2, <7>2 DEF Timeslice
              <8>2. QED
                BY <3>1, <3>4, <4>1, <8>1
            <7>3. QED
              BY <3>4, <4>2, <6>2, <7>1, <7>2
          <6>3. QED
            BY <6>1, <6>2
        <5>2. CASE slept = Longest
          <6>1. owed'[u] = 0
            BY <3>1, <3>2, <3>3, <5>2
          <6>2. waiting'[u] \in Nat
            BY <3>1, <4>2
          <6>3. QED
            BY <3>4, <6>1, <6>2
        <5>3. QED
          BY <2>4, <4>3, <5>1, <5>2
      <4>4. CASE ~ (w * Timeslice < Word)
        <5>1. wt[u] * Timeslice >= Word
          BY <3>1, <4>1, <4>4 DEF Timeslice
        <5>2. owed'[u] = 0
          BY <3>1, <3>4, <4>1, <5>1
        <5>3. waiting'[u] \in Nat
          BY <3>1, <4>2
        <5>4. QED
          BY <3>4, <5>2, <5>3
      <4>5. QED
        BY <4>3, <4>4
    <3>7. QED
      BY <3>5, <3>6
  <2>6. QED
    BY <2>5 DEF NotEarly
<1>4. QED
  BY <1>1, <1>2, <1>3 DEF Schedule

LEMMA SleepSame ==
    ASSUME SleepInv, Ring' = Ring, UNCHANGED <<fields, owed>>
    PROVE  SleepInv'
BY DEF SleepInv, NotEarly, fields

\* A step that marks the running thread and lets the scheduler decide.
LEMMA SleepSchedule ==
    ASSUME TypeOK, RingInv, SleepInv, running # NULL,
           NEW st \in [Threads -> {RUNNABLE, WAITING, WAITING_FOR}],
           NEW wt \in [Threads -> 0 .. (Word - 2)],
           NEW ow \in [Threads -> Nat],
           Schedule(next, st, wt, running, saved \cup {running}, ow),
           UNCHANGED <<next, main, alloc>>,
           NotEarly(Ring, st, wt, ow)
    PROVE  SleepInv'
<1>1. Ring' = Ring
  BY ScheduleKeeps
<1>2. Ring \in SUBSET Threads
  BY RingInvOpen
<1> DEFINE R == Ring
           sv == saved \cup {running}
<1>3. NotEarly(R, status', waiting', owed')
  <2>1. /\ R \in SUBSET Threads /\ RingOf(next, running) = R
        /\ Schedule(next, st, wt, running, sv, ow) /\ NotEarly(R, st, wt, ow)
    BY <1>2 DEF Ring
  <2> HIDE DEF R, sv
  <2>2. QED
    BY <2>1, ScheduleNotEarly
<1>4. QED
  BY <1>1, <1>3 DEF SleepInv, NotEarly

\* "release the blocks" does not touch a sleeping thread.
LEMMA ReleaseNotEarly ==
    ASSUME TypeOK, SleepInv, NEW R \in SUBSET Threads, NEW Q \in SUBSET Ring,
           Ring \subseteq Threads, NEW t
    PROVE  NotEarly(Q, ReleasedStatus(R, t), waiting, owed)
<1> SUFFICES ASSUME NEW u \in Q
             PROVE  /\ ReleasedStatus(R, t)[u] = WAITING =>
                           /\ owed[u] <= waiting[u]
                           /\ waiting[u] * Timeslice >= Word => owed[u] = 0
                    /\ ReleasedStatus(R, t)[u] # WAITING => owed[u] = 0
                    /\ owed[u] <= Longest
  BY DEF NotEarly
<1>1. u \in Ring /\ u \in Threads
  OBVIOUS
<1>2. ReleasedStatus(R, t)[u] = WAITING <=> status[u] = WAITING
  BY <1>1 DEF ReleasedStatus, Released, RUNNABLE, WAITING, WAITING_FOR
<1>3. QED
  BY <1>1, <1>2 DEF SleepInv, NotEarly

LEMMA SleepDestroySelf ==
    ASSUME TypeOK, RingInv, SleepInv, running # NULL, DestroySelf
    PROVE  SleepInv'
<1> DEFINE nx == [next EXCEPT ![Pred(running)] = next[running]]
           st == ReleasedStatus(Ring \ {running}, running)
           run == next[running]
           Q == Ring \ {running}
<1>1. /\ Ring \in SUBSET Threads /\ Circle(next, Ring) /\ running \in Ring
      /\ OneMain(main, Ring)
  BY RingInvOpen
<1>2. Ring' = Q
  BY RingDestroySelf
<1>3. Circle(nx, Q) /\ run \in Q
  <2>1. next \in [Threads -> Threads \cup {NULL}]
    BY DEF TypeOK
  <2>2. Pred(running) \in Ring /\ next[Pred(running)] = running
    BY <1>1, <2>1, CirclePred DEF Pred
  <2>3. Ring # {running}
    BY <1>1 DEF DestroySelf, OneMain
  <2>4. QED
    BY <1>1, <2>1, <2>2, <2>3, CircleRemove
<1>4. RingOf(nx, run) = Q
  <2>1. Q \in SUBSET Threads
    BY <1>1
  <2> HIDE DEF nx, run, Q
  <2>2. QED
    BY <1>3, <2>1, CircleRing
<1>5. NotEarly(Q, st, waiting, owed)
  BY <1>1, ReleaseNotEarly
<1>6. Schedule(nx, st, waiting, run, saved, owed)
  BY DEF DestroySelf
<1>7. /\ st \in [Threads -> {RUNNABLE, WAITING, WAITING_FOR}]
      /\ waiting \in [Threads -> 0 .. (Word - 2)]
      /\ owed \in [Threads -> Nat]
      /\ Q \in SUBSET Threads
  BY <1>1, TypeReleased DEF TypeOK
<1>8. NotEarly(Q, status', waiting', owed')
  <2> HIDE DEF nx, st, run, Q
  <2>1. QED
    BY <1>4, <1>5, <1>6, <1>7, ScheduleNotEarly
<1>9. QED
  BY <1>2, <1>8 DEF SleepInv, NotEarly

\* A struct fresh from create_svc_thread is runnable and owes nothing.
LEMMA SleepCreate ==
    ASSUME TypeOK, SleepInv, NEW t \in Threads, NEW nx, NEW m,
           CreateSvcThread(t, nx, m), Ring' \subseteq Ring \cup {t},
           Ring' \subseteq Threads
    PROVE  SleepInv'
<1>1. ASSUME NEW u \in Ring'
      PROVE  /\ status'[u] = WAITING => /\ owed'[u] <= waiting'[u]
                                        /\ waiting'[u] * Timeslice >= Word => owed'[u] = 0
             /\ status'[u] # WAITING => owed'[u] = 0
             /\ owed'[u] <= Longest
  <2>1. CASE u = t
    <3>1. status'[u] = RUNNABLE /\ owed'[u] = 0
      BY <2>1 DEF CreateSvcThread, TypeOK
    <3>2. QED
      BY <3>1, LongestNat DEF RUNNABLE, WAITING
  <2>2. CASE u # t
    <3>1. u \in Ring /\ u \in Threads
      BY <2>2
    <3>2. status'[u] = status[u] /\ owed'[u] = owed[u] /\ waiting'[u] = waiting[u]
      BY <2>2, <3>1 DEF CreateSvcThread, TypeOK
    <3>3. QED
      BY <3>1, <3>2 DEF SleepInv, NotEarly
  <2>3. QED
    BY <2>1, <2>2
<1>2. QED
  BY <1>1 DEF SleepInv, NotEarly

LEMMA SleepHandler ==
    ASSUME TypeOK, RingInv, SleepInv, Handler
    PROVE  SleepInv'
<1>1. CASE EnableOff
  <2>1. PICK t \in Threads : /\ CreateSvcThread(t, [next EXCEPT ![t] = t], TRUE)
                             /\ running' = t
    BY <1>1 DEF EnableOff
  <2>2. Ring' = {t}
    BY <1>1, <2>1, RingEnable
  <2>3. QED
    BY <2>1, <2>2, SleepCreate
<1>2. CASE CreateAdds
  <2>1. PICK t \in Threads :
            CreateSvcThread(t, [next EXCEPT ![t] = next[running], ![running] = t], FALSE)
    BY <1>2 DEF CreateAdds
  <2>2. PICK s \in Threads \ alloc : Ring' = Ring \cup {s}
    BY <1>2, RingCreate
  <2>3. Ring' \subseteq alloc' /\ alloc' = alloc \cup {t}
    BY <1>2, <2>1, RingCreate DEF RingInv, RingIntact, CreateSvcThread
  <2>4. s = t
    BY <2>2, <2>3
  <2>5. Ring \subseteq Threads
    BY <1>2, RingInvOpen DEF CreateAdds
  <2>6. QED
    BY <2>1, <2>2, <2>4, <2>5, SleepCreate
<1>3. CASE CreateUnlinked
  <2>1. PICK t \in Threads : CreateSvcThread(t, [next EXCEPT ![t] = NULL], FALSE)
    BY <1>3 DEF CreateUnlinked
  <2>2. Ring' = {}
    BY <1>3 DEF CreateUnlinked, Ring, RingOf
  <2>3. QED
    BY <2>1, <2>2, SleepCreate
<1>4. CASE DisableMain
  <2>1. Ring' = {}
    BY <1>4 DEF DisableMain, Ring, RingOf
  <2>2. QED
    BY <2>1 DEF SleepInv, NotEarly
<1>5. CASE \/ EnableOn \/ DisableRefused \/ WaitReturns \/ WaitForReturns
           \/ DeleteReturns \/ DelegateReturns
  BY <1>5, RingSame, SleepSame
     DEF EnableOn, DisableRefused, WaitReturns, WaitForReturns, DeleteReturns,
         DelegateReturns
<1>6. CASE WaitSleep
  <2> DEFINE ticks == call.arg \div Timeslice
             st == [status EXCEPT ![running] = WAITING]
             wt == [waiting EXCEPT ![running] = ticks + 1]
             ow == [owed EXCEPT ![running] = Owed(call.arg)]
  <2>1. /\ st \in [Threads -> {RUNNABLE, WAITING, WAITING_FOR}]
        /\ wt \in [Threads -> 0 .. (Word - 2)]
        /\ ow \in [Threads -> Nat]
    BY <1>6, TypeWaitSleep
  <2>2. /\ Schedule(next, st, wt, running, saved \cup {running}, ow)
        /\ running # NULL
        /\ UNCHANGED <<next, main, alloc>>
    BY <1>6 DEF WaitSleep
  <2>3. call.arg \in Nat
    <3>1. call \in Calls /\ call.op = "wait_millis"
      BY <1>6 DEF TypeOK, WaitSleep, InHandler
    <3>2. call.arg \in 0 .. (Word - 1)
      BY <3>1, CallArgs
    <3>3. QED
      BY <3>2
  <2>4. PICK o \in Nat : o = Owed(call.arg)
    BY <2>3, OwedTime
  <2>5. /\ o <= Longest /\ o <= ticks + 1
        /\ (ticks + 1) * Timeslice >= Word => o = 0
    BY <2>3, <2>4, OwedTime
  <2>6. NotEarly(Ring, st, wt, ow)
    <3> HIDE DEF ticks
    <3>1. Ring \subseteq Threads /\ running \in Threads
      BY <2>2, RingInvOpen DEF TypeOK
    <3>2. ASSUME NEW u \in Ring
          PROVE  /\ st[u] = WAITING => /\ ow[u] <= wt[u]
                                       /\ wt[u] * Timeslice >= Word => ow[u] = 0
                 /\ st[u] # WAITING => ow[u] = 0
                 /\ ow[u] <= Longest
      <4>1. CASE u = running
        <5>1. st[u] = WAITING /\ wt[u] = ticks + 1 /\ ow[u] = o
          BY <2>4, <3>1, <4>1 DEF TypeOK
        <5>2. QED
          BY <2>5, <5>1
      <4>2. CASE u # running
        <5>1. st[u] = status[u] /\ wt[u] = waiting[u] /\ ow[u] = owed[u]
          BY <3>1, <4>2 DEF TypeOK
        <5>2. QED
          BY <5>1 DEF SleepInv, NotEarly
      <4>3. QED
        BY <4>1, <4>2
    <3>3. QED
      BY <3>2 DEF NotEarly
  <2> HIDE DEF st, wt, ow
  <2>7. QED
    BY <2>1, <2>2, <2>6, SleepSchedule
<1>7. CASE WaitForBlocks
  <2> DEFINE st == [status EXCEPT ![running] = WAITING_FOR]
  <2>1. /\ st \in [Threads -> {RUNNABLE, WAITING, WAITING_FOR}]
        /\ waiting \in [Threads -> 0 .. (Word - 2)]
        /\ owed \in [Threads -> Nat]
    BY DEF TypeOK
  <2>2. /\ Schedule(next, st, waiting, running, saved \cup {running}, owed)
        /\ running # NULL
        /\ UNCHANGED <<next, main, alloc>>
    BY <1>7 DEF WaitForBlocks
  <2>3. Ring \subseteq Threads /\ running \in Ring /\ ReadyIn(main, Ring, status, running)
    BY <2>2, RingInvOpen
  <2>4. owed[running] = 0
    BY <2>3 DEF ReadyIn, SleepInv, NotEarly, RUNNABLE, WAITING, WAITING_FOR
  <2>5. NotEarly(Ring, st, waiting, owed)
    BY <2>3, <2>4 DEF NotEarly, SleepInv, TypeOK, WAITING, WAITING_FOR
  <2> HIDE DEF st
  <2>6. QED
    BY <2>1, <2>2, <2>5, SleepSchedule
<1>8. CASE DeleteSelf
  BY <1>8, SleepDestroySelf DEF DeleteSelf
<1>9. CASE DeleteOther
  <2> DEFINE t == call.arg
  <2>1. Ring' = Ring \ {t}
    BY <1>9, RingDelete
  <2>2. Ring \subseteq Threads
    BY <1>9, RingInvOpen DEF DeleteOther
  <2>3. /\ status' = ReleasedStatus(Ring \ {t}, t) /\ waiting' = waiting
        /\ owed' = [owed EXCEPT ![t] = 0]
    BY <1>9 DEF DeleteOther
  <2> HIDE DEF t
  <2>4. NotEarly(Ring \ {t}, ReleasedStatus(Ring \ {t}, t), waiting, owed)
    BY <2>2, ReleaseNotEarly
  <2>5. \A u \in Ring \ {t} : owed'[u] = owed[u]
    BY <2>2, <2>3 DEF TypeOK
  <2>6. QED
    BY <2>1, <2>3, <2>4, <2>5 DEF NotEarly, SleepInv
<1>10. QED
  BY <1>1, <1>2, <1>3, <1>4, <1>5, <1>6, <1>7, <1>8, <1>9 DEF Handler

LEMMA SleepStep ==
    ASSUME TypeOK, RingInv, SleepInv, [Next]_vars
    PROVE  SleepInv'
<1>1. CASE Enter
  BY <1>1, SleepSame, RingSame
     DEF Enter, EnterEnable, EnterDisable, EnterWait, EnterWaitFor, EnterCreate,
         EnterDelete, EnterDelegate, SwiEnter
<1>2. CASE Handler
  BY <1>2, SleepHandler
<1>3. CASE ThreadExit
  BY <1>3, SleepDestroySelf DEF ThreadExit
<1>4. CASE FiqTick
  <2>1. /\ status \in [Threads -> {RUNNABLE, WAITING, WAITING_FOR}]
        /\ waiting \in [Threads -> 0 .. (Word - 2)]
        /\ owed \in [Threads -> Nat]
    BY DEF TypeOK
  <2>2. /\ Schedule(next, status, waiting, running, saved \cup {running}, owed)
        /\ running # NULL
        /\ UNCHANGED <<next, main, alloc>>
    BY <1>4 DEF FiqTick, FiqMaySwitch
  <2>3. NotEarly(Ring, status, waiting, owed)
    BY DEF SleepInv
  <2>4. QED
    BY <2>1, <2>2, <2>3, SleepSchedule
<1>5. CASE TaskAway \/ TaskBack
  BY <1>5, RingSame, SleepSame DEF TaskAway, TaskBack
<1>6. CASE UNCHANGED vars
  BY <1>6, RingSame, SleepSame DEF vars, fields
<1>7. QED
  BY <1>1, <1>2, <1>3, <1>4, <1>5, <1>6 DEF Next

\* osext_thread_wait_milli: no sleeper becomes runnable before the time it asked for, or
\* that of the longest msleep when it asked for more, has passed, for any number of
\* threads, any lengths of sleep that do not themselves wrap, and whatever the other
\* threads do meanwhile, those whose sleeps are cut short or wrap included.
THEOREM NoEarlyWakeCorrect == Spec => []NoEarlyWake
<1>1. Init => SleepInv
  BY DEF Init, SleepInv, NotEarly, Ring, RingOf
<1>2. TypeOK /\ RingInv /\ SleepInv /\ [Next]_vars => SleepInv'
  BY SleepStep
<1>3. SleepInv => NoEarlyWake
  BY DEF SleepInv, NotEarly, NoEarlyWake
<1>4. RingIntact /\ MainInRing /\ ContextSaved /\ RunningIsReady /\ NoPanic => RingInv
  BY DEF RingInv
<1>5. QED
  BY <1>1, <1>2, <1>3, <1>4, TypeCorrect, RingCorrect, PTL DEF Spec

(***************************************************************************)
(* Joining.  The scheduler itself never suspends or releases a thread that *)
(* waits for another one; ending a thread does.                            *)
(***************************************************************************)
LEMMA ScheduleJoins ==
    ASSUME NEW nx, NEW st, NEW wt, NEW run, NEW sv, NEW ow,
           Schedule(nx, st, wt, run, sv, ow), NEW u \in Threads
    PROVE  status'[u] = WAITING_FOR <=> st[u] = WAITING_FOR
<1>1. CASE ScheduleRunnable(nx, st, wt, run, sv, ow)
  BY <1>1 DEF ScheduleRunnable
<1>2. CASE ScheduleBlocked(nx, st, wt, run, sv, ow)
  BY <1>2 DEF ScheduleBlocked
<1>3. CASE ScheduleSleep(nx, st, wt, run, sv, ow)
  <2>1. PICK t : status' = WakeStatus(RingOf(nx, run), st, wt, wt[t])
    BY <1>3 DEF ScheduleSleep
  <2>2. QED
    BY <2>1 DEF WakeStatus, RUNNABLE, WAITING, WAITING_FOR
<1>4. QED
  BY <1>1, <1>2, <1>3 DEF Schedule

\* Unlink and the release of the waiters, on the statuses the scheduler may still wake.
LEMMA ReleaseJoins ==
    ASSUME TypeOK, NEW R, NEW t, Unlink(t, R), NEW u \in Threads,
           status'[u] = WAITING_FOR <=> ReleasedStatus(R, t)[u] = WAITING_FOR
    PROVE  /\ u \in R => ~ (status'[u] = WAITING_FOR /\ status_data'[u] = t)
           /\ status[u] = WAITING_FOR /\ status'[u] # WAITING_FOR => status_data[u] = t
<1>1. status_data'[u] = IF u \in Released(R, t) THEN NULL ELSE status_data[u]
  BY DEF Unlink
<1>2. ReleasedStatus(R, t)[u] = IF u \in Released(R, t) THEN RUNNABLE ELSE status[u]
  BY DEF ReleasedStatus
<1>3. QED
  BY <1>1, <1>2 DEF Released, RUNNABLE, WAITING_FOR

\* What a step does to the threads that wait for another one.
JoinsKept == \A u \in (Ring \cap Ring') \ {running} :
                status[u] = WAITING_FOR => status'[u] = WAITING_FOR

JoinsStep ==
    \/ Ring' = {} /\ running' = NULL
    \/ Ring \subseteq Ring' /\ JoinsKept
    \/ \E t \in Ring : /\ Ring' = Ring \ {t}
                       /\ Unlink(t, Ring \ {t})
                       /\ \A u \in Threads : status'[u] = WAITING_FOR
                            <=> ReleasedStatus(Ring \ {t}, t)[u] = WAITING_FOR

LEMMA JoinsDestroySelf ==
    ASSUME TypeOK, RingInv, running # NULL, DestroySelf
    PROVE  JoinsStep
<1>1. running \in Ring
  BY RingInvOpen
<1>2. Ring' = Ring \ {running}
  BY RingDestroySelf
<1>3. Unlink(running, Ring \ {running})
  BY DEF DestroySelf
<1> DEFINE nx == [next EXCEPT ![Pred(running)] = next[running]]
           st == ReleasedStatus(Ring \ {running}, running)
           run == next[running]
<1>4. Schedule(nx, st, waiting, run, saved, owed)
  BY DEF DestroySelf
<1>5. \A u \in Threads : status'[u] = WAITING_FOR <=> st[u] = WAITING_FOR
  <2> HIDE DEF nx, st, run
  <2>1. QED
    BY <1>4, ScheduleJoins
<1>6. QED
  BY <1>1, <1>2, <1>3, <1>5 DEF JoinsStep

LEMMA JoinsSchedule ==
    ASSUME TypeOK, RingInv, running # NULL,
           NEW st \in [Threads -> {RUNNABLE, WAITING, WAITING_FOR}],
           NEW wt \in [Threads -> 0 .. (Word - 2)],
           NEW ow \in [Threads -> Nat],
           Schedule(next, st, wt, running, saved \cup {running}, ow),
           UNCHANGED <<next, main, alloc>>,
           \A u \in Threads \ {running} : st[u] = status[u]
    PROVE  JoinsStep
<1>1. Ring' = Ring
  BY ScheduleKeeps
<1>2. Ring \subseteq Threads
  BY RingInvOpen
<1> DEFINE sv == saved \cup {running}
<1>3. Schedule(next, st, wt, running, sv, ow)
  OBVIOUS
<1>4. \A u \in Threads : status'[u] = WAITING_FOR <=> st[u] = WAITING_FOR
  <2> HIDE DEF sv
  <2>1. QED
    BY <1>3, ScheduleJoins
<1>5. QED
  BY <1>1, <1>2, <1>4 DEF JoinsStep, JoinsKept

LEMMA JoinsHandler ==
    ASSUME TypeOK, RingInv, Handler
    PROVE  JoinsStep
<1>1. CASE EnableOff \/ CreateUnlinked
  <2>1. Ring = {}
    BY <1>1 DEF EnableOff, CreateUnlinked, Ring, RingOf
  <2>2. QED
    BY <2>1 DEF JoinsStep, JoinsKept
<1>2. CASE CreateAdds
  <2>1. PICK t \in Threads :
            CreateSvcThread(t, [next EXCEPT ![t] = next[running], ![running] = t], FALSE)
    BY <1>2 DEF CreateAdds
  <2>2. Ring \subseteq Ring'
    BY <1>2, RingCreate
  <2>3. Ring \subseteq alloc /\ Ring \subseteq Threads
    BY <1>2, RingInvOpen DEF CreateAdds
  <2>4. \A u \in Ring : status'[u] = status[u]
    BY <2>1, <2>3 DEF CreateSvcThread, NewThread, TypeOK
  <2>5. QED
    BY <2>2, <2>4 DEF JoinsStep, JoinsKept
<1>3. CASE DisableMain
  BY <1>3 DEF DisableMain, Ring, RingOf, JoinsStep
<1>4. CASE \/ EnableOn \/ DisableRefused \/ WaitReturns \/ WaitForReturns
           \/ DeleteReturns \/ DelegateReturns
  <2>1. Ring' = Ring
    BY <1>4, RingSame DEF EnableOn, DisableRefused, WaitReturns, WaitForReturns,
                          DeleteReturns, DelegateReturns
  <2>2. status' = status
    BY <1>4 DEF EnableOn, DisableRefused, WaitReturns, WaitForReturns, DeleteReturns,
                DelegateReturns, fields
  <2>3. QED
    BY <2>1, <2>2 DEF JoinsStep, JoinsKept
<1>5. CASE WaitSleep
  <2> DEFINE st == [status EXCEPT ![running] = WAITING]
             wt == [waiting EXCEPT ![running] = call.arg \div Timeslice + 1]
             ow == [owed EXCEPT ![running] = Owed(call.arg)]
  <2>1. /\ st \in [Threads -> {RUNNABLE, WAITING, WAITING_FOR}]
        /\ wt \in [Threads -> 0 .. (Word - 2)]
        /\ ow \in [Threads -> Nat]
    BY <1>5, TypeWaitSleep
  <2>2. /\ Schedule(next, st, wt, running, saved \cup {running}, ow)
        /\ running # NULL
        /\ UNCHANGED <<next, main, alloc>>
    BY <1>5 DEF WaitSleep
  <2>3. \A u \in Threads \ {running} : st[u] = status[u]
    BY DEF TypeOK
  <2> HIDE DEF st, wt, ow
  <2>4. QED
    BY <2>1, <2>2, <2>3, JoinsSchedule
<1>6. CASE WaitForBlocks
  <2> DEFINE st == [status EXCEPT ![running] = WAITING_FOR]
  <2>1. /\ st \in [Threads -> {RUNNABLE, WAITING, WAITING_FOR}]
        /\ waiting \in [Threads -> 0 .. (Word - 2)]
        /\ owed \in [Threads -> Nat]
    BY DEF TypeOK
  <2>2. /\ Schedule(next, st, waiting, running, saved \cup {running}, owed)
        /\ running # NULL
        /\ UNCHANGED <<next, main, alloc>>
    BY <1>6 DEF WaitForBlocks
  <2>3. \A u \in Threads \ {running} : st[u] = status[u]
    BY DEF TypeOK
  <2> HIDE DEF st
  <2>4. QED
    BY <2>1, <2>2, <2>3, JoinsSchedule
<1>7. CASE DeleteSelf
  BY <1>7, JoinsDestroySelf DEF DeleteSelf
<1>8. CASE DeleteOther
  <2>1. Ring' = Ring \ {call.arg}
    BY <1>8, RingDelete
  <2>2. /\ call.arg \in Ring /\ Unlink(call.arg, Ring \ {call.arg})
        /\ status' = ReleasedStatus(Ring \ {call.arg}, call.arg)
    BY <1>8 DEF DeleteOther
  <2>3. QED
    BY <2>1, <2>2 DEF JoinsStep
<1>9. QED
  BY <1>1, <1>2, <1>3, <1>4, <1>5, <1>6, <1>7, <1>8 DEF Handler

LEMMA JoinsNext ==
    ASSUME TypeOK, RingInv, [Next]_vars
    PROVE  JoinsStep
<1>1. CASE Enter \/ TaskAway \/ TaskBack \/ UNCHANGED vars
  <2>1. /\ UNCHANGED <<fields, alloc, running, panic, saved>>
        /\ status' = status
    BY <1>1 DEF Enter, EnterEnable, EnterDisable, EnterWait, EnterWaitFor, EnterCreate,
                EnterDelete, EnterDelegate, SwiEnter, TaskAway, TaskBack, vars, fields
  <2>2. Ring' = Ring
    BY <2>1, RingSame
  <2>3. QED
    BY <2>1, <2>2 DEF JoinsStep, JoinsKept
<1>2. CASE Handler
  BY <1>2, JoinsHandler
<1>3. CASE ThreadExit
  BY <1>3, JoinsDestroySelf DEF ThreadExit
<1>4. CASE FiqTick
  <2>1. /\ status \in [Threads -> {RUNNABLE, WAITING, WAITING_FOR}]
        /\ waiting \in [Threads -> 0 .. (Word - 2)]
        /\ owed \in [Threads -> Nat]
    BY DEF TypeOK
  <2>2. /\ Schedule(next, status, waiting, running, saved \cup {running}, owed)
        /\ running # NULL
        /\ UNCHANGED <<next, main, alloc>>
    BY <1>4 DEF FiqTick, FiqMaySwitch
  <2>3. QED
    BY <2>1, <2>2, JoinsSchedule
<1>5. QED
  BY <1>1, <1>2, <1>3, <1>4 DEF Next

LEMMA RingThreads == Ring \subseteq Threads
BY DEF Ring, RingOf

\* osext_destroy_thread: a thread that leaves the ring leaves nobody waiting for it,
\* and nothing else than the end of the thread waited for makes a joining thread
\* runnable, for any number of threads.
THEOREM JoinCorrect == Spec => EndReleasesWaiters /\ ReleasedOnlyByEnd
<1>1. ASSUME TypeOK, RingInv, [Next]_vars
      PROVE  /\ running' # NULL =>
                  \A t \in Ring \ Ring' : \A u \in Ring' :
                     ~ (status'[u] = WAITING_FOR /\ status_data'[u] = t)
             /\ \A t \in (Ring \cap Ring') \ {running} :
                  status[t] = WAITING_FOR /\ status'[t] = RUNNABLE
                      => status_data[t] \in Ring \ Ring'
  <2>1. JoinsStep
    BY <1>1, JoinsNext
  <2>2. CASE Ring' = {} /\ running' = NULL
    BY <2>2
  <2>3. CASE Ring \subseteq Ring' /\ JoinsKept
    BY <2>3 DEF JoinsKept, RUNNABLE, WAITING_FOR
  <2>4. ASSUME NEW s \in Ring, Ring' = Ring \ {s}, Unlink(s, Ring \ {s}),
               \A u \in Threads : status'[u] = WAITING_FOR
                   <=> ReleasedStatus(Ring \ {s}, s)[u] = WAITING_FOR
        PROVE  /\ \A u \in Ring' : ~ (status'[u] = WAITING_FOR /\ status_data'[u] = s)
               /\ \A u \in Ring' : status[u] = WAITING_FOR /\ status'[u] # WAITING_FOR
                                       => status_data[u] = s
    <3> DEFINE R == Ring \ {s}
    <3>1. /\ Unlink(s, R) /\ R \subseteq Threads
          /\ \A u \in Threads : status'[u] = WAITING_FOR
                   <=> ReleasedStatus(R, s)[u] = WAITING_FOR
      BY <2>4, RingThreads
    <3>2. Ring' = R
      BY <2>4
    <3> HIDE DEF R
    <3>3. \A u \in R : /\ ~ (status'[u] = WAITING_FOR /\ status_data'[u] = s)
                       /\ status[u] = WAITING_FOR /\ status'[u] # WAITING_FOR
                              => status_data[u] = s
      BY <1>1, <3>1, ReleaseJoins
    <3>4. QED
      BY <3>2, <3>3
  <2>5. ASSUME NEW s \in Ring, Ring' = Ring \ {s}, Unlink(s, Ring \ {s}),
               \A u \in Threads : status'[u] = WAITING_FOR
                   <=> ReleasedStatus(Ring \ {s}, s)[u] = WAITING_FOR
        PROVE  /\ \A t \in Ring \ Ring' : \A u \in Ring' :
                     ~ (status'[u] = WAITING_FOR /\ status_data'[u] = t)
               /\ \A t \in (Ring \cap Ring') \ {running} :
                     status[t] = WAITING_FOR /\ status'[t] = RUNNABLE
                         => status_data[t] \in Ring \ Ring'
    <3>1. Ring \ Ring' = {s}
      BY <2>5
    <3>2. /\ \A u \in Ring' : ~ (status'[u] = WAITING_FOR /\ status_data'[u] = s)
          /\ \A u \in Ring' : status[u] = WAITING_FOR /\ status'[u] # WAITING_FOR
                                   => status_data[u] = s
      BY <2>4, <2>5
    <3>3. QED
      BY <3>1, <3>2 DEF RUNNABLE, WAITING_FOR
  <2>6. QED
    BY <2>1, <2>2, <2>3, <2>5 DEF JoinsStep
<1>2. TypeOK /\ RingInv /\ [Next]_vars =>
         /\ [running' # NULL =>
                \A t \in Ring \ Ring' : \A u \in Ring' :
                   ~ (status'[u] = WAITING_FOR /\ status_data'[u] = t)]_vars
         /\ [\A t \in (Ring \cap Ring') \ {running} :
                status[t] = WAITING_FOR /\ status'[t] = RUNNABLE
                    => status_data[t] \in Ring \ Ring']_vars
  BY <1>1
<1>3. RingIntact /\ MainInRing /\ ContextSaved /\ RunningIsReady /\ NoPanic => RingInv
  BY DEF RingInv
<1>4. QED
  BY <1>2, <1>3, TypeCorrect, RingCorrect, PTL
     DEF Spec, EndReleasesWaiters, ReleasedOnlyByEnd

\* The scheduler and every system call: a thread that joins another one becomes
\* runnable only in the step that ends the thread it waits for.
THEOREM ReleasedOnlyByEndCorrect == Spec => ReleasedOnlyByEnd
BY JoinCorrect
=============================================================================
