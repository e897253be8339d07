--------------------------- MODULE KernelThreads ---------------------------
(***************************************************************************)
(* The kernel-mode threads a program gets from libosext: the ring of       *)
(* struct svc_thread in kernel/scheduling/scheduler.c, the system calls    *)
(* that change it (kernel/syscalls/svc/thread-syscalls.c) and the timeslice*)
(* FIQ that may preempt the running thread (kernel/exceptions/fiq.c).      *)
(*                                                                         *)
(* A thread is the address of its struct.  The fields of the structs are   *)
(* the functions next, status, status_data, waiting and main; they keep    *)
(* their value when the struct is freed, as the memory of the slab does.   *)
(* running is running_kernel_thread, the head of the circular list.        *)
(*                                                                         *)
(* A system call takes two steps, the entry of swi_wrapper, which counts   *)
(* __syscall_in_progress up, and its handler with the return; an FIQ may   *)
(* fall between them.  A handler itself runs with FIQs disabled wherever   *)
(* it changes the ring, so it is one step.                                 *)
(***************************************************************************)
EXTENDS Integers, FiniteSets

CONSTANTS Threads,   \* the addresses request_svc_thread can return
          NULL,
          Millis,    \* arguments of wait_millis
          Word,      \* 2^32 in the code: the width of uint32_t
          SleepLimit \* the longest msleep in milliseconds, 112911 in the code

ASSUME NullAssumption == NULL \notin Threads
ASSUME WordAssumption == Word \in Nat /\ Word > 3
ASSUME MillisAssumption == Millis \subseteq 0 .. (Word - 1)
ASSUME SleepLimitAssumption == SleepLimit \in Nat

VARIABLES
    next, status, status_data, waiting, main,   \* struct svc_thread
    alloc,     \* structs handed out by the slab and not freed
    handles,   \* thread pointers the program has been given
    running,   \* running_kernel_thread
    gui,       \* TCC_Current_Task_Pointer() = nuc_gui_task
    count,     \* __syscall_in_progress
    call,      \* the system call that has entered swi_wrapper
    panic,     \* a panic() of the scheduler was reached
    \* history of what the hardware and the clock did, read by properties only
    saved,     \* threads whose registers are stored in their struct
    bank,      \* register bank r8-r14 of a thread were last stored from
    owed       \* timeslices of a sleep (see Owed) that have not passed yet

fields == <<next, status, status_data, waiting, main>>
vars == <<next, status, status_data, waiting, main, alloc, handles, running,
          gui, count, call, panic, saved, bank, owed>>

\* timeslice_length, in milliseconds; scheduler_set_timelice_length has no caller
Timeslice == 2

RUNNABLE == 0
WAITING == 1
WAITING_FOR == 2

NoCall == [op |-> "none", arg |-> NULL, caller |-> NULL]

Calls ==
    LET Callers == Threads \cup {NULL}
    IN {NoCall}
       \cup [op : {"enable", "disable", "create", "delegate"}, arg : {NULL},
             caller : Callers]
       \cup [op : {"wait_millis"}, arg : Millis, caller : Callers]
       \cup [op : {"wait_for", "delete"}, arg : Threads \cup {NULL}, caller : Callers]

\* Types of the fields of struct svc_thread and of the scheduler's variables; the sleeping
\* time stays below the 0xffffffff that the search for the shortest one starts from.
TypeOK ==
    /\ next \in [Threads -> Threads \cup {NULL}]
    /\ status \in [Threads -> {RUNNABLE, WAITING, WAITING_FOR}]
    /\ status_data \in [Threads -> Threads \cup {NULL}]
    /\ waiting \in [Threads -> 0 .. (Word - 2)]   \* below 0xffffffff, see ScheduleSleep
    /\ main \in [Threads -> BOOLEAN]
    /\ alloc \subseteq Threads
    /\ handles \subseteq Threads
    /\ running \in Threads \cup {NULL}
    /\ gui \in BOOLEAN
    /\ count \in Int
    /\ call \in Calls
    /\ panic \in BOOLEAN
    /\ saved \subseteq Threads
    /\ bank \in [Threads -> {"svc", "fiq"}]
    /\ owed \in [Threads -> Nat]

-----------------------------------------------------------------------------
\* Walking the circular list.

Closed(nx, S) == \A x \in S : nx[x] \in S

\* The threads a walk over the pointers nx visits when it starts at run.
RingOf(nx, run) ==
    IF run = NULL THEN {}
    ELSE {t \in Threads : \A S \in SUBSET Threads :
                             run \in S /\ Closed(nx, S) => t \in S}

Ring == RingOf(next, running)

\* t is the first thread of P that the walk from run meets: S is the part of
\* the walk that ends in t.
IsFirst(nx, run, P, t) ==
    /\ t \in P
    /\ \E S \in SUBSET RingOf(nx, run) :
          /\ run \in S
          /\ \A x \in S \ {t} : x \notin P /\ nx[x] \in S

\* t is the last thread of P that the walk from run meets before it is back at
\* run: S is the rest of the walk after t.
IsLast(nx, run, P, t) ==
    /\ t \in P
    /\ \E S \in SUBSET (RingOf(nx, run) \ (P \cup {run})) :
          \A x \in S \cup {t} : nx[x] \in S \cup {run}

Alone == running # NULL /\ next[running] = running
-----------------------------------------------------------------------------
\* Switching threads.

\* resume_svc_thread: the registers are loaded from the struct; it does not return.
Resume(t, sv) ==
    /\ running' = t
    /\ saved' = sv \ {t}

\* The real time that passes in msleep(min_wait * timeslice_length), in timeslices:
\* the product is a uint32_t, and msleep turns it into timer counts with a conversion
\* to uint32_t that saturates, so it never waits longer than SleepLimit.
Slept(min_wait) ==
    LET millis == (min_wait * Timeslice) % Word
    IN (IF millis < SleepLimit THEN millis ELSE SleepLimit) \div Timeslice

\* The timeslices of a sleep of millis that NoEarlyWake holds the scheduler to: what
\* was asked for, but not more than one msleep can wait, and nothing when the product
\* of the waiting time set by scheduler_kernel_thread_wait leaves the word.
Owed(millis) ==
    LET ticks == millis \div Timeslice
        limit == SleepLimit \div Timeslice
    IN IF (ticks + 1) * Timeslice >= Word THEN 0
       ELSE IF ticks < limit THEN ticks ELSE limit

\* faulty variant: every sleeper is woken
WakeStatusAll(R, st, wt, min_wait) ==
    [t \in Threads |-> IF t \in R /\ st[t] = WAITING THEN RUNNABLE ELSE st[t]]

\* The subtraction of the waited timeslices from the threads of the ring R.
WakeStatus(R, st, wt, min_wait) ==
    [t \in Threads |-> IF t \in R /\ st[t] = WAITING /\ wt[t] <= min_wait
                       THEN RUNNABLE ELSE st[t]]

\* faulty variants: the status is not looked at; nothing is subtracted
WakeWaitingAny(R, st, wt, min_wait) ==
    [t \in Threads |-> IF t \in R THEN wt[t] - min_wait ELSE wt[t]]

WakeWaitingKept(R, st, wt, min_wait) ==
    [t \in Threads |-> IF t \in R /\ st[t] = WAITING /\ wt[t] <= min_wait
                       THEN 0 ELSE wt[t]]


WakeWaiting(R, st, wt, min_wait) ==
    [t \in Threads |->
        IF t \in R /\ st[t] = WAITING
        THEN IF wt[t] <= min_wait THEN 0 ELSE wt[t] - min_wait
        ELSE wt[t]]

Elapse(ow, slices) ==
    [t \in Threads |-> IF ow[t] > slices THEN ow[t] - slices ELSE 0]

\* schedule_kernel_thread_current_saved on the state its caller has prepared:
\* pointers nx, statuses st, waiting times wt, running thread run, stored
\* contexts sv.  The caller runs in the GUI task, so the early return for
\* another Nucleus task is not taken.
ScheduleRunnable(nx, st, wt, run, sv, ow) ==
    /\ \E t \in RingOf(nx, run) :
          /\ IsFirst(nx, run, {u \in RingOf(nx, run) : st[u] = RUNNABLE}, t)
          /\ Resume(t, sv)
    /\ status' = st /\ waiting' = wt /\ owed' = ow /\ panic' = panic

\* faulty variant: sleeping threads count as blocked
ScheduleBlockedAsleep(nx, st, wt, run, sv, ow) ==
    LET R == RingOf(nx, run)
        Mains == {u \in R : main[u]}
    IN /\ \A u \in R : st[u] # RUNNABLE
       /\ \E t \in R : /\ IsFirst(nx, run, Mains, t) \/ (Mains = {} /\ t = run)
                       /\ Resume(t, sv)
       /\ panic' = (panic \/ Mains = {})
       /\ status' = st /\ waiting' = wt /\ owed' = ow

\* every thread waits for another one: the main thread is resumed as it is, and
\* without a main thread the scheduler panics
ScheduleBlocked(nx, st, wt, run, sv, ow) ==
    LET R == RingOf(nx, run)
        Mains == {u \in R : main[u]}
    IN /\ \A u \in R : st[u] = WAITING_FOR
       /\ \E t \in R : /\ IsFirst(nx, run, Mains, t) \/ (Mains = {} /\ t = run)
                       /\ Resume(t, sv)
       /\ panic' = (panic \/ Mains = {})
       /\ status' = st /\ waiting' = wt /\ owed' = ow

\* nobody is runnable and somebody sleeps: msleep until the first one wakes.
\* The search starts from min_wait = 0xffffffff and panics when it keeps no thread.
ScheduleSleep(nx, st, wt, run, sv, ow) ==
    LET R == RingOf(nx, run)
        Sleepers == {u \in R : st[u] = WAITING}
        Shortest == {u \in Sleepers : \A v \in Sleepers : wt[u] <= wt[v]}
    IN /\ \A u \in R : st[u] # RUNNABLE
       /\ Sleepers # {}
       /\ \E t \in R :
             /\ IsLast(nx, run, Shortest, t)
             /\ Resume(t, sv)
             /\ status' = WakeStatus(R, st, wt, wt[t])
             /\ waiting' = WakeWaiting(R, st, wt, wt[t])
             /\ owed' = Elapse(ow, Slept(wt[t]))
             /\ panic' = (panic \/ (wt[t] = Word - 1 /\ t = run))

Schedule(nx, st, wt, run, sv, ow) ==
    \/ ScheduleRunnable(nx, st, wt, run, sv, ow)
    \/ ScheduleBlocked(nx, st, wt, run, sv, ow)
    \/ ScheduleSleep(nx, st, wt, run, sv, ow)
-----------------------------------------------------------------------------
\* System calls: thread-syscalls.c through swi_wrapper and swi_handler.

\* The program's thread code executes only while the GUI task is current.
ThreadCode == gui /\ call = NoCall /\ ~ panic

\* swi_wrapper up to the handler
SwiEnter(op, arg) ==
    /\ ThreadCode
    /\ count' = count + 1
    /\ call' = [op |-> op, arg |-> arg, caller |-> running]
    /\ UNCHANGED <<fields, alloc, handles, running, gui, panic, saved, bank, owed>>

\* the way back through swi_wrapper
SwiReturn == count' = count - 1 /\ call' = NoCall

\* syscall_mark_as_finished, for a handler that leaves through resume_svc_thread
MarkAsFinished == count' = count - 1 /\ call' = NoCall

InHandler(op) == gui /\ call.op = op /\ ~ panic

\* request_svc_thread hands out any struct of the cache that is free
\* (external: which one is the slab's choice)
NewThread(t) == t \in Threads \ alloc

\* create_svc_thread, with the pointer nx and the flag m its caller sets
CreateSvcThread(t, nx, m) ==
    /\ NewThread(t)
    /\ alloc' = alloc \cup {t}
    /\ next' = nx
    /\ status' = [status EXCEPT ![t] = RUNNABLE]
    /\ status_data' = [status_data EXCEPT ![t] = NULL]
    /\ waiting' = [waiting EXCEPT ![t] = 0]
    /\ main' = [main EXCEPT ![t] = m]
    /\ saved' = IF m THEN saved \ {t} ELSE saved \cup {t}
    /\ bank' = [bank EXCEPT ![t] = "svc"]
    /\ owed' = [owed EXCEPT ![t] = 0]

\* scheduler_enable_kernel_thread_scheduling: the caller becomes the main thread
EnableOff ==
    /\ InHandler("enable")
    /\ running = NULL
    /\ \E t \in Threads : /\ CreateSvcThread(t, [next EXCEPT ![t] = t], TRUE)
                          /\ running' = t
    /\ SwiReturn
    /\ UNCHANGED <<handles, gui, panic>>

\* its early return
EnableOn ==
    /\ InHandler("enable")
    /\ running # NULL
    /\ SwiReturn
    /\ UNCHANGED <<fields, alloc, handles, running, gui, panic, saved, bank, owed>>

\* scheduler_disable_kernel_thread_scheduling: every thread of the ring is freed
DisableMain ==
    /\ InHandler("disable")
    /\ running # NULL
    /\ main[running]
    /\ alloc' = alloc \ Ring
    /\ running' = NULL
    /\ saved' = saved \ Ring
    /\ bank' = [t \in Threads |-> "svc"]
    /\ SwiReturn
    /\ UNCHANGED <<fields, handles, gui, panic, owed>>

\* its early returns: scheduling is off, or the caller is not the main thread
DisableRefused ==
    /\ InHandler("disable")
    /\ running # NULL => ~ main[running]
    /\ SwiReturn
    /\ UNCHANGED <<fields, alloc, handles, running, gui, panic, saved, bank, owed>>

\* scheduler_kernel_thread_wait of the running thread
WaitSleep ==
    LET ticks == call.arg \div Timeslice
        st == [status EXCEPT ![running] = WAITING]
        wt == [waiting EXCEPT ![running] = ticks + 1]
        ow == [owed EXCEPT ![running] = Owed(call.arg)]
    IN /\ InHandler("wait_millis")
       /\ running # NULL
       /\ ticks # 0
       /\ ~ Alone
       /\ MarkAsFinished
       /\ Schedule(next, st, wt, running, saved \cup {running}, ow)
       /\ UNCHANGED <<next, status_data, main, alloc, handles, gui, bank>>

\* its early returns, and the msleep of a thread that is alone
WaitReturns ==
    /\ InHandler("wait_millis")
    /\ running # NULL /\ call.arg \div Timeslice # 0 => Alone
    /\ SwiReturn
    /\ UNCHANGED <<fields, alloc, handles, running, gui, panic, saved, bank, owed>>

\* scheduler_kernel_thread_wait_thread of the running thread
WaitForBlocks ==
    LET st == [status EXCEPT ![running] = WAITING_FOR]
    IN /\ InHandler("wait_for")
       /\ call.arg # NULL
       /\ running # NULL
       /\ running # call.arg
       /\ status_data' = [status_data EXCEPT ![running] = call.arg]
       /\ MarkAsFinished
       /\ Schedule(next, st, waiting, running, saved \cup {running}, owed)
       /\ UNCHANGED <<next, main, alloc, handles, gui, bank>>

\* its early returns
WaitForReturns ==
    /\ InHandler("wait_for")
    /\ call.arg # NULL /\ running # NULL => running = call.arg
    /\ SwiReturn
    /\ UNCHANGED <<fields, alloc, handles, running, gui, panic, saved, bank, owed>>

\* syscall_kernel_thread_create while threads are scheduled: the new thread is
\* linked in behind the running one (scheduler_add_kernel_thread)
CreateAdds ==
    /\ InHandler("create")
    /\ running # NULL
    /\ \E t \in Threads :
          /\ CreateSvcThread(t, [next EXCEPT ![t] = next[running], ![running] = t],
                             FALSE)
          /\ handles' = handles \cup {t}
    /\ SwiReturn
    /\ UNCHANGED <<running, gui, panic>>

\* the same before osext_init_threads: the struct is made and never linked
CreateUnlinked ==
    /\ InHandler("create")
    /\ running = NULL
    /\ \E t \in Threads : /\ CreateSvcThread(t, [next EXCEPT ![t] = NULL], FALSE)
                          /\ handles' = handles \cup {t}
    /\ SwiReturn
    /\ UNCHANGED <<running, gui, panic>>

-----------------------------------------------------------------------------
\* Ending a thread.

\* faulty variants: the target is not compared; nobody is released
ReleasedAny(R, t) == {u \in R : status[u] = WAITING_FOR}

ReleasedNone(R, t) == {}

\* "release the blocks": what the threads of R that wait for t become
Released(R, t) ==
    {u \in R : status[u] = WAITING_FOR /\ status_data[u] = t}

Pred(t) == CHOOSE p \in Ring : next[p] = t

\* faulty variant: the predecessor keeps its pointer
UnlinkKept(t, R) ==
    /\ next' = next
    /\ status_data' = [u \in Threads |->
                          IF u \in Released(R, t) THEN NULL ELSE status_data[u]]
    /\ alloc' = alloc \ {t}
    /\ bank' = [bank EXCEPT ![t] = "svc"]

\* Unlink t, release its waiters among R, free it.
Unlink(t, R) ==
    /\ next' = [next EXCEPT ![Pred(t)] = next[t]]
    /\ status_data' = [u \in Threads |->
                          IF u \in Released(R, t) THEN NULL ELSE status_data[u]]
    /\ alloc' = alloc \ {t}
    /\ bank' = [bank EXCEPT ![t] = "svc"]

ReleasedStatus(R, t) ==
    [u \in Threads |-> IF u \in Released(R, t) THEN RUNNABLE ELSE status[u]]

\* faulty variant: the main thread may end too
DestroySelfMain ==
    /\ ~ Alone
    /\ Unlink(running, Ring \ {running})
    /\ Schedule([next EXCEPT ![Pred(running)] = next[running]],
                ReleasedStatus(Ring \ {running}, running),
                waiting, next[running], saved, owed)
    /\ UNCHANGED <<main, handles, gui>>

\* scheduler_svc_thread_destroy_self past its early returns
DestroySelf ==
    /\ ~ main[running] /\ ~ Alone
    /\ Unlink(running, Ring \ {running})
    /\ Schedule([next EXCEPT ![Pred(running)] = next[running]],
                ReleasedStatus(Ring \ {running}, running),
                waiting, next[running], saved, owed)
    /\ UNCHANGED <<main, handles, gui>>

\* (a thread that is alone and not main does not exist: MainInRing)

\* A thread's entry function returns: its lr is scheduler_svc_thread_destroy_self.
ThreadExit ==
    /\ ThreadCode
    /\ running # NULL
    /\ DestroySelf
    /\ UNCHANGED <<count, call>>

\* scheduler_remove_kernel_thread of the running thread
DeleteSelf ==
    /\ InHandler("delete")
    /\ running # NULL
    /\ call.arg = running
    /\ MarkAsFinished
    /\ DestroySelf

\* faulty variant: t->main is not tested
DeleteOtherMain ==
    /\ InHandler("delete")
    /\ running # NULL
    /\ call.arg \in Ring \ {running}
    /\ Unlink(call.arg, Ring \ {call.arg})
    /\ status' = ReleasedStatus(Ring \ {call.arg}, call.arg)
    /\ saved' = saved \ {call.arg}
    /\ owed' = [owed EXCEPT ![call.arg] = 0]
    /\ SwiReturn
    /\ UNCHANGED <<waiting, main, handles, running, gui, panic>>

\* scheduler_remove_kernel_thread of another thread of the ring
DeleteOther ==
    /\ InHandler("delete")
    /\ running # NULL
    /\ call.arg \in Ring \ {running}
    /\ ~ main[call.arg]
    /\ Unlink(call.arg, Ring \ {call.arg})
    /\ status' = ReleasedStatus(Ring \ {call.arg}, call.arg)
    /\ saved' = saved \ {call.arg}
    /\ owed' = [owed EXCEPT ![call.arg] = 0]
    /\ SwiReturn
    /\ UNCHANGED <<waiting, main, handles, running, gui, panic>>

\* its early returns, and a pointer the walk does not find
DeleteReturns ==
    /\ InHandler("delete")
    /\ call.arg \in Ring => main[call.arg]
    /\ SwiReturn
    /\ UNCHANGED <<fields, alloc, handles, running, gui, panic, saved, bank, owed>>

\* the delegate path: the OS performs the call and swi_wrapper counts down
DelegateReturns ==
    /\ InHandler("delegate")
    /\ SwiReturn
    /\ UNCHANGED <<fields, alloc, handles, running, gui, panic, saved, bank, owed>>

-----------------------------------------------------------------------------
\* The timeslice FIQ and the rest of the machine.

\* faulty variant: syscall_in_progress() is not tested
FiqMaySwitchAnytime == running # NULL /\ gui /\ ~ Alone

\* fiq_handler, "first timer", and the early returns of schedule_kernel_thread
FiqMaySwitch ==
    /\ running # NULL
    /\ count = 0
    /\ gui
    /\ ~ Alone

\* faulty variant: the registers are not stored
FiqTickUnsaved ==
    /\ ~ panic
    /\ FiqMaySwitch
    /\ bank' = [bank EXCEPT ![running] = "fiq"]
    /\ Schedule(next, status, waiting, running, saved, owed)
    /\ UNCHANGED <<next, status_data, main, alloc, handles, gui, count, call>>

\* schedule_kernel_thread.  The loop meant to subtract one tick from the
\* sleeping threads starts with next = running_kernel_thread and ends at once.
\* The code that stores r8-r14 computes the SVC mode word but does not switch to
\* it, so the FIQ mode's own r8-r14 are stored.
FiqTick ==
    /\ ~ panic
    /\ FiqMaySwitch
    /\ bank' = [bank EXCEPT ![running] = "fiq"]
    /\ Schedule(next, status, waiting, running, saved \cup {running}, owed)
    /\ UNCHANGED <<next, status_data, main, alloc, handles, gui, count, call>>

\* Nucleus gives the processor to another task, and back (external).
TaskAway ==
    /\ ~ panic /\ gui
    /\ gui' = FALSE
    /\ UNCHANGED <<fields, alloc, handles, running, count, call, panic, saved, bank, owed>>

TaskBack ==
    /\ ~ panic /\ ~ gui
    /\ gui' = TRUE
    /\ UNCHANGED <<fields, alloc, handles, running, count, call, panic, saved, bank, owed>>

\* Bound: a call that needs a struct is made only while the cache has one.
StructAvailable == alloc # Threads

EnterEnable == (running # NULL \/ StructAvailable) /\ SwiEnter("enable", NULL)
EnterDisable == SwiEnter("disable", NULL)
EnterWait == \E m \in Millis : SwiEnter("wait_millis", m)
EnterWaitFor == \E t \in handles \cup {NULL} : SwiEnter("wait_for", t)
EnterCreate == StructAvailable /\ SwiEnter("create", NULL)
EnterDelete == \E t \in handles \cup {NULL} : SwiEnter("delete", t)
EnterDelegate == SwiEnter("delegate", NULL)

Enter == \/ EnterEnable \/ EnterDisable \/ EnterWait \/ EnterWaitFor
         \/ EnterCreate \/ EnterDelete \/ EnterDelegate

Handler == \/ EnableOff \/ EnableOn \/ DisableMain \/ DisableRefused
           \/ WaitSleep \/ WaitReturns \/ WaitForBlocks \/ WaitForReturns
           \/ CreateAdds \/ CreateUnlinked
           \/ DeleteSelf \/ DeleteOther \/ DeleteReturns \/ DelegateReturns

Next == Enter \/ Handler \/ ThreadExit \/ FiqTick \/ TaskAway \/ TaskBack

Init ==
    /\ next = [t \in Threads |-> NULL]
    /\ status = [t \in Threads |-> RUNNABLE]
    /\ status_data = [t \in Threads |-> NULL]
    /\ waiting = [t \in Threads |-> 0]
    /\ main = [t \in Threads |-> FALSE]
    /\ alloc = {}
    /\ handles = {}
    /\ running = NULL
    /\ gui = TRUE
    /\ count = 0
    /\ call = NoCall
    /\ panic = FALSE
    /\ saved = {}
    /\ bank = [t \in Threads |-> "svc"]
    /\ owed = [t \in Threads |-> 0]

Spec == Init /\ [][Next]_vars
-----------------------------------------------------------------------------
\* Safety

\* The threads R are one circle under the pointers nx: no pointer leads out of R,
\* no two threads have the same successor, and a walk from any thread meets them all.
Circle(nx, R) ==
    /\ Closed(nx, R)
    /\ \A s, t \in R : nx[s] = nx[t] => s = t
    /\ \A S \in SUBSET R : S # {} /\ Closed(nx, S) => S = R

\* The list stays one circle of allocated threads: no pointer leads to NULL or to
\* a freed struct, and every walk of the scheduler ends where it began, whichever
\* thread is running_kernel_thread.
RingIntact == Ring \subseteq alloc /\ Circle(next, Ring)

\* While threads are scheduled exactly one thread of the ring is the main thread:
\* scheduler_disable can always be reached, and the fallback of the scheduler for
\* a deadlock always finds a thread.
MainInRing ==
    running # NULL => /\ \E t \in Ring : main[t]
                      /\ \A s, t \in Ring : main[s] /\ main[t] => s = t

\* Every thread that does not run has its registers in its struct, and the running
\* thread's struct is not resumed a second time from an old copy.
ContextSaved == running # NULL => /\ Ring \ {running} \subseteq saved
                                  /\ running \notin saved

\* __syscall_in_progress is the number of calls inside swi_wrapper, whichever way a
\* handler leaves, and the thread that entered a call is still the running thread
\* when the handler works on running_kernel_thread.
SyscallsBalanced ==
    /\ count = IF call = NoCall THEN 0 ELSE 1
    /\ call # NoCall => call.caller = running

\* A thread runs only when it is runnable, but for the main thread resumed out of a
\* deadlock; then no thread sleeps, so that the FIQ handler never gets to msleep.
RunningIsReady ==
    running # NULL =>
        \/ status[running] = RUNNABLE
        \/ /\ main[running]
           /\ status[running] = WAITING_FOR
           /\ \A t \in Ring : status[t] # WAITING

\* osext_thread_wait_milli: a sleeper is not made runnable before the timeslices it
\* asked for have passed, or those of the longest msleep when it asked for more, and
\* the waiting time kept for it covers what is left, however its sleep overlaps with
\* others that are cut short or whose product wraps.  Two sleeps do end early: one of
\* more than SleepLimit, when nobody is runnable, because the scheduler subtracts the
\* whole min_wait that msleep did not wait; and one whose product leaves the word.
NoEarlyWake ==
    \A t \in Ring : /\ status[t] = WAITING => owed[t] <= waiting[t]
                    /\ status[t] # WAITING => owed[t] = 0

\* Neither panic of schedule_kernel_thread_current_saved is reachable.
NoPanic == ~ panic

\* osext_destroy_thread, "waking up any other threads waiting for it": no thread is
\* left waiting for a thread that leaves the ring.
EndReleasesWaiters ==
    [][running' # NULL =>
          \A t \in Ring \ Ring' :
             \A u \in Ring' : ~ (status'[u] = WAITING_FOR /\ status_data'[u] = t)]_vars

\* A thread suspended in osext_thread_wait_for_thread becomes runnable only in the
\* step in which the thread it waits for leaves the ring.  (The main thread, resumed
\* out of a deadlock with its status unchanged, runs and is not suspended.)
ReleasedOnlyByEnd ==
    [][\A t \in (Ring \cap Ring') \ {running} :
          status[t] = WAITING_FOR /\ status'[t] = RUNNABLE
              => status_data[t] \in Ring \ Ring']_vars
-----------------------------------------------------------------------------
\* What a comment of the code says and the code does not do

\* "store all the registers" (scheduler.c): the running thread runs on its own
\* r8-r14, whatever interrupted it before.
ContextIntact == running # NULL => bank[running] = "svc"
=============================================================================
