---------------------------- MODULE SyscallEntry ----------------------------
(***************************************************************************)
(* The entry of system calls, kernel/exceptions/syscalls.c.  swi_wrapper   *)
(* serves the calls of OSExt itself and hands every other one over to      *)
(* Ndless, which calls a function of TI-OS.  Calls nest: handlers of OSExt *)
(* allocate memory of TI-OS, functions of TI-OS run into the hooks of      *)
(* OSExt, and these call TI-OS again.                                      *)
(*                                                                         *)
(* A call of OSExt keeps its return address and status word on the stack.  *)
(* A delegated one must not, since functions of TI-OS find arguments       *)
(* there: it keeps them in one of two slots.                               *)
(*                                                                         *)
(* Threads share the slots and the counter of calls in progress.  The      *)
(* timeslice FIQ switches threads only while the counter is zero, a call   *)
(* that blocks switches at once.                                           *)
(***************************************************************************)
EXTENDS Integers, Sequences, SequencesExt, FiniteSets

CONSTANTS
    Threads,
    MaxDepth,    \* bound of the calls in progress of a thread
    Zero         \* an empty slot: address and status word 0

(* The address behind the call that thread t makes at depth d. *)
ReturnAddress(t, d) == <<t, d>>

ASSUME EntryAssumption ==
    /\ IsFiniteSet(Threads) /\ Threads # {} /\ MaxDepth \in Nat
    /\ \A t \in Threads, d \in 0..MaxDepth : ReturnAddress(t, d) # Zero

VARIABLES
    stack,                        \* of each thread: the calls in progress, outermost first,
                                  \* [osext, spsr]: served by OSExt, the caller's status word
    irq,                          \* of each thread: its code runs with IRQs on
    running,                      \* the thread on the processor
    saved_lr1, saved_lr2,         \* the slots of delegated calls
    saved_spsr1, saved_spsr2,
    __syscall_in_progress,
    mode,                         \* "running", "panic", or "lost": control went astray
    spoiled                       \* history: the slots no longer suffice

slots == <<saved_lr1, saved_lr2, saved_spsr1, saved_spsr2>>
vars == <<stack, irq, running, slots, __syscall_in_progress, mode, spoiled>>

Init == /\ stack = [t \in Threads |-> <<>>]
        /\ irq = [t \in Threads |-> TRUE]
        /\ running \in Threads
        /\ saved_lr1 = Zero /\ saved_lr2 = Zero
        /\ saved_spsr1 = Zero /\ saved_spsr2 = Zero
        /\ __syscall_in_progress = 0
        /\ mode = "running"
        /\ spoiled = FALSE
-----------------------------------------------------------------------------
Depth == Len(stack[running])

(* The depths at which a thread made a delegated call. *)
Delegated(t) == {d \in 0..(Len(stack[t]) - 1) : ~stack[t][d + 1].osext}

(* An SWI of the running thread: the processor masks IRQs, the wrapper     *)
(* counts the call.                                                        *)
Enter(call) ==
    /\ mode = "running"
    /\ Depth < MaxDepth
    /\ stack' = [stack EXCEPT ![running] = Append(@, call)]
    /\ irq' = [irq EXCEPT ![running] = FALSE]
    /\ __syscall_in_progress' = __syscall_in_progress + 1

\* An SWI of ARM code with a number from syscall_mask on; handlers run with
\* the frame of the call on the stack.
swi_handler ==
    /\ Enter([osext |-> TRUE, spsr |-> [thumb |-> FALSE, irq |-> irq[running]]])
    /\ UNCHANGED <<running, slots, mode, spoiled>>

\* The same with a number behind the end of swi_table.
UnknownSyscall ==
    /\ Enter([osext |-> TRUE, spsr |-> [thumb |-> FALSE, irq |-> irq[running]]])
    /\ mode' = "panic"
    /\ UNCHANGED <<running, slots, spoiled>>

Save(lr, spsr) ==
    IF saved_lr1 = Zero
    THEN /\ saved_lr1' = lr /\ saved_spsr1' = spsr
         /\ UNCHANGED <<saved_lr2, saved_spsr2>>
    ELSE /\ saved_lr2' = lr /\ saved_spsr2' = spsr
         /\ UNCHANGED <<saved_lr1, saved_spsr1>>

\* An SWI with a lower number, or of Thumb code: its address and status word
\* go into a slot, then Ndless is entered as if from here, with IRQs masked.
delegate ==
    \E thumb \in BOOLEAN :
      LET spsr == [thumb |-> thumb, irq |-> irq[running]]
      IN /\ Enter([osext |-> FALSE, spsr |-> spsr])
         /\ Save(ReturnAddress(running, Depth), spsr)
         /\ spoiled' = (spoiled \/ \E c, d \in Delegated(running) : c # d)
         /\ UNCHANGED <<running, mode>>

\* A function of TI-OS, such as TCT_Local_Control_Interrupts, or the code
\* around the calls masks or unmasks IRQs.
ControlInterrupts ==
    /\ mode = "running"
    /\ Depth > 0 => ~Last(stack[running]).osext
    /\ irq' = [irq EXCEPT ![running] = ~@]
    /\ UNCHANGED <<stack, running, slots, __syscall_in_progress, mode, spoiled>>
-----------------------------------------------------------------------------
(* The ways a call ends. *)

Leave == /\ stack' = [stack EXCEPT ![running] = Front(@)]
         /\ __syscall_in_progress' = __syscall_in_progress - 1

Innermost(osext) == /\ mode = "running"
                    /\ Depth > 0
                    /\ Last(stack[running]).osext = osext

\* The handler returns: address and status word come off the stack.
HandlerReturns ==
    /\ Innermost(TRUE)
    /\ Leave
    /\ irq' = [irq EXCEPT ![running] = Last(stack[running]).spsr.irq]
    /\ UNCHANGED <<running, slots, mode, spoiled>>

\* mutant: the second slot is not given back
ClearFirst == /\ saved_lr1' = Zero /\ saved_spsr1' = Zero
              /\ UNCHANGED <<saved_lr2, saved_spsr2>>

Clear == IF saved_lr2 # Zero
         THEN /\ saved_lr2' = Zero /\ saved_spsr2' = Zero
              /\ UNCHANGED <<saved_lr1, saved_spsr1>>
         ELSE /\ saved_lr1' = Zero /\ saved_spsr1' = Zero
              /\ UNCHANGED <<saved_lr2, saved_spsr2>>

\* TI-OS and Ndless return: the second slot is used if it is taken, else the
\* first.  The caller gets its Thumb bit back, and the IRQ bit as the
\* function left it.
delegate_end ==
    /\ Innermost(FALSE)
    /\ Leave
    /\ Clear
    /\ LET lr == IF saved_lr2 # Zero THEN saved_lr2 ELSE saved_lr1
           spsr == IF saved_lr2 # Zero THEN saved_spsr2 ELSE saved_spsr1
       IN mode' = IF /\ lr = ReturnAddress(running, Depth - 1)
                     /\ spsr.thumb = Last(stack[running]).spsr.thumb
                  THEN "running" ELSE "lost"
    /\ UNCHANGED <<irq, running, spoiled>>

\* A call that blocks its thread or ends it saves the caller's registers,
\* marks itself as finished and resumes another thread.
syscall_mark_as_finished ==
    /\ Innermost(TRUE)
    /\ Leave
    /\ irq' = [irq EXCEPT ![running] = Last(stack[running]).spsr.irq]
    /\ running' \in Threads \ {running}
    /\ spoiled' = (spoiled \/ Delegated(running) # {})
    /\ UNCHANGED <<slots, mode>>

\* mutant: without the question for calls in progress
FiqAlways ==
    /\ mode = "running"
    /\ running' \in Threads \ {running}
    /\ UNCHANGED <<stack, irq, slots, __syscall_in_progress, mode, spoiled>>

\* The timeslice FIQ.
Fiq == /\ mode = "running"
       /\ __syscall_in_progress = 0
       /\ running' \in Threads \ {running}
       /\ UNCHANGED <<stack, irq, slots, __syscall_in_progress, mode, spoiled>>
-----------------------------------------------------------------------------
Next == \/ swi_handler
        \/ UnknownSyscall
        \/ delegate
        \/ ControlInterrupts
        \/ HandlerReturns
        \/ delegate_end
        \/ syscall_mark_as_finished
        \/ Fiq

Spec == Init /\ [][Next]_vars
-----------------------------------------------------------------------------
(***************************************************************************)
(* Every delegated call returns to its own caller, in the caller's         *)
(* instruction set, however calls of both kinds nest and threads change.   *)
(* The two exceptions are those `spoiled` records: a third delegated call  *)
(* inside two others takes the slot of the second (syscalls.c:177), and a  *)
(* thread that blocks inside a delegated call leaves its slot to the next  *)
(* one (scheduler.c:355).                                                  *)
(***************************************************************************)
ReturnsToCaller == mode = "lost" => spoiled

(***************************************************************************)
(* Until then the slots hold exactly the callers of the delegated calls in *)
(* progress, outermost first, and these are the running thread's: nothing  *)
(* is left behind in a slot that a later call would take for its own, and  *)
(* the timeslice never takes the processor from a thread that owns one.    *)
(***************************************************************************)
SlotsMatch ==
    ~spoiled =>
      /\ \A t \in Threads \ {running} : Delegated(t) = {}
      /\ LET calls == Delegated(running)
         IN \/ calls = {} /\ saved_lr1 = Zero /\ saved_lr2 = Zero
            \/ \E c \in calls : /\ calls = {c}
                                /\ saved_lr1 = ReturnAddress(running, c)
                                /\ saved_lr2 = Zero
            \/ \E c, d \in calls : /\ c < d /\ calls = {c, d}
                                   /\ saved_lr1 = ReturnAddress(running, c)
                                   /\ saved_lr2 = ReturnAddress(running, d)
=============================================================================
