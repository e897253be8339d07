-------------------------- MODULE Programs_proofs --------------------------
(***************************************************************************)
(* Proofs about what programs and modules see of the kernel: system calls  *)
(* (SyscallEntry), the images behind the menus (Background) and the clock  *)
(* (Calendar).  The three models are independent of each other.            *)
(*                                                                         *)
(* SyscallEntry: for any number of threads and any depth of nesting, the   *)
(* slots of delegated calls hold the callers of the running thread, and    *)
(* every such call returns to its own caller, until the slots no longer    *)
(* suffice.                                                                *)
(*                                                                         *)
(* Background: for any amount of memory and any images, the memory in use  *)
(* is that of what is shown, which can be drawn.                           *)
(*                                                                         *)
(* Calendar: for every time, the fields of the clock are the right ones,   *)
(* and the dialog sets the time of day that was chosen.                    *)
(***************************************************************************)
EXTENDS SyscallEntry, Background, Calendar,
        FiniteSetTheorems, WellFoundedInduction, TLAPS

Words == [thumb : BOOLEAN, irq : BOOLEAN]
Frames == [osext : BOOLEAN, spsr : Words]

Typed ==
    /\ stack \in [Threads -> Seq(Frames)]
    /\ \A t \in Threads : Len(stack[t]) \in 0..MaxDepth
    /\ irq \in [Threads -> BOOLEAN]
    /\ running \in Threads
    /\ spoiled \in BOOLEAN

\* The calls in progress of all threads, by thread and depth.
Calls == {c \in Threads \X (1..MaxDepth) : c[2] <= Len(stack[c[1]])}

\* The counter the FIQ handler asks counts the calls of every thread.
Counted == __syscall_in_progress = Cardinality(Calls)

\* The slots with the status words they save.
Held(t, lr, spsr, c) ==
    /\ lr = ReturnAddress(t, c)
    /\ spsr = stack[t][c + 1].spsr

Slots ==
    ~spoiled =>
      /\ \A t \in Threads \ {running} : Delegated(t) = {}
      /\ \/ Delegated(running) = {} /\ saved_lr1 = Zero /\ saved_lr2 = Zero
         \/ \E c \in Delegated(running) :
                /\ Delegated(running) = {c}
                /\ Held(running, saved_lr1, saved_spsr1, c)
                /\ saved_lr2 = Zero
         \/ \E c, d \in Delegated(running) :
                /\ c < d /\ Delegated(running) = {c, d}
                /\ Held(running, saved_lr1, saved_spsr1, c)
                /\ Held(running, saved_lr2, saved_spsr2, d)

EntryInv == Typed /\ Counted /\ Slots /\ ReturnsToCaller
-----------------------------------------------------------------------------
(***************************************************************************)
(* What a call and its end do to the stacks.                               *)
(***************************************************************************)
LEMMA EnterStack ==
    ASSUME Typed, NEW call \in Frames, Enter(call)
    PROVE  /\ stack' \in [Threads -> Seq(Frames)]
           /\ Len(stack'[running]) = Depth + 1
           /\ Depth \in Nat /\ Depth < MaxDepth
           /\ \A i \in 1..Depth : stack'[running][i] = stack[running][i]
           /\ stack'[running][Depth + 1] = call
           /\ \A t \in Threads \ {running} : stack'[t] = stack[t]
<1>. DEFINE s == stack[running]
<1>1. s \in Seq(Frames) /\ running \in Threads /\ Len(s) \in Nat
  BY DEF Typed
<1>2. stack' = [stack EXCEPT ![running] = Append(s, call)] /\ Len(s) < MaxDepth
  BY DEF Enter, Depth
<1>3. /\ Append(s, call) \in Seq(Frames) /\ Len(Append(s, call)) = Len(s) + 1
      /\ \A i \in 1..Len(s) : Append(s, call)[i] = s[i]
      /\ Append(s, call)[Len(s) + 1] = call
  BY <1>1
<1>4. stack'[running] = Append(s, call) /\ \A t \in Threads \ {running} : stack'[t] = stack[t]
  BY <1>1, <1>2 DEF Typed
<1>5. stack' \in [Threads -> Seq(Frames)]
  BY <1>1, <1>2, <1>3 DEF Typed
<1>. QED BY <1>1, <1>2, <1>3, <1>4, <1>5 DEF Depth

LEMMA LeaveStack ==
    ASSUME Typed, Leave, Depth > 0
    PROVE  /\ stack' \in [Threads -> Seq(Frames)]
           /\ Len(stack'[running]) = Depth - 1
           /\ Depth \in 1..MaxDepth
           /\ \A i \in 1..(Depth - 1) : stack'[running][i] = stack[running][i]
           /\ \A t \in Threads \ {running} : stack'[t] = stack[t]
<1>. DEFINE s == stack[running]
            f == SubSeq(s, 1, Len(s) - 1)
<1>1. s \in Seq(Frames) /\ running \in Threads /\ Len(s) \in 1..MaxDepth
  BY DEF Typed, Depth
<1>2. stack' = [stack EXCEPT ![running] = f]
  BY DEF Leave, Front
<1>3. f \in Seq(Frames) /\ Len(f) = Len(s) - 1 /\ \A i \in 1..(Len(s) - 1) : f[i] = s[i]
  BY <1>1
<1>4. stack'[running] = f /\ \A t \in Threads \ {running} : stack'[t] = stack[t]
  BY <1>1, <1>2 DEF Typed
<1>5. stack' \in [Threads -> Seq(Frames)]
  BY <1>1, <1>2, <1>3 DEF Typed
<1>. QED BY <1>1, <1>3, <1>4, <1>5 DEF Depth

\* The depths of a thread's delegated calls after a step.
After(t) == {d \in 0..(Len(stack'[t]) - 1) : ~stack'[t][d + 1].osext}

LEMMA EnterDelegated ==
    ASSUME Typed, NEW call \in Frames, Enter(call)
    PROVE  /\ Delegated(running) \subseteq 0..(Depth - 1)
           /\ \A t \in Threads \ {running} :
                After(t) = Delegated(t)
           /\ After(running)
                = Delegated(running) \union (IF call.osext THEN {} ELSE {Depth})
<1>. DEFINE D == Delegated(running)
            E == After(running)
<1>1. D \subseteq 0..(Depth - 1)
  BY DEF Delegated, Depth
<1>2. \A t \in Threads \ {running} :
        After(t) = Delegated(t)
  BY EnterStack DEF Delegated, After
<1>3. \A d \in 0..(Depth - 1) : d \in D <=> d \in E
  BY EnterStack DEF Delegated, After, Depth
<1>4. Depth \in E <=> ~call.osext
  BY EnterStack DEF After
<1>5. E \subseteq 0..Depth
  BY EnterStack DEF After
<1>6. E = D \union (IF call.osext THEN {} ELSE {Depth})
  BY <1>1, <1>3, <1>4, <1>5, EnterStack
<1>. QED BY <1>1, <1>2, <1>6

LEMMA LeaveDelegated ==
    ASSUME Typed, Leave, Depth > 0
    PROVE  /\ \A t \in Threads \ {running} :
                After(t) = Delegated(t)
           /\ After(running)
                = Delegated(running) \ {Depth - 1}
           /\ Depth - 1 \in Delegated(running) <=> ~Last(stack[running]).osext
           /\ Delegated(running) \subseteq 0..(Depth - 1)
<1>. DEFINE D == Delegated(running)
            E == After(running)
<1>1. D \subseteq 0..(Depth - 1)
  BY DEF Delegated, Depth
<1>2. \A t \in Threads \ {running} :
        After(t) = Delegated(t)
  BY LeaveStack DEF Delegated, After
<1>3. \A d \in 0..(Depth - 2) : d \in D <=> d \in E
  BY LeaveStack DEF Delegated, After, Depth
<1>4. E \subseteq 0..(Depth - 2)
  BY LeaveStack DEF After
<1>5. E = D \ {Depth - 1}
  BY <1>1, <1>3, <1>4, LeaveStack
<1>6. Depth - 1 \in D <=> ~Last(stack[running]).osext
  BY LeaveStack DEF Delegated, Depth, Last
<1>. QED BY <1>1, <1>2, <1>5, <1>6
-----------------------------------------------------------------------------
(***************************************************************************)
(* The counter.                                                            *)
(***************************************************************************)
LEMMA CallsFinite == IsFiniteSet(Calls)
<1>1. IsFiniteSet(1..MaxDepth)
  BY FS_Interval, EntryAssumption
<1>2. IsFiniteSet(Threads \X (1..MaxDepth))
  BY <1>1, FS_Product, EntryAssumption
<1>3. Calls \in SUBSET (Threads \X (1..MaxDepth))
  BY DEF Calls
<1>. QED BY <1>2, <1>3, FS_Subset

LEMMA EnterCounted ==
    ASSUME Typed, Counted, NEW call \in Frames, Enter(call)
    PROVE  Counted'
<1>. DEFINE c == <<running, Depth + 1>>
<1>1. c \in Threads \X (1..MaxDepth) /\ c \notin Calls
  BY EnterStack, EntryAssumption DEF Typed, Calls, Depth
<1>2. \A x \in Threads \X (1..MaxDepth) : x \in Calls' <=> x \in Calls \/ x = c
  <2>. SUFFICES ASSUME NEW t \in Threads, NEW i \in 1..MaxDepth
       PROVE  i <= Len(stack'[t]) <=> i <= Len(stack[t]) \/ (t = running /\ i = Depth + 1)
    BY DEF Calls
  <2>1. CASE t = running
    BY <2>1, EnterStack DEF Depth
  <2>2. CASE t # running
    BY <2>2, EnterStack
  <2>. QED BY <2>1, <2>2
<1>3. Calls' = Calls \union {c}
  BY <1>1, <1>2 DEF Calls
<1>4. Cardinality(Calls \union {c}) = Cardinality(Calls) + 1
  BY <1>1, CallsFinite, FS_AddElement
<1>. QED BY <1>3, <1>4 DEF Counted, Enter

LEMMA LeaveCounted ==
    ASSUME Typed, Counted, Leave, Depth > 0
    PROVE  Counted'
<1>. DEFINE c == <<running, Depth>>
<1>1. c \in Calls
  BY LeaveStack DEF Typed, Calls, Depth
<1>2. \A x \in Threads \X (1..MaxDepth) : x \in Calls' <=> x \in Calls /\ x # c
  <2>. SUFFICES ASSUME NEW t \in Threads, NEW i \in 1..MaxDepth
       PROVE  i <= Len(stack'[t]) <=> i <= Len(stack[t]) /\ ~(t = running /\ i = Depth)
    BY DEF Calls
  <2>1. CASE t = running
    BY <2>1, LeaveStack DEF Depth
  <2>2. CASE t # running
    BY <2>2, LeaveStack
  <2>. QED BY <2>1, <2>2
<1>3. Calls' = Calls \ {c}
  BY <1>2 DEF Calls
<1>4. Cardinality(Calls \ {c}) = Cardinality(Calls) - 1
  BY <1>1, CallsFinite, FS_RemoveElement
<1>. QED BY <1>3, <1>4 DEF Counted, Leave

\* When the counter is zero, no thread is in a call.
LEMMA NoneCounted ==
    ASSUME Typed, Counted, __syscall_in_progress = 0
    PROVE  \A t \in Threads : Delegated(t) = {}
<1>1. Calls = {}
  BY CallsFinite, FS_EmptySet DEF Counted
<1>2. ASSUME NEW t \in Threads, Len(stack[t]) # 0
      PROVE  FALSE
  <2>1. <<t, 1>> \in Calls
    BY <1>2, EntryAssumption DEF Typed, Calls
  <2>. QED BY <1>1, <2>1
<1>. QED BY <1>2 DEF Delegated
-----------------------------------------------------------------------------
(***************************************************************************)
(* The slots.                                                              *)
(***************************************************************************)
\* The form in which Slots is shown for the state after a step.
LEMMA SlotsAfter ==
    ASSUME \A t \in Threads \ {running'} : After(t) = {},
           \/ After(running') = {} /\ saved_lr1' = Zero /\ saved_lr2' = Zero
           \/ \E c \in After(running') :
                /\ After(running') = {c}
                /\ Held(running, saved_lr1, saved_spsr1, c)'
                /\ saved_lr2' = Zero
           \/ \E c, d \in After(running') :
                /\ c < d /\ After(running') = {c, d}
                /\ Held(running, saved_lr1, saved_spsr1, c)'
                /\ Held(running, saved_lr2, saved_spsr2, d)'
    PROVE  Slots'
BY DEF Slots, Delegated, After

\* A call served by OSExt leaves the slots as they are, and so does its end.
LEMMA HandlerSlots ==
    ASSUME Typed, Slots, UNCHANGED <<running, slots, spoiled>>,
           \/ \E call \in Frames : call.osext /\ Enter(call)
           \/ Leave /\ Innermost(TRUE)
    PROVE  Slots'
<1>. SUFFICES ASSUME ~spoiled PROVE Slots'
  BY DEF Slots
<1>1. \A t \in Threads \ {running} : After(t) = Delegated(t)
  BY EnterDelegated, LeaveDelegated DEF Innermost
<1>2. After(running) = Delegated(running)
  BY EnterDelegated, LeaveDelegated DEF Innermost
<1>3. \A c \in Delegated(running) : stack'[running][c + 1] = stack[running][c + 1]
  <2>1. CASE \E call \in Frames : call.osext /\ Enter(call)
    BY <2>1, EnterStack DEF Delegated, Depth
  <2>2. CASE Leave /\ Innermost(TRUE)
    <3>1. Depth > 0 /\ Last(stack[running]).osext
      BY <2>2 DEF Innermost
    <3>2. Delegated(running) \subseteq 0..(Depth - 2) /\ Depth \in Nat
      BY <2>2, <3>1, LeaveDelegated, LeaveStack
    <3>. QED BY <2>2, <3>1, <3>2, LeaveStack
  <2>. QED BY <2>1, <2>2
<1>4. UNCHANGED <<running, saved_lr1, saved_lr2, saved_spsr1, saved_spsr2>>
  BY DEF slots
<1>5. /\ \A c \in Delegated(running) :
            /\ Held(running, saved_lr1, saved_spsr1, c) => Held(running, saved_lr1, saved_spsr1, c)'
            /\ Held(running, saved_lr2, saved_spsr2, c) => Held(running, saved_lr2, saved_spsr2, c)'
  BY <1>3, <1>4 DEF Held, ReturnAddress
<1>. QED BY <1>1, <1>2, <1>4, <1>5, SlotsAfter DEF Slots

LEMMA delegateSlots ==
    ASSUME Typed, Slots, delegate
    PROVE  Slots'
<1>. SUFFICES ASSUME ~spoiled' PROVE Slots'
  BY DEF Slots
<1>. PICK thumb \in BOOLEAN :
       LET spsr == [thumb |-> thumb, irq |-> irq[running]]
       IN /\ Enter([osext |-> FALSE, spsr |-> spsr])
          /\ Save(ReturnAddress(running, Depth), spsr)
          /\ spoiled' = (spoiled \/ \E c, d \in Delegated(running) : c # d)
          /\ UNCHANGED <<running, mode>>
  BY DEF delegate
<1>. DEFINE spsr == [thumb |-> thumb, irq |-> irq[running]]
            call == [osext |-> FALSE, spsr |-> spsr]
            D == Delegated(running)
<1>. PICK e : e = Depth
  OBVIOUS
<1>1. call \in Frames /\ call.spsr = spsr /\ ~call.osext
  BY DEF Frames, Words, Typed
<1>2. ~spoiled /\ (\A c, d \in D : c = d) /\ running' = running
  OBVIOUS
<1>3. Enter(call) /\ Save(ReturnAddress(running, e), spsr)
  OBVIOUS
<1>. HIDE DEF spsr, call
<1>4. /\ \A t \in Threads \ {running} : After(t) = {}
      /\ After(running) = D \union {e}
      /\ D \subseteq 0..(e - 1)
  BY <1>1, <1>2, <1>3, EnterDelegated DEF Slots
<1>5. /\ e \in 0..MaxDepth /\ stack'[running][e + 1].spsr = spsr
      /\ \A c \in D : stack'[running][c + 1] = stack[running][c + 1]
  BY <1>1, <1>3, <1>4, EnterStack, EntryAssumption
<1>6. CASE D = {}
  <2>1. saved_lr1 = Zero /\ saved_lr2 = Zero
    BY <1>2, <1>6 DEF Slots
  <2>2. saved_lr1' = ReturnAddress(running, e) /\ saved_spsr1' = spsr /\ saved_lr2' = Zero
    BY <1>3, <2>1 DEF Save
  <2>3. Held(running, saved_lr1, saved_spsr1, e)'
    BY <1>2, <1>5, <2>2 DEF Held, ReturnAddress
  <2>. QED BY <1>2, <1>4, <1>6, <2>2, <2>3, SlotsAfter
<1>7. CASE D # {}
  <2>1. PICK c \in D : D = {c} /\ Held(running, saved_lr1, saved_spsr1, c)
    BY <1>2, <1>7 DEF Slots
  <2>2. c < e /\ c \in 0..MaxDepth
    BY <1>4, <1>5, EntryAssumption
  <2>3. saved_lr1 # Zero
    BY <2>1, <2>2, EntryAssumption DEF Held, Typed
  <2>4. /\ saved_lr2' = ReturnAddress(running, e) /\ saved_spsr2' = spsr
        /\ UNCHANGED <<saved_lr1, saved_spsr1>>
    BY <1>3, <2>3 DEF Save
  <2>5. Held(running, saved_lr1, saved_spsr1, c)' /\ Held(running, saved_lr2, saved_spsr2, e)'
    BY <1>2, <1>5, <2>1, <2>4 DEF Held, ReturnAddress
  <2>6. After(running) = {c, e}
    BY <1>4, <2>1
  <2>. QED BY <1>2, <1>4, <2>2, <2>5, <2>6, SlotsAfter
<1>. QED BY <1>6, <1>7

\* The end of a delegated call finds its own caller in the slot it reads.
LEMMA delegate_endSlots ==
    ASSUME Typed, Slots, delegate_end
    PROVE  Slots' /\ (mode' = "lost" => spoiled')
<1>. SUFFICES ASSUME ~spoiled PROVE Slots' /\ mode' = "running"
  BY DEF Slots, delegate_end
<1>. DEFINE D == Delegated(running)
            e == Depth - 1
<1>1. Leave /\ Depth > 0 /\ ~Last(stack[running]).osext /\ Clear /\ running' = running
  BY DEF delegate_end, Innermost
<1>2. /\ \A t \in Threads \ {running} : After(t) = {}
      /\ After(running) = D \ {e}
      /\ e \in D /\ D \subseteq 0..e
  BY <1>1, LeaveDelegated DEF Slots
<1>3. /\ Depth \in 1..MaxDepth
      /\ \A c \in D \ {e} : stack'[running][c + 1] = stack[running][c + 1]
  <2>1. /\ Depth \in 1..MaxDepth
        /\ \A i \in 1..(Depth - 1) : stack'[running][i] = stack[running][i]
    BY <1>1, LeaveStack
  <2>2. \A c \in D \ {e} : c + 1 \in 1..(Depth - 1)
    BY <1>2, <2>1, EntryAssumption
  <2>. QED  BY <2>1, <2>2
<1>4. Last(stack[running]).spsr = stack[running][e + 1].spsr
  BY <1>3 DEF Last, Depth
<1>5. CASE \E c \in D : D = {c} /\ Held(running, saved_lr1, saved_spsr1, c) /\ saved_lr2 = Zero
  <2>1. D = {e} /\ Held(running, saved_lr1, saved_spsr1, e) /\ saved_lr2 = Zero
    BY <1>2, <1>5
  <2>2. mode' = "running"
    BY <1>4, <2>1 DEF delegate_end, Held
  <2>3. saved_lr1' = Zero /\ saved_lr2' = Zero
    BY <1>1, <2>1 DEF Clear
  <2>4. After(running) = {}
    BY <1>2, <2>1
  <2>. QED BY <1>1, <1>2, <2>2, <2>3, <2>4, SlotsAfter
<1>6. CASE \E c, d \in D : /\ c < d /\ D = {c, d}
                           /\ Held(running, saved_lr1, saved_spsr1, c)
                           /\ Held(running, saved_lr2, saved_spsr2, d)
  <2>1. PICK c, d \in D : /\ c < d /\ D = {c, d}
                          /\ Held(running, saved_lr1, saved_spsr1, c)
                          /\ Held(running, saved_lr2, saved_spsr2, d)
    BY <1>6
  <2>2. d = e /\ c # e /\ e \in 0..MaxDepth
    BY <1>2, <1>3, <2>1, EntryAssumption
  <2>3. saved_lr2 # Zero
    BY <2>1, <2>2, EntryAssumption DEF Held, Typed
  <2>4. mode' = "running"
    BY <1>4, <2>1, <2>2, <2>3 DEF delegate_end, Held
  <2>5. saved_lr2' = Zero /\ UNCHANGED <<saved_lr1, saved_spsr1>>
    BY <1>1, <2>3 DEF Clear
  <2>6. Held(running, saved_lr1, saved_spsr1, c)'
    BY <1>1, <1>3, <2>1, <2>2, <2>5 DEF Held, ReturnAddress
  <2>7. After(running) = {c}
    BY <1>2, <2>1, <2>2
  <2>. QED BY <1>1, <1>2, <2>4, <2>5, <2>6, <2>7, SlotsAfter
<1>. QED BY <1>2, <1>5, <1>6 DEF Slots

\* A call that blocks gives the processor away: no slot is taken then, or the
\* history says so.
LEMMA syscall_mark_as_finishedSlots ==
    ASSUME Typed, Slots, syscall_mark_as_finished
    PROVE  Slots'
<1>. SUFFICES ASSUME ~spoiled' PROVE Slots'
  BY DEF Slots
<1>1. /\ ~spoiled /\ Delegated(running) = {} /\ Leave /\ Depth > 0
      /\ UNCHANGED <<saved_lr1, saved_lr2>> /\ running' \in Threads
  BY DEF syscall_mark_as_finished, Innermost, slots
<1>2. \A t \in Threads : After(t) = {}
  BY <1>1, LeaveDelegated DEF Slots
<1>3. saved_lr1 = Zero /\ saved_lr2 = Zero
  BY <1>1 DEF Slots
<1>. QED BY <1>1, <1>2, <1>3, SlotsAfter

LEMMA FiqSlots ==
    ASSUME Typed, Counted, Slots, Fiq
    PROVE  Slots'
<1>. SUFFICES ASSUME ~spoiled PROVE Slots'
  BY DEF Slots, Fiq
<1>1. \A t \in Threads : Delegated(t) = {} /\ After(t) = Delegated(t)
  BY NoneCounted DEF Fiq, Delegated, After
<1>2. saved_lr1 = Zero /\ saved_lr2 = Zero /\ UNCHANGED <<saved_lr1, saved_lr2>> /\ running' \in Threads
  BY <1>1 DEF Slots, Typed, Fiq, slots
<1>. QED BY <1>1, <1>2, SlotsAfter
-----------------------------------------------------------------------------
LEMMA InitInv == Init => EntryInv
<1>. SUFFICES ASSUME Init PROVE EntryInv
  OBVIOUS
<1>1. \A t \in Threads : stack[t] = <<>> /\ Len(stack[t]) = 0
  BY DEF Init
<1>2. Typed
  <2>1. stack \in [Threads -> Seq(Frames)]
    BY DEF Init
  <2>2. \A t \in Threads : Len(stack[t]) \in 0..MaxDepth
    BY <1>1, EntryAssumption
  <2>3. irq \in [Threads -> BOOLEAN] /\ running \in Threads /\ spoiled \in BOOLEAN
    BY DEF Init
  <2>. QED BY <2>1, <2>2, <2>3 DEF Typed
<1>3. Calls = {}
  BY <1>1 DEF Calls
<1>4. Counted
  BY <1>3, FS_EmptySet DEF Init, Counted
<1>5. \A t \in Threads : Delegated(t) = {}
  BY <1>1 DEF Delegated
<1>6. Slots
  BY <1>2, <1>5 DEF Init, Slots, Typed
<1>. QED BY <1>2, <1>4, <1>6 DEF EntryInv, Init, ReturnsToCaller

LEMMA TypedAfterEnter ==
    ASSUME Typed, NEW call \in Frames, Enter(call), running' = running, spoiled' \in BOOLEAN
    PROVE  Typed'
<1>1. irq' \in [Threads -> BOOLEAN] /\ running' \in Threads
  BY DEF Enter, Typed
<1>2. \A t \in Threads : Len(stack'[t]) \in 0..MaxDepth
  <2>. TAKE t \in Threads
  <2>1. CASE t = running
    BY <2>1, EnterStack, EntryAssumption
  <2>2. CASE t # running
    BY <2>2, EnterStack DEF Typed
  <2>. QED BY <2>1, <2>2
<1>. QED BY <1>1, <1>2, EnterStack DEF Typed

LEMMA TypedAfterLeave ==
    ASSUME Typed, Leave, Depth > 0, irq' \in [Threads -> BOOLEAN], running' \in Threads,
           spoiled' \in BOOLEAN
    PROVE  Typed'
<1>1. \A t \in Threads : Len(stack'[t]) \in 0..MaxDepth
  <2>. TAKE t \in Threads
  <2>1. CASE t = running
    BY <2>1, LeaveStack, EntryAssumption
  <2>2. CASE t # running
    BY <2>2, LeaveStack DEF Typed
  <2>. QED BY <2>1, <2>2
<1>. QED BY <1>1, LeaveStack DEF Typed

\* The status word of the innermost call, of which the end of a call of OSExt
\* takes the IRQ bit.
LEMMA LastWord ==
    ASSUME Typed, Depth > 0
    PROVE  Last(stack[running]).spsr.irq \in BOOLEAN
<1>1. stack[running] \in Seq(Frames) /\ Len(stack[running]) \in 1..MaxDepth
  BY DEF Typed, Depth
<1>2. stack[running][Len(stack[running])] \in Frames
  BY <1>1
<1>. QED BY <1>2 DEF Last, Frames, Words

LEMMA NextInv == EntryInv /\ [Next]_vars => EntryInv'
<1>. SUFFICES ASSUME EntryInv, [Next]_vars PROVE EntryInv'
  OBVIOUS
<1>. USE DEF EntryInv
<1>0. Typed /\ Counted /\ Slots /\ ReturnsToCaller
  OBVIOUS
<1>. DEFINE own == [osext |-> TRUE, spsr |-> [thumb |-> FALSE, irq |-> irq[running]]]
<1>own. own \in Frames /\ own.osext
  BY <1>0 DEF Frames, Words, Typed
<1>1. CASE swi_handler \/ UnknownSyscall
  <2>1. Enter(own) /\ UNCHANGED <<running, slots, spoiled>> /\ mode' # "lost"
    BY <1>1 DEF swi_handler, UnknownSyscall, Enter
  <2>. HIDE DEF own
  <2>2. Typed'
    BY <1>0, <1>own, <2>1, TypedAfterEnter DEF Typed
  <2>3. Counted'
    BY <1>0, <1>own, <2>1, EnterCounted
  <2>4. Slots'
    BY <1>0, <1>own, <2>1, HandlerSlots
  <2>. QED BY <2>1, <2>2, <2>3, <2>4 DEF ReturnsToCaller
<1>2. CASE delegate
  <2>1. PICK thumb \in BOOLEAN :
          Enter([osext |-> FALSE, spsr |-> [thumb |-> thumb, irq |-> irq[running]]])
    BY <1>2 DEF delegate
  <2>. DEFINE call == [osext |-> FALSE, spsr |-> [thumb |-> thumb, irq |-> irq[running]]]
  <2>2. call \in Frames
    BY <1>0 DEF Frames, Words, Typed
  <2>3. Enter(call) /\ running' = running /\ mode' = mode /\ mode = "running"
    BY <1>2, <2>1 DEF delegate, Enter
  <2>4. spoiled' \in BOOLEAN
    BY <1>0, <1>2, Zenon DEF delegate, Typed
  <2>. HIDE DEF call
  <2>5. Typed'
    BY <1>0, <2>2, <2>3, <2>4, TypedAfterEnter
  <2>6. Counted'
    BY <1>0, <2>2, <2>3, EnterCounted
  <2>7. Slots'
    BY <1>0, <1>2, delegateSlots
  <2>. QED BY <2>3, <2>5, <2>6, <2>7 DEF ReturnsToCaller
<1>3. CASE ControlInterrupts
  <2>1. UNCHANGED <<stack, running, slots, __syscall_in_progress, mode, spoiled>>
    BY <1>3 DEF ControlInterrupts
  <2>2. irq' \in [Threads -> BOOLEAN]
    BY <1>0, <1>3 DEF ControlInterrupts, Typed
  <2>3. Typed'
    BY <1>0, <2>1, <2>2 DEF Typed
  <2>4. Counted'
    BY <1>0, <2>1 DEF Counted, Calls
  <2>5. Slots'
    BY <1>0, <2>1 DEF Slots, Delegated, Held, slots
  <2>. QED BY <1>0, <2>1, <2>3, <2>4, <2>5 DEF ReturnsToCaller
<1>4. CASE HandlerReturns
  <2>1. /\ Innermost(TRUE) /\ Leave /\ Depth > 0 /\ mode = "running"
        /\ UNCHANGED <<running, slots, mode, spoiled>>
        /\ irq' = [irq EXCEPT ![running] = Last(stack[running]).spsr.irq]
    BY <1>4 DEF HandlerReturns, Innermost
  <2>2. irq' \in [Threads -> BOOLEAN]
    BY <1>0, <2>1, LastWord DEF Typed
  <2>3. Typed'
    BY <1>0, <2>1, <2>2, TypedAfterLeave DEF Typed
  <2>4. Counted'
    BY <1>0, <2>1, LeaveCounted
  <2>5. Slots'
    BY <1>0, <2>1, HandlerSlots
  <2>. QED BY <2>1, <2>3, <2>4, <2>5 DEF ReturnsToCaller
<1>5. CASE delegate_end
  <2>1. Leave /\ Depth > 0 /\ UNCHANGED <<irq, running, spoiled>>
    BY <1>5 DEF delegate_end, Innermost
  <2>2. Typed'
    BY <1>0, <2>1, TypedAfterLeave DEF Typed
  <2>3. Counted'
    BY <1>0, <2>1, LeaveCounted
  <2>. QED BY <1>0, <1>5, <2>2, <2>3, delegate_endSlots DEF ReturnsToCaller
<1>6. CASE syscall_mark_as_finished
  <2>1. /\ Leave /\ Depth > 0 /\ mode = "running" /\ mode' = mode
        /\ running' \in Threads
        /\ irq' = [irq EXCEPT ![running] = Last(stack[running]).spsr.irq]
    BY <1>6 DEF syscall_mark_as_finished, Innermost
  <2>2. irq' \in [Threads -> BOOLEAN]
    BY <1>0, <2>1, LastWord DEF Typed
  <2>3. spoiled' \in BOOLEAN
    BY <1>0, <1>6, Zenon DEF syscall_mark_as_finished, Typed
  <2>4. Typed'
    BY <1>0, <2>1, <2>2, <2>3, TypedAfterLeave
  <2>5. Counted'
    BY <1>0, <2>1, LeaveCounted
  <2>6. Slots'
    BY <1>0, <1>6, syscall_mark_as_finishedSlots
  <2>. QED BY <2>1, <2>4, <2>5, <2>6 DEF ReturnsToCaller
<1>7. CASE Fiq
  <2>1. /\ UNCHANGED <<stack, irq, __syscall_in_progress, mode, spoiled>>
        /\ running' \in Threads
    BY <1>7 DEF Fiq
  <2>2. Typed' /\ Counted' /\ ReturnsToCaller'
    BY <1>0, <2>1 DEF Typed, Counted, Calls, ReturnsToCaller
  <2>. QED BY <1>0, <1>7, <2>2, FiqSlots
<1>8. CASE UNCHANGED vars
  <2>1. UNCHANGED <<stack, irq, running, slots, __syscall_in_progress, mode, spoiled>>
    BY <1>8 DEF vars
  <2>2. Typed' /\ Counted' /\ ReturnsToCaller'
    BY <1>0, <2>1 DEF Typed, Counted, Calls, ReturnsToCaller
  <2>3. Slots'
    BY <1>0, <2>1 DEF Slots, Delegated, Held, slots
  <2>. QED BY <2>2, <2>3
<1>. QED BY <1>1, <1>2, <1>3, <1>4, <1>5, <1>6, <1>7, <1>8 DEF Next

LEMMA EntryInvariant == Spec => []EntryInv
BY InitInv, NextInv, PTL DEF Spec
-----------------------------------------------------------------------------
(***************************************************************************)
(* Every call handed over to Ndless returns to its own caller, in the      *)
(* caller's instruction set: delegate_end reads the slot delegate wrote,   *)
(* for any number of threads and any nesting, unless a third delegated     *)
(* call or a thread blocking inside one has spoiled the slots.             *)
(***************************************************************************)
THEOREM ReturnsToCallerCorrect == Spec => []ReturnsToCaller
<1>1. EntryInv => ReturnsToCaller
  BY DEF EntryInv
<1>. QED BY <1>1, EntryInvariant, PTL

(***************************************************************************)
(* The slots hold exactly the callers of the delegated calls in progress,  *)
(* outermost first, and all of these calls are the running thread's: the   *)
(* counter that fiq_handler asks counts the calls of every thread, so the  *)
(* timeslice never takes the processor from the owner of a slot.           *)
(***************************************************************************)
THEOREM SlotsMatchCorrect == Spec => []SlotsMatch
<1>1. EntryInv => SlotsMatch
  BY DEF EntryInv, Slots, SlotsMatch, Held
<1>. QED BY <1>1, EntryInvariant, PTL
-----------------------------------------------------------------------------
(***************************************************************************)
(* A set of natural numbers has a least element: the form of induction     *)
(* used below.                                                             *)
(***************************************************************************)
LEMMA MinNat ==
    ASSUME NEW S, S \subseteq Nat, S # {}
    PROVE  \E n \in S : \A m \in S : n <= m
<1>1. PICK x \in S : \A y \in S : ~(<<y, x>> \in OpToRel(<, Nat))
  BY WFMin, NatLessThanWellFounded
<1>2. \A y \in S : ~(y < x)
  BY <1>1 DEF OpToRel
<1>. QED  BY <1>2
-----------------------------------------------------------------------------
(***************************************************************************)
(* Background. An owner of images is an object whose contents point to the *)
(* pixels: the image shown, the array of a slideshow, or, during an        *)
(* update, the images read so far.                                         *)
(***************************************************************************)
Pointers == Objs \union Runs \union {Wild}
Contents == {Free} \union Seq(Pointers)

\* The pixels the images of some objects point to.
DataOf(h, own) == {d \in Pointers : \E o \in own : \E i \in DOMAIN h[o] : h[o][i] = d}

FreeIn(h) == {o \in Objs : h[o] = Free}

\* No two images share their pixels, but for wild pointers.
Single(h, own) ==
    \A o, p \in own : \A i \in DOMAIN h[o], j \in DOMAIN h[p] :
      h[o][i] = h[p][j] => h[o][i] = Wild \/ (o = p /\ i = j)

\* The memory in use is that of the images own holds, and of the copies.
Clean(h, r, own, c) ==
    /\ h \in [Objs -> Contents]
    /\ own \subseteq Objs /\ c \subseteq Objs /\ own \cap c = {}
    /\ \A o \in own : h[o] \in Seq(Pointers)
    /\ DataOf(h, own) \cap (own \union c) = {}
    /\ r = DataOf(h, own) \cap Runs
    /\ \A o \in Objs : h[o] # Free <=> o \in own \union c \union DataOf(h, own)
    /\ Single(h, own)

\* The images of the first n files.
Kept(n) == {imgs[i] : i \in 1..n}

\* What is shown between updates.
ShownInv ==
    /\ image \in Objs \union {NULL}
    /\ Clean(heap, runs, {image} \ {NULL}, copied)
    /\ slideshow_index \in Nat /\ slideshow_length \in Nat
    /\ slideshow => image # NULL
    /\ image # NULL => /\ slideshow_index < Len(heap[image])
                       /\ slideshow => slideshow_length = Len(heap[image])

\* The images read so far, and room for the others.
UpdateInv(n) ==
    /\ image = NULL /\ slideshow = FALSE
    /\ slideshow_length = 0 /\ slideshow_index = 0
    /\ imgs \in [Files -> Objs \union {NULL}]
    /\ \A i \in Files : imgs[i] # NULL <=> i <= n
    /\ \A i, j \in 1..n : imgs[i] = imgs[j] => i = j
    /\ \A i \in 1..n : Len(heap[imgs[i]]) = 1
    /\ Clean(heap, runs, Kept(n), copied)
    /\ Cardinality(FreeIn(heap)) >= UpdateNeeds - 2 * n

\* After n images: the files are not at their end, or ended with image n.
FilesCounted(n) ==
    /\ file \in Files
    /\ \/ bk = TRUE /\ length = n /\ n < 4 /\ (pc = "read" => n < file)
       \/ bk = FALSE /\ length = 0 /\ n = IF pc = "read" THEN file - 1 ELSE 4

\* The inductive invariant: by where the module is in an update.
BackgroundInv ==
    /\ pc \in {"none", "idle", "read", "set"}
    /\ pc \in {"none", "idle"} => ShownInv
    /\ pc \in {"read", "set"} => \E n \in 0..4 : FilesCounted(n) /\ UpdateInv(n)
-----------------------------------------------------------------------------
\* kmalloc returns a free object, as long as there is one.
LEMMA KmallocFree ==
    ASSUME NEW h, FreeIn(h) # {}
    PROVE  kmalloc(h) \in FreeIn(h)
<1>. DEFINE P(o) == h[o] = Free /\ \A p \in Objs : h[p] = Free => o <= p
<1>1. PICK n \in FreeIn(h) : \A m \in FreeIn(h) : n <= m
  <2>1. FreeIn(h) \subseteq Nat
    BY BackgroundAssumption DEF FreeIn
  <2>. QED  BY <2>1, MinNat
<1>2. \E o \in Objs : P(o)
  BY <1>1 DEF FreeIn
<1>3. kmalloc(h) = CHOOSE o \in Objs : P(o)
  BY DEF kmalloc
<1>. HIDE DEF P
<1>4. kmalloc(h) \in Objs /\ P(kmalloc(h))
  BY <1>2, <1>3, Zenon
<1>. QED  BY <1>4 DEF P, FreeIn

LEMMA FreeFinite ==
    ASSUME NEW h
    PROVE  IsFiniteSet(FreeIn(h)) /\ Cardinality(FreeIn(h)) \in Nat
<1>1. FreeIn(h) \subseteq Objs /\ IsFiniteSet(Objs)
  BY BackgroundAssumption DEF FreeIn
<1>2. IsFiniteSet(FreeIn(h))
  BY <1>1, FS_Subset
<1>. QED  BY <1>2, FS_CardinalityType

\* Taking one object.
LEMMA TakeOne ==
    ASSUME NEW h, NEW g, NEW o \in FreeIn(h), FreeIn(h) \ {o} \subseteq FreeIn(g)
    PROVE  Cardinality(FreeIn(g)) >= Cardinality(FreeIn(h)) - 1
<1>1. IsFiniteSet(FreeIn(h)) /\ IsFiniteSet(FreeIn(g))
      /\ Cardinality(FreeIn(h)) \in Nat /\ Cardinality(FreeIn(g)) \in Nat
  BY FreeFinite
<1>2. IsFiniteSet(FreeIn(h) \ {o}) /\ Cardinality(FreeIn(h) \ {o}) = Cardinality(FreeIn(h)) - 1
  BY <1>1, FS_RemoveElement
<1>3. Cardinality(FreeIn(h) \ {o}) <= Cardinality(FreeIn(g))
  BY <1>1, FS_Subset
<1>. QED  BY <1>1, <1>2, <1>3

\* The contents of an object in use.
LEMMA NotFree ==
    ASSUME NEW s \in Seq(Pointers)
    PROVE  s # Free
BY BackgroundAssumption DEF Pointers

LEMMA SmallContents == <<>> \in Seq(Pointers) /\ \A d \in Pointers : <<d>> \in Seq(Pointers)
OBVIOUS
-----------------------------------------------------------------------------
\* How load_bmp_file leaves the memory: unchanged, or with one image more.
NoImage(res, h, r) == res.img = NULL /\ res.heap = h /\ res.runs = r

\* The pixels lie in an object, or else in a run of pages or nowhere.
SmallImage(res, h, r) ==
    \E data \in FreeIn(h) :
      /\ res.img \in FreeIn(h) /\ data # res.img
      /\ res.heap = [h EXCEPT ![res.img] = <<data>>, ![data] = <<>>]
      /\ res.runs = r

LargeImage(res, h, r) ==
    \E d \in (Runs \ r) \union {Wild} :
      /\ res.img \in FreeIn(h)
      /\ res.heap = [h EXCEPT ![res.img] = <<d>>]
      /\ res.runs = r \union ({d} \ {Wild})

\* What create_img565 returns.
LEMMA Created ==
    ASSUME NEW h \in [Objs -> Contents], NEW r, Cardinality(FreeIn(h)) >= 2,
           NEW c \in create_img565(h, r)
    PROVE  SmallImage(c, h, r) \/ LargeImage(c, h, r)
<1>. DEFINE img == kmalloc(h)
            taken == [h EXCEPT ![img] = <<>>]
            data == kmalloc(taken)
<1>1. \/ c = [img |-> img, runs |-> r, heap |-> [taken EXCEPT ![img] = <<data>>,
                                                              ![data] = <<>>]]
      \/ \E d \in (Runs \ r) \union {Wild} :
           c = [img |-> img, runs |-> r \union ({d} \ {Wild}),
                heap |-> [taken EXCEPT ![img] = <<d>>]]
  BY DEF create_img565
<1>2. img \in FreeIn(h)
  <2>1. FreeIn(h) # {}
    BY FS_EmptySet
  <2>. QED  BY <2>1, KmallocFree
<1>. HIDE DEF img
<1>3. FreeIn(taken) = FreeIn(h) \ {img}
  BY <1>2, NotFree, SmallContents DEF FreeIn
<1>4. data \in FreeIn(h) \ {img}
  <2>1. Cardinality(FreeIn(h) \ {img}) >= 1
    <3>1. Cardinality(FreeIn(h) \ {img}) = Cardinality(FreeIn(h)) - 1
      BY <1>2, FreeFinite, FS_RemoveElement
    <3>. QED  BY <3>1, FreeFinite
  <2>2. FreeIn(h) \ {img} # {}
    BY <2>1, FS_EmptySet
  <2>. QED  BY <1>3, <2>2, KmallocFree
<1>. HIDE DEF data
<1>5. ASSUME NEW x PROVE [taken EXCEPT ![img] = x] = [h EXCEPT ![img] = x]
  BY <1>2 DEF FreeIn
<1>6. CASE c = [img |-> img, runs |-> r, heap |-> [taken EXCEPT ![img] = <<data>>,
                                                                ![data] = <<>>]]
  <2>1. c.img = img /\ c.runs = r
    BY <1>6
  <2>2. c.heap = [h EXCEPT ![img] = <<data>>, ![data] = <<>>]
    BY <1>2, <1>4, <1>6 DEF FreeIn
  <2>. QED  BY <1>2, <1>4, <2>1, <2>2 DEF SmallImage
<1>7. ASSUME NEW d \in (Runs \ r) \union {Wild},
             c = [img |-> img, runs |-> r \union ({d} \ {Wild}),
                  heap |-> [taken EXCEPT ![img] = <<d>>]]
      PROVE  LargeImage(c, h, r)
  <2>1. c.img = img /\ c.runs = r \union ({d} \ {Wild})
    BY <1>7
  <2>2. c.heap = [h EXCEPT ![img] = <<d>>]
    BY <1>5, <1>7
  <2>. QED  BY <1>2, <2>1, <2>2 DEF LargeImage
<1>. QED  BY <1>1, <1>6, <1>7

\* Destroying the image just created leaves nothing behind.
LEMMA CreatedDestroyed ==
    ASSUME NEW h \in [Objs -> Contents], NEW r, r \subseteq Runs, NEW c,
           SmallImage(c, h, r) \/ LargeImage(c, h, r), NEW m,
           m = Destroy([heap |-> c.heap, runs |-> c.runs], c.img)
    PROVE  m.heap = h /\ m.runs = r
<1>. DEFINE data == ToSet(c.heap[c.img])
<1>1. c.img \in Objs /\ h[c.img] = Free /\ c.img # NULL
  BY BackgroundAssumption DEF SmallImage, LargeImage, FreeIn
<1>2. /\ m.heap = [o \in Objs |-> IF o = c.img \/ o \in data THEN Free ELSE c.heap[o]]
      /\ m.runs = c.runs \ data
  BY <1>1 DEF Destroy
<1>3. ASSUME NEW d PROVE ToSet(<<d>>) = {d}
  BY DEF ToSet
<1>4. CASE SmallImage(c, h, r)
  <2>1. PICK x \in FreeIn(h) : /\ x # c.img
                               /\ c.heap = [h EXCEPT ![c.img] = <<x>>, ![x] = <<>>]
                               /\ c.runs = r
    BY <1>4 DEF SmallImage
  <2>2. x \in Objs /\ h[x] = Free /\ x \notin Runs
    BY <2>1, BackgroundAssumption DEF FreeIn
  <2>3. c.heap[c.img] = <<x>>
    BY <1>1, <2>1, <2>2
  <2>4. data = {x}
    BY <2>3, <1>3
  <2>. HIDE DEF data
  <2>5. m.runs = r
    <3>1. r \ {x} = r
      BY <2>2
    <3>. QED  BY <1>2, <2>1, <2>4, <3>1
  <2>6. \A o \in Objs : m.heap[o] = h[o]
    BY <1>1, <1>2, <2>1, <2>2, <2>4
  <2>7. m.heap = h
    BY <1>2, <2>6
  <2>. QED  BY <2>5, <2>7
<1>5. CASE LargeImage(c, h, r)
  <2>1. PICK d \in (Runs \ r) \union {Wild} :
          /\ c.heap = [h EXCEPT ![c.img] = <<d>>]
          /\ c.runs = r \union ({d} \ {Wild})
    BY <1>5 DEF LargeImage
  <2>2. d \notin Objs /\ d \notin r
    BY <2>1, BackgroundAssumption
  <2>3. c.heap[c.img] = <<d>>
    BY <1>1, <2>1
  <2>4. data = {d}
    BY <2>3, <1>3
  <2>. HIDE DEF data
  <2>5. m.runs = r
    <3>1. (r \union ({d} \ {Wild})) \ {d} = r
      BY <2>2
    <3>. QED  BY <1>2, <2>1, <2>4, <3>1
  <2>6. \A o \in Objs : m.heap[o] = h[o]
    BY <1>1, <1>2, <2>1, <2>2, <2>4
  <2>7. m.heap = h
    BY <1>2, <2>6
  <2>. QED  BY <2>5, <2>7
<1>. QED  BY <1>4, <1>5

\* load_bmp_file gives back what it took for the rest of the file, and the
\* image where it refuses the file.
LEMMA LoadResults ==
    ASSUME NEW h \in [Objs -> Contents], NEW r, r \subseteq Runs,
           Cardinality(FreeIn(h)) >= 2, NEW res \in load_bmp_file(h, r)
    PROVE  NoImage(res, h, r) \/ SmallImage(res, h, r) \/ LargeImage(res, h, r)
<1>1. \/ res = [img |-> NULL, heap |-> h, runs |-> r]
      \/ \E rest \in Runs \ r : \E c \in create_img565(h, r \union {rest}) :
           \/ res = [c EXCEPT !.runs = @ \ {rest}]
           \/ LET m == Destroy([heap |-> c.heap, runs |-> c.runs], c.img)
              IN res = [img |-> NULL, heap |-> m.heap, runs |-> m.runs \ {rest}]
  BY DEF load_bmp_file
<1>2. CASE res = [img |-> NULL, heap |-> h, runs |-> r]
  BY <1>2 DEF NoImage
<1>3. ASSUME NEW rest \in Runs \ r, NEW c \in create_img565(h, r \union {rest})
      PROVE  /\ SmallImage(c, h, r \union {rest}) \/ LargeImage(c, h, r \union {rest})
             /\ DOMAIN c = {"img", "runs", "heap"}
  <2>1. SmallImage(c, h, r \union {rest}) \/ LargeImage(c, h, r \union {rest})
    BY Created
  <2>2. DOMAIN c = {"img", "runs", "heap"}
    BY DEF create_img565
  <2>. QED  BY <2>1, <2>2
<1>4. ASSUME NEW rest \in Runs \ r, NEW c \in create_img565(h, r \union {rest}),
             res = [c EXCEPT !.runs = @ \ {rest}]
      PROVE  SmallImage(res, h, r) \/ LargeImage(res, h, r)
  <2>1. res.img = c.img /\ res.heap = c.heap /\ res.runs = c.runs \ {rest}
    BY <1>3, <1>4
  <2>2. CASE SmallImage(c, h, r \union {rest})
    <3>1. (r \union {rest}) \ {rest} = r
      OBVIOUS
    <3>. QED  BY <2>1, <2>2, <3>1 DEF SmallImage
  <2>3. CASE LargeImage(c, h, r \union {rest})
    <3>1. PICK d \in (Runs \ (r \union {rest})) \union {Wild} :
            /\ c.img \in FreeIn(h)
            /\ c.heap = [h EXCEPT ![c.img] = <<d>>]
            /\ c.runs = (r \union {rest}) \union ({d} \ {Wild})
      BY <2>3 DEF LargeImage
    <3>2. d # rest \/ d = Wild
      BY <3>1
    <3>3. res.runs = r \union ({d} \ {Wild})
      BY <2>1, <3>1, <3>2
    <3>4. d \in (Runs \ r) \union {Wild}
      BY <3>1
    <3>. QED  BY <2>1, <3>1, <3>3, <3>4 DEF LargeImage
  <2>. QED  BY <1>3, <2>2, <2>3
<1>5. ASSUME NEW rest \in Runs \ r, NEW c \in create_img565(h, r \union {rest}),
             NEW m, m = Destroy([heap |-> c.heap, runs |-> c.runs], c.img),
             res = [img |-> NULL, heap |-> m.heap, runs |-> m.runs \ {rest}]
      PROVE  NoImage(res, h, r)
  <2>1. m.heap = h /\ m.runs = r \union {rest}
    BY <1>3, <1>5, CreatedDestroyed
  <2>. QED  BY <1>5, <2>1 DEF NoImage
<1>. QED  BY <1>1, <1>2, <1>4, <1>5
-----------------------------------------------------------------------------
LEMMA PointersOf ==
    ASSUME NEW h, NEW o, h[o] \in Seq(Pointers)
    PROVE  ToSet(h[o]) = DataOf(h, {o}) /\ \A i \in DOMAIN h[o] : h[o][i] \in Pointers
BY DEF ToSet, DataOf

LEMMA NoData == ASSUME NEW h PROVE DataOf(h, {}) = {} /\ Single(h, {})
BY DEF DataOf, Single

\* Destroying what is shown leaves the copies.
LEMMA CleanReleased ==
    ASSUME NEW h, NEW r, NEW c, NEW im \in Objs \union {NULL},
           Clean(h, r, {im} \ {NULL}, c),
           NEW m, m = Destroy([heap |-> h, runs |-> r], im)
    PROVE  Clean(m.heap, m.runs, {}, c) /\ FreeIn(h) \subseteq FreeIn(m.heap)
<1>1. CASE im = NULL
  <2>1. {im} \ {NULL} = {} /\ m.heap = h /\ m.runs = r
    BY <1>1 DEF Destroy
  <2>2. Clean(m.heap, m.runs, {}, c)
    BY <2>1, Zenon
  <2>. QED  BY <2>1, <2>2
<1>2. CASE im # NULL
  <2>1. {im} \ {NULL} = {im} /\ im \in Objs
    BY <1>2
  <2>. DEFINE D == DataOf(h, {im})
  <2>2. /\ h \in [Objs -> Contents] /\ c \subseteq Objs /\ im \notin c
        /\ h[im] \in Seq(Pointers)
        /\ D \cap ({im} \union c) = {}
        /\ r = D \cap Runs
        /\ \A o \in Objs : h[o] # Free <=> o \in {im} \union c \union D
    <3>1. Clean(h, r, {im}, c)
      BY <2>1, Zenon
    <3>. QED  BY <3>1 DEF Clean
  <2>3. ToSet(h[im]) = D
    BY <2>2, PointersOf
  <2>. HIDE DEF D
  <2>4. /\ m.heap = [o \in Objs |-> IF o = im \/ o \in D THEN Free ELSE h[o]]
        /\ m.runs = r \ D
    BY <1>2, <2>3 DEF Destroy
  <2>5. m.runs = {}
    BY <2>2, <2>4
  <2>6. m.heap \in [Objs -> Contents]
    BY <2>2, <2>4 DEF Contents
  <2>7. \A o \in Objs : m.heap[o] # Free <=> o \in c
    BY <2>2, <2>4
  <2>8. Clean(m.heap, m.runs, {}, c)
    BY <2>2, <2>5, <2>6, <2>7, NoData DEF Clean
  <2>9. FreeIn(h) \subseteq FreeIn(m.heap)
    BY <2>4 DEF FreeIn
  <2>. QED  BY <2>8, <2>9
<1>. QED  BY <1>1, <1>2

\* One image more, whatever its pixels lie in.
Added(h, r, own, c, img, d, g, q) ==
    /\ img \in FreeIn(h) /\ d \in Pointers /\ d # img
    /\ d \notin own \union c
    /\ d \in DataOf(h, own) => d = Wild
    /\ g \in [Objs -> Contents]
    /\ g[img] = <<d>>
    /\ \A o \in Objs : o # img /\ o # d => g[o] = h[o]
    /\ d \in Objs => g[d] # Free
    /\ q = r \union ({d} \cap Runs)

\* The new image is owned like the others.
LEMMA CleanGrows ==
    ASSUME NEW h, NEW r, NEW own, NEW c, Clean(h, r, own, c),
           NEW img, NEW d, NEW g, NEW q, Added(h, r, own, c, img, d, g, q)
    PROVE  Clean(g, q, own \union {img}, c) /\ \A o \in own : g[o] = h[o]
<1>. DEFINE D == DataOf(h, own)
            E == DataOf(g, own \union {img})
<1>0. /\ img \in FreeIn(h) /\ d \in Pointers /\ d # img
      /\ d \notin own \union c
      /\ d \in D => d = Wild
      /\ g \in [Objs -> Contents]
      /\ g[img] = <<d>>
      /\ \A o \in Objs : o # img /\ o # d => g[o] = h[o]
      /\ d \in Objs => g[d] # Free
      /\ q = r \union ({d} \cap Runs)
  BY DEF Added
<1>1. /\ own \subseteq Objs /\ c \subseteq Objs /\ own \cap c = {}
      /\ \A o \in own : h[o] \in Seq(Pointers)
      /\ D \cap (own \union c) = {}
      /\ r = D \cap Runs
      /\ \A o \in Objs : h[o] # Free <=> o \in own \union c \union D
      /\ Single(h, own)
  BY DEF Clean
<1>2. img \in Objs /\ h[img] = Free /\ img \notin own \union c \union D
  BY <1>0, <1>1 DEF FreeIn
<1>3. \A o \in own : g[o] = h[o]
  BY <1>0, <1>1, <1>2
<1>4. g[img] \in Seq(Pointers) /\ DOMAIN g[img] = {1} /\ g[img][1] = d /\ g[img] # Free
  <2>1. <<d>> \in Seq(Pointers)
    BY <1>0, SmallContents
  <2>2. <<d>> # Free
    BY <2>1, NotFree
  <2>3. DOMAIN <<d>> = {1} /\ <<d>>[1] = d
    OBVIOUS
  <2>. QED  BY <1>0, <2>1, <2>2, <2>3
<1>5. E = D \union {d}
  BY <1>0, <1>3, <1>4 DEF DataOf
<1>6. \A o \in own \union {img} : g[o] \in Seq(Pointers)
  BY <1>1, <1>3, <1>4
<1>7. Single(g, own \union {img})
  <2>1. ASSUME NEW o \in own, NEW i \in DOMAIN g[o]
        PROVE  g[o][i] \in D
    BY <2>1, <1>1, <1>3, PointersOf DEF DataOf
  <2>2. ASSUME NEW o \in own \union {img}, NEW p \in own \union {img},
               NEW i \in DOMAIN g[o], NEW j \in DOMAIN g[p], g[o][i] = g[p][j]
        PROVE  g[o][i] = Wild \/ (o = p /\ i = j)
    <3>1. CASE o = img /\ p = img
      BY <3>1, <1>4
    <3>2. CASE o \in own /\ p = img
      BY <3>2, <2>1, <2>2, <1>4, <1>0
    <3>3. CASE o = img /\ p \in own
      BY <3>3, <2>1, <2>2, <1>4, <1>0
    <3>4. CASE o \in own /\ p \in own
      BY <3>4, <2>2, <1>1, <1>3 DEF Single
    <3>. QED  BY <3>1, <3>2, <3>3, <3>4
  <2>. QED  BY <2>2 DEF Single
<1>. HIDE DEF D, E
<1>8. E \cap ((own \union {img}) \union c) = {}
  BY <1>0, <1>1, <1>2, <1>5
<1>9. q = E \cap Runs
  BY <1>0, <1>1, <1>5
<1>10. \A o \in Objs : g[o] # Free <=> o \in (own \union {img}) \union c \union E
  <2>. TAKE o \in Objs
  <2>1. CASE o = img
    BY <2>1, <1>4
  <2>2. CASE o = d /\ o # img
    BY <2>2, <1>0, <1>5
  <2>3. CASE o # d /\ o # img
    BY <2>3, <1>0, <1>1, <1>5
  <2>. QED  BY <2>1, <2>2, <2>3
<1>11. own \union {img} \subseteq Objs /\ (own \union {img}) \cap c = {}
  BY <1>1, <1>2
<1>. QED  BY <1>0, <1>1, <1>3, <1>6, <1>7, <1>8, <1>9, <1>10, <1>11 DEF Clean, E

\* So is the one load_bmp_file returns; it takes two objects at most.
LEMMA CleanLoaded ==
    ASSUME NEW h, NEW r, NEW own, NEW c, Clean(h, r, own, c), NEW res,
           SmallImage(res, h, r) \/ LargeImage(res, h, r)
    PROVE  /\ Clean(res.heap, res.runs, own \union {res.img}, c)
           /\ res.img \in Objs \ own
           /\ Len(res.heap[res.img]) = 1
           /\ \A o \in own : res.heap[o] = h[o]
           /\ Cardinality(FreeIn(res.heap)) >= Cardinality(FreeIn(h)) - 2
<1>1. /\ h \in [Objs -> Contents] /\ r = DataOf(h, own) \cap Runs
      /\ own \subseteq Objs /\ c \subseteq Objs
      /\ \A o \in Objs : h[o] # Free <=> o \in own \union c \union DataOf(h, own)
  BY DEF Clean
<1>2. Runs \cap Objs = {} /\ Wild \notin Runs /\ Wild \notin Objs
  BY BackgroundAssumption
<1>3. CASE SmallImage(res, h, r)
  <2>1. PICK d \in FreeIn(h) :
          /\ res.img \in FreeIn(h) /\ d # res.img
          /\ res.heap = [h EXCEPT ![res.img] = <<d>>, ![d] = <<>>]
          /\ res.runs = r
    BY <1>3 DEF SmallImage
  <2>2. d \in Objs /\ res.img \in Objs /\ h[d] = Free /\ h[res.img] = Free
    BY <2>1 DEF FreeIn
  <2>3. /\ d \in Pointers /\ d \notin own \union c /\ d \notin DataOf(h, own)
        /\ {d} \cap Runs = {} /\ res.img \notin own
    BY <1>1, <1>2, <2>2 DEF Pointers
  <2>. DEFINE im == res.img
              g == res.heap
  <2>4. /\ g \in [Objs -> Contents] /\ g[im] = <<d>> /\ g[d] = <<>>
        /\ \A o \in Objs : o # im /\ o # d => g[o] = h[o]
    <3>1. <<d>> \in Contents /\ <<>> \in Contents
      BY <2>3, SmallContents DEF Contents
    <3>. QED  BY <1>1, <2>1, <2>2, <3>1
  <2>5. g[d] # Free /\ res.runs = r \union ({d} \cap Runs)
    BY <2>1, <2>3, <2>4, NotFree, SmallContents
  <2>. HIDE DEF g, im
  <2>6. im \in FreeIn(h) /\ d # im
    BY <2>1 DEF im
  <2>7. Clean(g, res.runs, own \union {im}, c) /\ \A o \in own : g[o] = h[o]
    <3>1. Added(h, r, own, c, im, d, g, res.runs)
      BY <2>3, <2>4, <2>5, <2>6 DEF Added
    <3>. QED  BY <3>1, CleanGrows
  <2>8. Cardinality(FreeIn(g)) >= Cardinality(FreeIn(h)) - 2
    <3>. DEFINE k == [h EXCEPT ![im] = <<d>>]
    <3>1. FreeIn(h) \ {im} \subseteq FreeIn(k) /\ d \in FreeIn(k)
      BY <1>1, <2>2, <2>6 DEF FreeIn, im
    <3>2. FreeIn(k) \ {d} \subseteq FreeIn(g)
      BY <1>1, <2>2, <2>4, <2>6, NotFree, SmallContents, <2>3 DEF FreeIn, im
    <3>. HIDE DEF k
    <3>3. Cardinality(FreeIn(k)) >= Cardinality(FreeIn(h)) - 1
      BY <3>1, <2>6, TakeOne
    <3>4. Cardinality(FreeIn(g)) >= Cardinality(FreeIn(k)) - 1
      BY <3>1, <3>2, TakeOne
    <3>. QED  BY <3>3, <3>4, FreeFinite
  <2>9. Len(g[im]) = 1
    BY <2>4
  <2>. QED  BY <2>2, <2>3, <2>7, <2>8, <2>9 DEF g, im
<1>4. CASE LargeImage(res, h, r)
  <2>1. PICK d \in (Runs \ r) \union {Wild} :
          /\ res.img \in FreeIn(h)
          /\ res.heap = [h EXCEPT ![res.img] = <<d>>]
          /\ res.runs = r \union ({d} \ {Wild})
    BY <1>4 DEF LargeImage
  <2>2. res.img \in Objs /\ h[res.img] = Free
    BY <2>1 DEF FreeIn
  <2>3. /\ d \in Pointers /\ d \notin own \union c
        /\ d \in DataOf(h, own) => d = Wild
        /\ {d} \cap Runs = {d} \ {Wild} /\ res.img \notin own
        /\ d \notin Objs
    BY <1>1, <1>2, <2>1, <2>2 DEF Pointers
  <2>. DEFINE im == res.img
              g == res.heap
  <2>4. /\ g \in [Objs -> Contents] /\ g[im] = <<d>>
        /\ \A o \in Objs : o # im => g[o] = h[o]
    BY <1>1, <2>1, <2>2, <2>3, SmallContents DEF Contents
  <2>5. res.runs = r \union ({d} \cap Runs)
    BY <2>1, <2>3
  <2>. HIDE DEF g, im
  <2>6. im \in FreeIn(h) /\ d # im
    BY <2>1, <2>2, <2>3 DEF im
  <2>7. Clean(g, res.runs, own \union {im}, c) /\ \A o \in own : g[o] = h[o]
    <3>1. Added(h, r, own, c, im, d, g, res.runs)
      BY <2>3, <2>4, <2>5, <2>6 DEF Added
    <3>. QED  BY <3>1, CleanGrows
  <2>8. Cardinality(FreeIn(g)) >= Cardinality(FreeIn(h)) - 2
    <3>1. FreeIn(h) \ {im} \subseteq FreeIn(g)
      BY <2>4 DEF FreeIn
    <3>2. Cardinality(FreeIn(g)) >= Cardinality(FreeIn(h)) - 1
      BY <3>1, <2>6, TakeOne
    <3>. QED  BY <3>2, FreeFinite
  <2>9. Len(g[im]) = 1
    BY <2>4
  <2>. QED  BY <2>2, <2>3, <2>7, <2>8, <2>9 DEF g, im
<1>. QED  BY <1>3, <1>4

\* The images of several objects become those of one array.
ArrayOf(h, own, n, f, array, g) ==
    /\ n \in Nat
    /\ own = {f[i] : i \in 1..n}
    /\ \A i, j \in 1..n : f[i] = f[j] => i = j
    /\ \A i \in 1..n : Len(h[f[i]]) = 1
    /\ array \in FreeIn(h)
    /\ g = [o \in Objs |-> CASE o = array -> [i \in 1..n |-> h[f[i]][1]]
                             [] o \in own -> <<>>
                             [] OTHER -> h[o]]

\* The array owns the pixels, and the structs copied are forgotten.
LEMMA CleanCopied ==
    ASSUME NEW h, NEW r, NEW own, NEW c, Clean(h, r, own, c),
           NEW n, NEW f, NEW array, NEW g, ArrayOf(h, own, n, f, array, g)
    PROVE  /\ Clean(g, r, {array}, c \union own)
           /\ Len(g[array]) = n
           /\ array \in Objs
<1>. DEFINE D == DataOf(h, own)
            E == DataOf(g, {array})
            s == [i \in 1..n |-> h[f[i]][1]]
<1>. USE DEF ArrayOf
<1>1. /\ h \in [Objs -> Contents]
      /\ own \subseteq Objs /\ c \subseteq Objs /\ own \cap c = {}
      /\ \A o \in own : h[o] \in Seq(Pointers)
      /\ D \cap (own \union c) = {}
      /\ r = D \cap Runs
      /\ \A o \in Objs : h[o] # Free <=> o \in own \union c \union D
      /\ Single(h, own)
  BY DEF Clean
<1>2. array \in Objs /\ h[array] = Free /\ array \notin own \union c \union D
  BY <1>1 DEF FreeIn
<1>3. ASSUME NEW i \in 1..n
      PROVE  f[i] \in own /\ DOMAIN h[f[i]] = {1} /\ h[f[i]][1] \in Pointers
  <2>1. f[i] \in own
    OBVIOUS
  <2>2. h[f[i]] \in Seq(Pointers) /\ Len(h[f[i]]) = 1
    BY <1>1, <2>1
  <2>3. DOMAIN h[f[i]] = {1} /\ h[f[i]][1] \in Pointers
    <3>. DEFINE w == h[f[i]]
    <3>. HIDE DEF w
    <3>1. w \in Seq(Pointers) /\ Len(w) = 1
      BY <2>2 DEF w
    <3>2. DOMAIN w = {1} /\ w[1] \in Pointers
      BY <3>1
    <3>. QED  BY <3>2 DEF w
  <2>. QED  BY <2>1, <2>3
<1>4. s \in Seq(Pointers) /\ Len(s) = n /\ DOMAIN s = 1..n
  BY <1>3
<1>5. g[array] = s
  BY <1>2
<1>6. /\ \A o \in own : g[o] = <<>>
      /\ \A o \in Objs : o # array /\ o \notin own => g[o] = h[o]
  BY <1>1, <1>2
<1>7. E = D
  <2>1. ASSUME NEW d \in D PROVE d \in E
    <3>1. PICK o \in own : \E i \in DOMAIN h[o] : h[o][i] = d
      BY DEF DataOf
    <3>2. PICK i \in 1..n : o = f[i]
      OBVIOUS
    <3>3. h[o][1] = d /\ d \in Pointers
      BY <1>3, <3>1, <3>2 DEF DataOf
    <3>4. s[i] = d
      BY <3>2, <3>3
    <3>. HIDE DEF s
    <3>. QED  BY <1>4, <1>5, <3>3, <3>4 DEF DataOf
  <2>2. ASSUME NEW d \in E PROVE d \in D
    <3>1. PICK i \in DOMAIN s : s[i] = d
      BY <1>5 DEF DataOf
    <3>2. i \in 1..n /\ h[f[i]][1] = d /\ d \in Pointers
      BY <1>4, <3>1 DEF DataOf
    <3>. QED  BY <1>3, <3>2 DEF DataOf
  <2>. QED  BY <2>1, <2>2
<1>8. Single(g, {array})
  <2>1. ASSUME NEW i \in 1..n, NEW j \in 1..n, s[i] = s[j], s[i] # Wild
        PROVE  i = j
    <3>1. h[f[i]][1] = h[f[j]][1] /\ h[f[i]][1] # Wild
      BY <2>1
    <3>2. f[i] = f[j]
      BY <1>1, <1>3, <3>1 DEF Single
    <3>. QED  BY <3>2
  <2>. HIDE DEF s
  <2>. QED  BY <1>4, <1>5, <2>1 DEF Single
<1>9. g \in [Objs -> Contents]
  <2>1. ASSUME NEW o \in Objs PROVE g[o] \in Contents
    <3>1. CASE o = array
      BY <3>1, <1>4, <1>5 DEF Contents
    <3>2. CASE o # array /\ o \in own
      BY <3>2, <1>6, SmallContents DEF Contents
    <3>3. CASE o # array /\ o \notin own
      BY <3>3, <1>1, <1>6
    <3>. QED  BY <3>1, <3>2, <3>3
  <2>2. g = [o \in Objs |-> g[o]]
    OBVIOUS
  <2>. HIDE DEF s
  <2>. QED  BY <2>1, <2>2
<1>. HIDE DEF s, D, E
<1>10. \A o \in Objs : g[o] # Free <=> o \in {array} \union (c \union own) \union E
  <2>. TAKE o \in Objs
  <2>1. CASE o = array
    BY <2>1, <1>4, <1>5, NotFree
  <2>2. CASE o # array /\ o \in own
    BY <2>2, <1>6, NotFree, SmallContents
  <2>3. CASE o # array /\ o \notin own
    BY <2>3, <1>1, <1>6, <1>7
  <2>. QED  BY <2>1, <2>2, <2>3
<1>11. /\ {array} \subseteq Objs /\ c \union own \subseteq Objs
       /\ {array} \cap (c \union own) = {}
       /\ E \cap ({array} \union (c \union own)) = {}
       /\ r = E \cap Runs
  BY <1>1, <1>2, <1>7
<1>12. \A o \in {array} : g[o] \in Seq(Pointers)
  BY <1>4, <1>5
<1>13. Clean(g, r, {array}, c \union own)
  BY <1>8, <1>9, <1>10, <1>11, <1>12 DEF Clean, E
<1>. QED  BY <1>2, <1>4, <1>5, <1>13
-----------------------------------------------------------------------------
LEMMA BackgroundInitially == BackgroundInit => BackgroundInv
<1>. SUFFICES ASSUME BackgroundInit PROVE BackgroundInv
  OBVIOUS
<1>1. Clean(heap, runs, {}, copied)
  <2>1. heap \in [Objs -> Contents] /\ \A o \in Objs : heap[o] = Free
    BY DEF BackgroundInit, Contents
  <2>. QED  BY <2>1, NoData DEF BackgroundInit, Clean
<1>2. {image} \ {NULL} = {}
  BY DEF BackgroundInit
<1>. QED  BY <1>1, <1>2 DEF BackgroundInit, BackgroundInv, ShownInv

\* Release and unset, at the start of an update and at the end of the module.
LEMMA AllReleased ==
    ASSUME ShownInv, Release, UNCHANGED copied
    PROVE  Clean(heap', runs', {}, copied') /\ FreeIn(heap) \subseteq FreeIn(heap')
<1>1. PICK m : m = Destroy([heap |-> heap, runs |-> runs], image)
  OBVIOUS
<1>2. heap' = m.heap /\ runs' = m.runs
  BY <1>1 DEF Release
<1>3. image \in Objs \union {NULL} /\ Clean(heap, runs, {image} \ {NULL}, copied)
  BY DEF ShownInv
<1>4. Clean(m.heap, m.runs, {}, copied) /\ FreeIn(heap) \subseteq FreeIn(m.heap)
  BY <1>1, <1>3, CleanReleased
<1>. QED  BY <1>2, <1>4

LEMMA KeptNone == Kept(0) = {}
BY DEF Kept

\* An update starts with nothing shown and room for all files.
LEMMA UpdateStarts ==
    ASSUME ShownInv, Room, StartUpdate
    PROVE  BackgroundInv'
<1>1. Clean(heap', runs', {}, copied') /\ FreeIn(heap) \subseteq FreeIn(heap')
  BY AllReleased DEF StartUpdate
<1>2. Cardinality(FreeIn(heap')) >= 9
  <2>1. Cardinality(FreeIn(heap)) >= 9
    BY DEF Room, FreeIn, UpdateNeeds
  <2>2. /\ IsFiniteSet(FreeIn(heap'))
        /\ Cardinality(FreeIn(heap)) \in Nat /\ Cardinality(FreeIn(heap')) \in Nat
    BY FreeFinite
  <2>3. Cardinality(FreeIn(heap)) <= Cardinality(FreeIn(heap'))
    BY <1>1, <2>2, FS_Subset
  <2>. QED  BY <2>1, <2>2, <2>3
<1>3. Kept(0)' = {}
  BY DEF Kept
<1>4. /\ image' = NULL /\ slideshow' = FALSE /\ slideshow_length' = 0
      /\ slideshow_index' = 0 /\ pc' = "read" /\ file' = 1
      /\ imgs' = [i \in Files |-> NULL] /\ bk' = FALSE /\ length' = 0
  BY DEF StartUpdate, unset, Locals
<1>5. UpdateInv(0)'
  BY <1>1, <1>2, <1>3, <1>4 DEF UpdateInv, Files, UpdateNeeds
<1>6. FilesCounted(0)'
  BY <1>4 DEF FilesCounted, Files
<1>. QED  BY <1>4, <1>5, <1>6 DEF BackgroundInv
-----------------------------------------------------------------------------
ReadInv(n) == pc = "read" /\ n \in 0..4 /\ FilesCounted(n) /\ UpdateInv(n)

\* Going on to the next file, or to showing the images.
LEMMA AfterFile ==
    ASSUME NEW i \in Files, AtFile(i), NextFile(i), NEW n \in 0..4, UpdateInv(n)',
           \/ bk' = TRUE /\ length' = n /\ n < i
           \/ bk' = FALSE /\ length' = 0 /\ n = i
    PROVE  BackgroundInv'
<1>1. pc = "read" /\ file = i /\ i \in 1..4
  BY DEF AtFile, Files
<1>2. CASE i = 4
  <2>1. pc' = "set" /\ file' = 4
    BY <1>1, <1>2 DEF NextFile
  <2>2. FilesCounted(n)'
    BY <1>2, <2>1 DEF FilesCounted, Files
  <2>. QED  BY <2>1, <2>2 DEF BackgroundInv
<1>3. CASE i # 4
  <2>1. pc' = "read" /\ file' = i + 1
    BY <1>1, <1>3 DEF NextFile
  <2>2. file' \in Files
    BY <1>1, <1>3, <2>1 DEF Files
  <2>3. CASE bk' = TRUE /\ length' = n /\ n < i
    <3>1. n < 4 /\ n < file'
      BY <1>1, <2>1, <2>3
    <3>2. FilesCounted(n)'
      BY <2>1, <2>2, <2>3, <3>1 DEF FilesCounted
    <3>. QED  BY <2>1, <3>2 DEF BackgroundInv
  <2>4. CASE bk' = FALSE /\ length' = 0 /\ n = i
    <3>1. n = file' - 1
      BY <1>1, <2>1, <2>4
    <3>2. FilesCounted(n)'
      BY <2>1, <2>2, <2>4, <3>1 DEF FilesCounted
    <3>. QED  BY <2>1, <3>2 DEF BackgroundInv
  <2>. QED  BY <2>3, <2>4
<1>. QED  BY <1>2, <1>3

\* A file is read only while the files before it all had an image.
LEMMA ReadSoFar ==
    ASSUME NEW n, ReadInv(n), NEW i \in Files, AtFile(i)
    PROVE  /\ n \in 0..4 /\ i \in 1..4 /\ n < i
           /\ bk = TRUE => length = n
           /\ bk # TRUE => n = i - 1 /\ length = 0
           /\ EndsAt(i) => bk' = TRUE /\ length' = n
<1>1. file = i /\ i \in 1..4 /\ n \in 0..4 /\ pc = "read"
  BY DEF AtFile, ReadInv, Files
<1>2. CASE bk = TRUE /\ length = n /\ n < i
  BY <1>1, <1>2 DEF EndsAt
<1>3. CASE bk = FALSE /\ length = 0 /\ n = i - 1
  <2>1. EndsAt(i) => bk' = TRUE /\ length' = IF i > 1 THEN i - 1 ELSE 0
    BY <1>3 DEF EndsAt
  <2>. QED  BY <1>1, <1>3, <2>1
<1>. QED  BY <1>1, <1>2, <1>3 DEF ReadInv, FilesCounted

\* No image is added.
LEMMA SameImages ==
    ASSUME NEW n, UpdateInv(n), UNCHANGED <<show, heap, runs, copied, imgs>>
    PROVE  UpdateInv(n)'
BY DEF UpdateInv, Kept, show

\* A file that cannot be opened ends the images.
LEMMA FileMissing ==
    ASSUME NEW n, ReadInv(n), NEW i \in Files, nuc_fopen_fails(i) \/ OpenedForNothing(i)
    PROVE  BackgroundInv'
<1>1. AtFile(i) /\ NextFile(i) /\ UNCHANGED <<show, heap, runs, copied, imgs>>
  BY DEF nuc_fopen_fails, OpenedForNothing
<1>2. UpdateInv(n)'
  BY <1>1, SameImages DEF ReadInv
<1>3. n \in 0..4 /\ n < i
  BY <1>1, ReadSoFar
<1>4. bk' = TRUE /\ length' = n
  <2>1. CASE nuc_fopen_fails(i)
    BY <1>1, <2>1, ReadSoFar DEF nuc_fopen_fails
  <2>2. CASE OpenedForNothing(i)
    <3>1. bk = TRUE \/ bk = FALSE
      BY DEF ReadInv, FilesCounted
    <3>2. bk = TRUE /\ bk' = bk /\ length' = length
      BY <2>2, <3>1 DEF OpenedForNothing
    <3>. QED  BY <1>1, <3>2, ReadSoFar
  <2>. QED  BY <2>1, <2>2
<1>. QED  BY <1>1, <1>2, <1>3, <1>4, AfterFile

\* An image read is the next one.
LEMMA ImageKept ==
    ASSUME NEW i \in Files, NEW res, UpdateInv(i - 1),
           SmallImage(res, heap, runs) \/ LargeImage(res, heap, runs),
           heap' = res.heap, runs' = res.runs, imgs' = [imgs EXCEPT ![i] = res.img],
           UNCHANGED <<show, copied>>
    PROVE  UpdateInv(i)'
<1>1. i \in 1..4 /\ i - 1 \in 0..3
  BY DEF Files
<1>. DEFINE own == Kept(i - 1)
<1>2. /\ image = NULL /\ slideshow = FALSE
      /\ slideshow_length = 0 /\ slideshow_index = 0
      /\ imgs \in [Files -> Objs \union {NULL}]
      /\ \A j \in Files : imgs[j] # NULL <=> j <= i - 1
      /\ \A j, k \in 1..(i - 1) : imgs[j] = imgs[k] => j = k
      /\ \A j \in 1..(i - 1) : Len(heap[imgs[j]]) = 1
      /\ Clean(heap, runs, own, copied)
      /\ Cardinality(FreeIn(heap)) >= 9 - 2 * (i - 1)
  BY DEF UpdateInv, UpdateNeeds
<1>. DEFINE im == res.img
<1>3. /\ Clean(heap', runs', own \union {im}, copied)
      /\ im \in Objs \ own
      /\ Len(heap'[im]) = 1
      /\ \A o \in own : heap'[o] = heap[o]
      /\ Cardinality(FreeIn(heap')) >= Cardinality(FreeIn(heap)) - 2
  BY <1>2, CleanLoaded
<1>4. \A j \in 1..(i - 1) : imgs[j] \in own
  BY DEF Kept
<1>5. imgs' = [imgs EXCEPT ![i] = im]
  OBVIOUS
<1>. HIDE DEF im
<1>6. imgs'[i] = im /\ \A j \in Files : j # i => imgs'[j] = imgs[j]
  BY <1>2, <1>5
<1>7. \A j \in 1..i : j \in 1..(i - 1) \/ j = i
  BY <1>1
<1>8. \A j \in 1..(i - 1) : j \in Files /\ j # i
  BY <1>1 DEF Files
<1>9. Kept(i)' = own \union {im}
  BY <1>1, <1>6, <1>7, <1>8 DEF Kept
<1>. HIDE DEF own
<1>10. imgs' \in [Files -> Objs \union {NULL}]
  BY <1>2, <1>3, <1>5
<1>11. \A j \in Files : imgs'[j] # NULL <=> j <= i
  <2>1. im # NULL
    BY <1>3, BackgroundAssumption
  <2>2. \A j \in Files : j # i => (j <= i <=> j <= i - 1)
    BY <1>1 DEF Files
  <2>. QED  BY <1>1, <1>2, <1>6, <2>1, <2>2
<1>12. \A j, k \in 1..i : imgs'[j] = imgs'[k] => j = k
  <2>. TAKE j, k \in 1..i
  <2>. HAVE imgs'[j] = imgs'[k]
  <2>1. CASE j = i /\ k # i
    BY <2>1, <1>3, <1>4, <1>6, <1>7, <1>8
  <2>2. CASE j # i /\ k = i
    BY <2>2, <1>3, <1>4, <1>6, <1>7, <1>8
  <2>3. CASE j # i /\ k # i
    BY <2>3, <1>2, <1>6, <1>7, <1>8
  <2>. QED  BY <2>1, <2>2, <2>3
<1>13. \A j \in 1..i : Len(heap'[imgs'[j]]) = 1
  <2>. TAKE j \in 1..i
  <2>1. CASE j = i
    BY <2>1, <1>3, <1>6
  <2>2. CASE j # i
    BY <2>2, <1>2, <1>3, <1>4, <1>6, <1>7, <1>8
  <2>. QED  BY <2>1, <2>2
<1>14. Cardinality(FreeIn(heap')) >= 9 - 2 * i
  <2>1. Cardinality(FreeIn(heap)) \in Nat /\ Cardinality(FreeIn(heap')) \in Nat
    BY FreeFinite
  <2>. QED  BY <1>1, <1>2, <1>3, <2>1
<1>. QED
  BY <1>2, <1>3, <1>9, <1>10, <1>11, <1>12, <1>13, <1>14 DEF UpdateInv, UpdateNeeds, show

\* The step for one file.
LEMMA FileRead ==
    ASSUME NEW n, ReadInv(n), NEW i \in Files, LoadFile(i)
    PROVE  BackgroundInv'
<1>1. AtFile(i) /\ NextFile(i) /\ ~bk /\ UNCHANGED <<show, copied>>
  BY DEF LoadFile
<1>2. bk = FALSE
  BY <1>1 DEF ReadInv, FilesCounted
<1>0. /\ n = i - 1 /\ length = 0 /\ UpdateInv(i - 1)
      /\ i \in 1..4 /\ i - 1 \in 0..4 /\ i \in 0..4
  <2>1. n = i - 1 /\ length = 0 /\ i \in 1..4
    BY <1>1, <1>2, ReadSoFar
  <2>2. UpdateInv(n)
    BY DEF ReadInv
  <2>. QED  BY <2>1, <2>2
<1>3. PICK res \in load_bmp_file(heap, runs) :
         /\ heap' = res.heap
         /\ runs' = res.runs
         /\ imgs' = [imgs EXCEPT ![i] = res.img]
         /\ IF res.img = NULL THEN EndsAt(i) ELSE UNCHANGED <<bk, length>>
  BY DEF LoadFile
<1>4. NoImage(res, heap, runs) \/ SmallImage(res, heap, runs) \/ LargeImage(res, heap, runs)
  <2>1. Clean(heap, runs, Kept(i - 1), copied) /\ Cardinality(FreeIn(heap)) >= 9 - 2 * (i - 1)
    BY <1>0 DEF UpdateInv, UpdateNeeds
  <2>2. heap \in [Objs -> Contents] /\ runs \subseteq Runs
    BY <2>1 DEF Clean
  <2>3. Cardinality(FreeIn(heap)) >= 2
    BY <1>0, <2>1, FreeFinite
  <2>. QED  BY <2>2, <2>3, LoadResults
<1>5. CASE NoImage(res, heap, runs)
  <2>1. heap' = heap /\ runs' = runs /\ res.img = NULL
    BY <1>3, <1>5 DEF NoImage
  <2>2. imgs' = imgs
    <3>1. imgs \in [Files -> Objs \union {NULL}] /\ imgs[i] = NULL
      BY <1>0 DEF UpdateInv
    <3>. QED  BY <1>3, <2>1, <3>1
  <2>3. UpdateInv(i - 1)'
    BY <1>1, <1>0, <2>1, <2>2, SameImages
  <2>4. bk' = TRUE /\ length' = i - 1
    BY <1>0, <1>1, <1>3, <2>1, ReadSoFar
  <2>. QED  BY <1>1, <1>0, <2>3, <2>4, AfterFile
<1>6. CASE SmallImage(res, heap, runs) \/ LargeImage(res, heap, runs)
  <2>1. UpdateInv(i)'
    BY <1>1, <1>0, <1>3, <1>6, ImageKept
  <2>2. res.img # NULL
    BY <1>6, BackgroundAssumption DEF SmallImage, LargeImage, FreeIn
  <2>3. bk' = FALSE /\ length' = 0
    BY <1>2, <1>0, <1>3, <2>2
  <2>. QED  BY <1>1, <1>0, <2>1, <2>3, AfterFile
<1>. QED  BY <1>4, <1>5, <1>6
-----------------------------------------------------------------------------
\* The end of an update: one image, none, or an array of copies.
LEMMA ImagesSet ==
    ASSUME BackgroundInv, SetImages
    PROVE  BackgroundInv'
<1>1. pc = "set" /\ pc' = "idle" /\ runs' = runs
  BY DEF SetImages
<1>2. PICK n \in 0..4 : FilesCounted(n) /\ UpdateInv(n)
  BY <1>1 DEF BackgroundInv
<1>3. n = Length
  BY <1>1, <1>2 DEF FilesCounted, Length
<1>4. /\ image = NULL /\ slideshow = FALSE
      /\ slideshow_length = 0 /\ slideshow_index = 0
      /\ imgs \in [Files -> Objs \union {NULL}]
      /\ \A i \in Files : imgs[i] # NULL <=> i <= n
      /\ \A i, j \in 1..n : imgs[i] = imgs[j] => i = j
      /\ \A i \in 1..n : Len(heap[imgs[i]]) = 1
      /\ Clean(heap, runs, Kept(n), copied)
      /\ Cardinality(FreeIn(heap)) >= 9 - 2 * n
  BY <1>2 DEF UpdateInv, UpdateNeeds
<1>5. 1 \in Files /\ 2 \in Files
  BY DEF Files
<1>6. CASE imgs[2] = NULL
  <2>1. /\ image' = imgs[1] /\ heap' = heap /\ copied' = copied
        /\ slideshow' = FALSE /\ slideshow_length' = 0 /\ slideshow_index' = 0
    BY <1>4, <1>6 DEF SetImages
  <2>2. n <= 1
    BY <1>4, <1>5, <1>6
  <2>3. Kept(n) = {imgs[1]} \ {NULL}
    <3>1. CASE n = 0
      <4>1. imgs[1] = NULL
        BY <1>4, <1>5, <3>1
      <4>. QED  BY <3>1, <4>1, KeptNone
    <3>2. CASE n = 1
      <4>1. imgs[1] # NULL
        BY <1>4, <1>5, <3>2
      <4>2. Kept(1) = {imgs[1]}
        BY DEF Kept
      <4>. QED  BY <3>2, <4>1, <4>2
    <3>. QED  BY <2>2, <3>1, <3>2
  <2>4. Clean(heap', runs', {image'} \ {NULL}, copied')
    BY <1>1, <1>4, <2>1, <2>3
  <2>5. image' # NULL => Len(heap'[image']) = 1
    <3>1. image' # NULL => 1 <= n
      BY <1>4, <1>5, <2>1
    <3>. QED  BY <1>4, <2>1, <3>1
  <2>6. image' \in Objs \union {NULL}
    BY <1>4, <1>5, <2>1
  <2>7. ShownInv'
    BY <2>1, <2>4, <2>5, <2>6 DEF ShownInv
  <2>. QED  BY <1>1, <2>7 DEF BackgroundInv
<1>7. CASE imgs[2] # NULL
  <2>1. n >= 2
    BY <1>4, <1>5, <1>7
  <2>2. PICK array : array = kmalloc(heap)
    OBVIOUS
  <2>3. /\ image' = array
        /\ heap' = [o \in Objs |->
                     CASE o = array -> [i \in 1..n |-> heap[imgs[i]][1]]
                       [] o \in Kept(n) -> <<>>
                       [] OTHER -> heap[o]]
        /\ slideshow' = TRUE /\ slideshow_length' = n /\ slideshow_index' = 0
        /\ copied' = copied \union Kept(n)
    BY <1>3, <1>7, <2>2 DEF SetImages, Kept
  <2>4. array \in FreeIn(heap)
    <3>1. FreeIn(heap) # {}
      BY <1>4, FS_EmptySet
    <3>. QED  BY <2>2, <3>1, KmallocFree
  <2>5. n \in Nat /\ Kept(n) = {imgs[i] : i \in 1..n}
    BY DEF Kept
  <2>6. /\ Clean(heap', runs, {array}, copied \union Kept(n))
        /\ Len(heap'[array]) = n /\ array \in Objs
    <3>1. PICK own : own = Kept(n)
      OBVIOUS
    <3>2. /\ Clean(heap, runs, own, copied)
          /\ own = {imgs[i] : i \in 1..n}
          /\ heap' = [o \in Objs |->
                     CASE o = array -> [i \in 1..n |-> heap[imgs[i]][1]]
                       [] o \in own -> <<>>
                       [] OTHER -> heap[o]]
      BY <1>4, <2>3, <2>5, <3>1
    <3>3. Clean(heap', runs, {array}, copied \union own)
          /\ Len(heap'[array]) = n /\ array \in Objs
      <4>1. ArrayOf(heap, own, n, imgs, array, heap')
        BY <1>4, <2>4, <2>5, <3>2 DEF ArrayOf
      <4>2. Clean(heap, runs, own, copied)
        BY <3>2
      <4>. QED  BY <4>1, <4>2, CleanCopied
    <3>. QED  BY <3>1, <3>3
  <2>7. {array} \ {NULL} = {array} /\ array # NULL
    BY <2>6, BackgroundAssumption
  <2>8. Clean(heap', runs', {image'} \ {NULL}, copied')
    BY <1>1, <2>3, <2>6, <2>7, Zenon
  <2>9. ShownInv'
    BY <2>1, <2>3, <2>6, <2>7, <2>8 DEF ShownInv
  <2>. QED  BY <1>1, <2>9 DEF BackgroundInv
<1>. QED  BY <1>6, <1>7

\* The slideshow goes on within its array.
LEMMA ImageDrawn ==
    ASSUME BackgroundInv, background_draw_image
    PROVE  BackgroundInv'
<1>1. /\ pc = "idle" /\ pc' = "idle" /\ slideshow /\ ShownInv
      /\ slideshow_index' = next_image
      /\ UNCHANGED <<image, slideshow, slideshow_length, heap, runs, copied>>
  BY DEF background_draw_image, BackgroundInv
<1>2. /\ image # NULL /\ slideshow_index \in Nat /\ slideshow_length \in Nat
      /\ slideshow_index < slideshow_length /\ slideshow_length = Len(heap[image])
  BY <1>1 DEF ShownInv
<1>3. slideshow_index' \in Nat /\ slideshow_index' < slideshow_length
  BY <1>1, <1>2 DEF next_image
<1>4. ShownInv'
  BY <1>1, <1>2, <1>3 DEF ShownInv
<1>. QED  BY <1>1, <1>4 DEF BackgroundInv

\* The module ends with nothing shown.
LEMMA ModuleEnds ==
    ASSUME BackgroundInv, module_end
    PROVE  BackgroundInv'
<1>1. /\ ShownInv /\ Release /\ UNCHANGED copied /\ pc' = "none"
      /\ image' = NULL /\ slideshow' = FALSE
      /\ slideshow_length' = 0 /\ slideshow_index' = 0
  BY DEF module_end, BackgroundInv, unset
<1>2. Clean(heap', runs', {}, copied')
  BY <1>1, AllReleased
<1>3. {image'} \ {NULL} = {}
  BY <1>1
<1>4. ShownInv'
  BY <1>1, <1>2, <1>3 DEF ShownInv
<1>. QED  BY <1>1, <1>4 DEF BackgroundInv

\* Every step keeps the invariant.
LEMMA BackgroundStep ==
    ASSUME BackgroundInv, [BackgroundNext]_BackgroundVars
    PROVE  BackgroundInv'
<1>1. CASE module_start
  BY <1>1, UpdateStarts DEF module_start, BackgroundInv
<1>2. CASE filefunc
  BY <1>2, UpdateStarts DEF filefunc, BackgroundInv
<1>3. CASE ReadFile
  <2>1. PICK i \in Files : nuc_fopen_fails(i) \/ OpenedForNothing(i) \/ LoadFile(i)
    BY <1>3 DEF ReadFile
  <2>2. PICK n \in 0..4 : ReadInv(n)
    <3>1. pc = "read"
      BY <2>1 DEF nuc_fopen_fails, OpenedForNothing, LoadFile, AtFile
    <3>. QED  BY <3>1 DEF BackgroundInv, ReadInv
  <2>. QED  BY <2>1, <2>2, FileMissing, FileRead
<1>4. CASE SetImages
  BY <1>4, ImagesSet
<1>5. CASE background_draw_image
  BY <1>5, ImageDrawn
<1>6. CASE module_end
  BY <1>6, ModuleEnds
<1>7. CASE UNCHANGED BackgroundVars
  BY <1>7 DEF BackgroundVars, show, BackgroundInv, ShownInv, FilesCounted, UpdateInv, Kept
<1>. QED  BY <1>1, <1>2, <1>3, <1>4, <1>5, <1>6, <1>7 DEF BackgroundNext

LEMMA BackgroundInvHolds == BackgroundSpec => []BackgroundInv
BY BackgroundInitially, BackgroundStep, PTL DEF BackgroundSpec

\* The model's own set of what is shown, between updates.
LEMMA ShownIs ==
    ASSUME ShownInv
    PROVE  Shown = DataOf(heap, {image} \ {NULL})
<1>1. CASE image = NULL
  BY <1>1, NoData DEF Shown
<1>2. CASE image # NULL
  <2>1. {image} \ {NULL} = {image}
    BY <1>2
  <2>2. heap[image] \in Seq(Pointers)
    BY <2>1 DEF ShownInv, Clean
  <2>. QED  BY <1>2, <2>1, <2>2, PointersOf DEF Shown
<1>. QED  BY <1>1, <1>2

(***************************************************************************)
(* MemoryExact (background.c): for any number of objects and page runs and *)
(* any sequence of updates whose files are missing, refused or end early,  *)
(* the memory in use between updates is what is drawn, but for the structs *)
(* background_update copied into a slideshow and forgot.                   *)
(***************************************************************************)
THEOREM MemoryExactHolds == BackgroundSpec => []MemoryExact
<1>1. BackgroundInv => MemoryExact
  <2>. SUFFICES ASSUME ShownInv, pc \in {"none", "idle"}
                PROVE  MemoryExact
    BY DEF BackgroundInv, MemoryExact
  <2>. DEFINE own == {image} \ {NULL}
              D == DataOf(heap, own)
  <2>1. Shown = D
    BY ShownIs
  <2>2. /\ runs = D \cap Runs /\ copied \subseteq Objs /\ own \subseteq Objs
        /\ \A o \in Objs : heap[o] # Free <=> o \in own \union copied \union D
    BY DEF ShownInv, Clean
  <2>3. D \subseteq Objs \union Runs \union {Wild}
    BY DEF DataOf, Pointers
  <2>. HIDE DEF D, own
  <2>4. runs = D \ (Objs \union {Wild})
    BY <2>2, <2>3, BackgroundAssumption
  <2>5. {o \in Objs : heap[o] # Free} = copied \union own \union (D \cap Objs)
    BY <2>2
  <2>. QED  BY <2>1, <2>4, <2>5 DEF MemoryExact, own
<1>. QED  BY <1>1, BackgroundInvHolds, PTL

(***************************************************************************)
(* DrawnLive (background.c:59): whatever was shown before, the image drawn *)
(* and the pixels it points to are in use, unless its pixels were never    *)
(* allocated, and the index of a slideshow lies within its array.          *)
(***************************************************************************)
THEOREM DrawnLiveHolds == BackgroundSpec => []DrawnLive
<1>1. BackgroundInv => DrawnLive
  <2>. SUFFICES ASSUME ShownInv, image # NULL
                PROVE  DrawnLive
    BY DEF BackgroundInv, DrawnLive
  <2>1. {image} \ {NULL} = {image} /\ image \in Objs
    BY DEF ShownInv
  <2>. DEFINE D == DataOf(heap, {image})
              s == heap[image]
  <2>2. Clean(heap, runs, {image}, copied)
    BY <2>1 DEF ShownInv
  <2>3. /\ s \in Seq(Pointers) /\ runs = D \cap Runs
        /\ \A o \in Objs : heap[o] # Free <=> o \in {image} \union copied \union D
        /\ Single(heap, {image})
    BY <2>2 DEF Clean
  <2>4. s # Free
    BY <2>1, <2>3
  <2>5. slideshow_index < Len(s) /\ (slideshow => slideshow_length = Len(s))
    BY DEF ShownInv
  <2>6. ASSUME NEW i \in DOMAIN s
        PROVE  Live(s[i])
    <3>1. s[i] \in Pointers /\ s[i] \in D
      BY <2>3, <2>6, PointersOf DEF DataOf
    <3>. QED  BY <2>3, <3>1 DEF Live, Pointers
  <2>7. ASSUME NEW i \in DOMAIN s, NEW j \in DOMAIN s \ {i}, s[i] = s[j]
        PROVE  s[i] = Wild
    BY <2>3, <2>7 DEF Single
  <2>. QED  BY <2>4, <2>5, <2>6, <2>7 DEF DrawnLive
<1>. QED  BY <1>1, BackgroundInvHolds, PTL
-----------------------------------------------------------------------------
(***************************************************************************)
(* Calendar. First, that the code's lengths of months and years are those  *)
(* of the reference, DayNumber; then what the loops over years, months,    *)
(* days, hours and minutes leave; last, the dialog. The loops are          *)
(* recursive functions. A closed form, stated with DayNumber, satisfies    *)
(* the recursion, so that such a function exists; that it computes the     *)
(* closed form follows by a least counterexample.                          *)
(***************************************************************************)
\* Days from the first of March of year zero to that of a year.
BeforeMarch(y) == (y \div 400) * 146097 + (y % 400) * 365 + (y % 400) \div 4
                    - (y % 400) \div 100

\* The eras of 400 years are an abbreviation.
LEMMA EraClosed ==
    ASSUME NEW y \in Int
    PROVE  BeforeMarch(y) = 365 * y + y \div 4 - y \div 100 + y \div 400
BY DEF BeforeMarch

\* A quotient grows by one at the multiples.
LEMMA FloorStep ==
    ASSUME NEW y \in Int, NEW k \in {4, 100, 400}
    PROVE  y \div k = ((y - 1) \div k) + (IF y % k = 0 THEN 1 ELSE 0)
<1>1. CASE k = 4
  BY <1>1
<1>2. CASE k = 100
  BY <1>2
<1>3. CASE k = 400
  BY <1>3
<1>. QED  BY <1>1, <1>2, <1>3

\* The year from March to February has the length of the code's table.
LEMMA YearStep ==
    ASSUME NEW y \in Int
    PROVE  BeforeMarch(y) - BeforeMarch(y - 1) = days_in_year(y)
<1>. DEFINE p == y - 1
<1>1. p \in Int
  OBVIOUS
<1>2. BeforeMarch(y) = 365 * y + y \div 4 - y \div 100 + y \div 400
  BY EraClosed
<1>3. BeforeMarch(p) = 365 * p + p \div 4 - p \div 100 + p \div 400
  BY EraClosed, <1>1
<1>4. /\ y \div 4 = (p \div 4) + (IF y % 4 = 0 THEN 1 ELSE 0)
      /\ y \div 100 = (p \div 100) + (IF y % 100 = 0 THEN 1 ELSE 0)
      /\ y \div 400 = (p \div 400) + (IF y % 400 = 0 THEN 1 ELSE 0)
  BY FloorStep
<1>5. /\ p \div 4 \in Int /\ p \div 100 \in Int /\ p \div 400 \in Int
  BY <1>1
<1>6. /\ y % 400 = 0 => y % 100 = 0
      /\ y % 100 = 0 => y % 4 = 0
  OBVIOUS
<1>. HIDE DEF p
<1>7. BeforeMarch(y) - BeforeMarch(p)
        = 365 * y - 365 * p + (IF y % 4 = 0 THEN 1 ELSE 0)
            - (IF y % 100 = 0 THEN 1 ELSE 0) + (IF y % 400 = 0 THEN 1 ELSE 0)
  BY <1>1, <1>2, <1>3, <1>4, <1>5
<1>8. BeforeMarch(y) - BeforeMarch(p) = days_in_year(y)
  BY <1>6, <1>7 DEF days_in_year, IsLeap, p
<1>. QED  BY <1>8 DEF p

LEMMA BeforeMarchInt == ASSUME NEW y \in Int PROVE BeforeMarch(y) \in Int
BY DEF BeforeMarch

\* Days from the first of March of year zero to the epoch, and one.
Shift == 719469

LEMMA ShiftInt == Shift \in Int
BY DEF Shift

\* DayNumber with its constants gathered.
LEMMA DateClosed ==
    ASSUME NEW y \in Int, NEW d \in Int, NEW m \in 1..12
    PROVE  DayNumber(y, m, d) =
             BeforeMarch(IF m <= 2 THEN y - 1 ELSE y)
               + (153 * ((m + 9) % 12) + 2) \div 5 + d - Shift
<1>. DEFINE z == IF m <= 2 THEN y - 1 ELSE y
              k == (153 * ((m + 9) % 12) + 2) \div 5
<1>1. z \in Int /\ k \in Int
  OBVIOUS
<1>2. DayNumber(y, m, d) = BeforeMarch(z) + k + d - 1 - 719468
  BY DEF DayNumber, BeforeMarch
<1>3. BeforeMarch(z) \in Int
  BY <1>1, BeforeMarchInt
<1>. HIDE DEF z, k
<1>4. DayNumber(y, m, d) = BeforeMarch(z) + k + d - Shift
  BY <1>1, <1>2, <1>3 DEF Shift
<1>. QED  BY <1>4 DEF z, k

\* The twelve months, March first.
LEMMA FirstOfMonth ==
    ASSUME NEW y \in Int, NEW d \in Int
    PROVE  /\ DayNumber(y, 1, d) = BeforeMarch(y - 1) + 306 + d - Shift
           /\ DayNumber(y, 2, d) = BeforeMarch(y - 1) + 337 + d - Shift
           /\ DayNumber(y, 3, d) = BeforeMarch(y) + d - Shift
           /\ DayNumber(y, 4, d) = BeforeMarch(y) + 31 + d - Shift
           /\ DayNumber(y, 5, d) = BeforeMarch(y) + 61 + d - Shift
           /\ DayNumber(y, 6, d) = BeforeMarch(y) + 92 + d - Shift
           /\ DayNumber(y, 7, d) = BeforeMarch(y) + 122 + d - Shift
           /\ DayNumber(y, 8, d) = BeforeMarch(y) + 153 + d - Shift
           /\ DayNumber(y, 9, d) = BeforeMarch(y) + 184 + d - Shift
           /\ DayNumber(y, 10, d) = BeforeMarch(y) + 214 + d - Shift
           /\ DayNumber(y, 11, d) = BeforeMarch(y) + 245 + d - Shift
           /\ DayNumber(y, 12, d) = BeforeMarch(y) + 275 + d - Shift
<1>1. \A m \in 1..12 : DayNumber(y, m, d) =
          BeforeMarch(IF m <= 2 THEN y - 1 ELSE y)
            + (153 * ((m + 9) % 12) + 2) \div 5 + d - Shift
  BY DateClosed
<1>. DEFINE b == BeforeMarch(y)
            c == BeforeMarch(y - 1)
<1>2. b \in Int /\ c \in Int /\ Shift \in Int
  BY BeforeMarchInt, ShiftInt
<1>. HIDE DEF b, c
<1>3. DayNumber(y, 1, d) = c + 306 + d - Shift
  BY <1>1, <1>2 DEF c
<1>4. DayNumber(y, 2, d) = c + 337 + d - Shift
  BY <1>1, <1>2 DEF c
<1>5. DayNumber(y, 3, d) = b + d - Shift
  BY <1>1, <1>2 DEF b
<1>6. DayNumber(y, 4, d) = b + 31 + d - Shift
  BY <1>1, <1>2 DEF b
<1>7. DayNumber(y, 5, d) = b + 61 + d - Shift
  BY <1>1, <1>2 DEF b
<1>8. DayNumber(y, 6, d) = b + 92 + d - Shift
  BY <1>1, <1>2 DEF b
<1>9. DayNumber(y, 7, d) = b + 122 + d - Shift
  BY <1>1, <1>2 DEF b
<1>10. DayNumber(y, 8, d) = b + 153 + d - Shift
  BY <1>1, <1>2 DEF b
<1>11. DayNumber(y, 9, d) = b + 184 + d - Shift
  BY <1>1, <1>2 DEF b
<1>12. DayNumber(y, 10, d) = b + 214 + d - Shift
  BY <1>1, <1>2 DEF b
<1>13. DayNumber(y, 11, d) = b + 245 + d - Shift
  BY <1>1, <1>2 DEF b
<1>14. DayNumber(y, 12, d) = b + 275 + d - Shift
  BY <1>1, <1>2 DEF b
<1>. QED
  BY <1>3, <1>4, <1>5, <1>6, <1>7, <1>8, <1>9, <1>10, <1>11, <1>12, <1>13, <1>14 DEF b, c

LEMMA DayNumberInt ==
    ASSUME NEW y \in Int, NEW m \in 1..12
    PROVE  DayNumber(y, m, 1) \in Int /\ NextMonth(y, m) \in Int
BY DEF DayNumber, NextMonth

LEMMA DayInMonth ==
    ASSUME NEW y \in Int, NEW m \in 1..12, NEW d \in Int
    PROVE  DayNumber(y, m, d) = DayNumber(y, m, 1) + d - 1
<1>. DEFINE z == IF m <= 2 THEN y - 1 ELSE y
            n == BeforeMarch(z) + (153 * ((m + 9) % 12) + 2) \div 5
<1>1. BeforeMarch(z) \in Int /\ (153 * ((m + 9) % 12) + 2) \div 5 \in Int
  BY BeforeMarchInt
<1>2. DayNumber(y, m, d) = n + d - 1 - 719468 /\ DayNumber(y, m, 1) = n + 1 - 1 - 719468
  BY SMT DEF DayNumber, BeforeMarch
<1>3. n \in Int
  BY <1>1
<1>. HIDE DEF n
<1>. QED  BY <1>2, <1>3, SMT

\* The two tables of the code, days_in_month and days_in_year, are those of
\* the calendar, and so agree.
LEMMA MonthLength ==
    ASSUME NEW y \in Int, NEW m \in 1..12
    PROVE  NextMonth(y, m) = DayNumber(y, m, 1) + days_in_month(y, m)
<1>1. BeforeMarch(y) \in Int /\ BeforeMarch(y - 1) \in Int /\ BeforeMarch(y + 1) \in Int
      /\ Shift \in Int
  BY BeforeMarchInt, ShiftInt
<1>2. DayNumber(y + 1, 1, 1) = BeforeMarch(y) + 306 + 1 - Shift
  BY FirstOfMonth, (y + 1) - 1 = y
<1>3. BeforeMarch(y) - BeforeMarch(y - 1) = IF IsLeap(y) THEN 366 ELSE 365
  BY YearStep DEF days_in_year
<1>4. CASE m = 2
  <2>1. /\ DayNumber(y, 2, 1) = BeforeMarch(y - 1) + 337 + 1 - Shift
        /\ NextMonth(y, 2) = BeforeMarch(y) + 1 - Shift
    BY FirstOfMonth DEF NextMonth
  <2>2. days_in_month(y, 2) = IF IsLeap(y) THEN 29 ELSE 28
    BY DEF days_in_month
  <2>3. CASE IsLeap(y)
    BY <1>1, <1>3, <2>1, <2>2, <2>3, <1>4
  <2>4. CASE ~IsLeap(y)
    BY <1>1, <1>3, <2>1, <2>2, <2>4, <1>4
  <2>. QED  BY <2>3, <2>4
<1>5. CASE m = 12
  BY <1>1, <1>2, <1>5, FirstOfMonth DEF NextMonth, days_in_month
<1>6. /\ DayNumber(y, 1, 1) = BeforeMarch(y - 1) + 306 + 1 - Shift
      /\ DayNumber(y, 2, 1) = BeforeMarch(y - 1) + 337 + 1 - Shift
      /\ DayNumber(y, 3, 1) = BeforeMarch(y) + 1 - Shift
      /\ DayNumber(y, 4, 1) = BeforeMarch(y) + 31 + 1 - Shift
      /\ DayNumber(y, 5, 1) = BeforeMarch(y) + 61 + 1 - Shift
      /\ DayNumber(y, 6, 1) = BeforeMarch(y) + 92 + 1 - Shift
      /\ DayNumber(y, 7, 1) = BeforeMarch(y) + 122 + 1 - Shift
      /\ DayNumber(y, 8, 1) = BeforeMarch(y) + 153 + 1 - Shift
      /\ DayNumber(y, 9, 1) = BeforeMarch(y) + 184 + 1 - Shift
      /\ DayNumber(y, 10, 1) = BeforeMarch(y) + 214 + 1 - Shift
      /\ DayNumber(y, 11, 1) = BeforeMarch(y) + 245 + 1 - Shift
      /\ DayNumber(y, 12, 1) = BeforeMarch(y) + 275 + 1 - Shift
  BY FirstOfMonth
<1>7. \A k \in {1, 3, 5, 7, 8, 10} : DayNumber(y, k + 1, 1) = DayNumber(y, k, 1) + 31
  BY <1>1, <1>6
<1>8. \A k \in {4, 6, 9, 11} : DayNumber(y, k + 1, 1) = DayNumber(y, k, 1) + 30
  BY <1>1, <1>6
<1>9. CASE m \in {1, 3, 5, 7, 8, 10}
  <2>1. NextMonth(y, m) = DayNumber(y, m + 1, 1) /\ days_in_month(y, m) = 31
    BY <1>9 DEF NextMonth, days_in_month
  <2>. QED  BY <1>7, <1>9, <2>1
<1>10. CASE m \in {4, 6, 9, 11}
  <2>1. NextMonth(y, m) = DayNumber(y, m + 1, 1) /\ days_in_month(y, m) = 30
    BY <1>10 DEF NextMonth, days_in_month
  <2>. QED  BY <1>8, <1>10, <2>1
<1>. QED  BY <1>4, <1>5, <1>9, <1>10

LEMMA YearLength ==
    ASSUME NEW y \in Int
    PROVE  DayNumber(y + 1, 1, 1) = DayNumber(y, 1, 1) + days_in_year(y)
<1>1. BeforeMarch(y) \in Int /\ BeforeMarch(y - 1) \in Int /\ Shift \in Int
  BY BeforeMarchInt, ShiftInt
<1>2. DayNumber(y + 1, 1, 1) = BeforeMarch(y) + 306 + 1 - Shift
  BY FirstOfMonth, (y + 1) - 1 = y
<1>3. DayNumber(y, 1, 1) = BeforeMarch(y - 1) + 306 + 1 - Shift
  BY FirstOfMonth
<1>. QED  BY <1>1, <1>2, <1>3, YearStep
-----------------------------------------------------------------------------
LEMMA LengthsPositive == Hour \in Nat /\ Hour > 0 /\ Day \in Nat /\ Day > 0
<1>1. ASSUME NEW a \in Nat \ {0}, NEW b \in Nat \ {0}
      PROVE  a * b \in Nat /\ a * b > 0
  <2>1. PICK c \in Nat : a = c + 1
    BY a - 1 \in Nat, a = (a - 1) + 1
  <2>2. PICK d \in Nat : b = d + 1
    BY b - 1 \in Nat, b = (b - 1) + 1
  <2>3. c * d \in Nat /\ a * b = c * d + c + d + 1
    BY <2>1, <2>2
  <2>. QED  BY <2>3
<1>2. Hour \in Nat /\ Hour > 0
  BY <1>1, CalendarAssumption DEF Hour
<1>3. Day \in Nat /\ Day > 0
  BY <1>1, <1>2, CalendarAssumption DEF Day
<1>. QED  BY <1>2, <1>3

\* The seconds from the epoch to the first of January.
NewYear(y) == DayNumber(y, 1, 1) * Day

LEMMA YearInSeconds ==
    ASSUME NEW y \in Int
    PROVE  /\ days_in_year(y) * Day \in Nat /\ days_in_year(y) * Day > 0
           /\ NewYear(y) \in Int
           /\ NewYear(y + 1) = NewYear(y) + days_in_year(y) * Day
<1>1. DayNumber(y, 1, 1) \in Int /\ days_in_year(y) \in 365..366
  BY DayNumberInt DEF days_in_year
<1>2. DayNumber(y + 1, 1, 1) = DayNumber(y, 1, 1) + days_in_year(y)
  BY YearLength
<1>3. ASSUME NEW a \in Int, NEW n \in 365..366, NEW d \in Nat, d > 0
      PROVE  n * d \in Nat /\ n * d > 0 /\ a * d \in Int /\ (a + n) * d = a * d + n * d
  <2>1. n \in Nat /\ n >= 1
    OBVIOUS
  <2>2. PICK c \in Nat : n = c + 1
    BY n - 1 \in Nat, n = (n - 1) + 1
  <2>3. c * d \in Nat /\ n * d = c * d + d
    BY <2>2
  <2>4. a * d \in Int /\ (a + n) * d = a * d + n * d
    BY <2>1
  <2>. QED  BY <2>3, <2>4, <1>3
<1>. QED  BY <1>1, <1>2, <1>3, LengthsPositive DEF NewYear

\* A sequence that never falls from one number to the next never falls.
LEMMA Monotone ==
    ASSUME NEW S \in [Nat -> Int], \A n \in Nat : S[n] <= S[n + 1],
           NEW k \in Nat, NEW m \in Nat, k <= m
    PROVE  S[k] <= S[m]
<1>. DEFINE B == {n \in Nat : k <= n /\ ~(S[k] <= S[n])}
<1>1. SUFFICES ASSUME B # {} PROVE FALSE
  OBVIOUS
<1>2. PICK n \in B : \A i \in B : n <= i
  BY <1>1, MinNat
<1>3. n \in Nat /\ n # k /\ k <= n
  BY <1>2
<1>4. n - 1 \in Nat /\ k <= n - 1 /\ (n - 1) + 1 = n
  BY <1>3
<1>5. n - 1 \notin B
  BY <1>2, <1>4
<1>6. S[k] <= S[n - 1] /\ S[n - 1] <= S[n]
  BY <1>4, <1>5
<1>7. S[k] <= S[n]
  BY <1>3, <1>4, <1>6
<1>. QED  BY <1>2, <1>7

LEMMA NewYearsGrow ==
    ASSUME NEW y \in Nat, NEW z \in Nat, y < z
    PROVE  NewYear(y + 1) <= NewYear(z)
<1>. DEFINE S == [n \in Nat |-> NewYear(n)]
<1>1. S \in [Nat -> Int]
  BY YearInSeconds
<1>2. ASSUME NEW n \in Nat
      PROVE  S[n] <= S[n + 1]
  BY YearInSeconds, n + 1 \in Nat
<1>. HIDE DEF S
<1>3. S[y + 1] <= S[z]
  BY <1>1, <1>2, Monotone, y + 1 \in Nat, y + 1 <= z
<1>. QED  BY <1>3 DEF S
-----------------------------------------------------------------------------
\* The loop, begun in year y with the time t, ends in year z.
YearEnds(y, t, z) == /\ z \in Nat /\ y <= z
                     /\ z = y \/ NewYear(z) < t
                     /\ t <= NewYear(z + 1)

YearOf(y, t) == CHOOSE z : YearEnds(y, t, z)

YearLeft(y, t) == LET z == YearOf(y, t) IN <<z, t - NewYear(z)>>

\* One round of the loop over the years.
YearRound(s, f) ==
    IF s[2] <= days_in_year(s[1]) * Day THEN s
    ELSE f[<<s[1] + 1, s[2] - days_in_year(s[1]) * Day>>]

\* The closed form satisfies the recursion of the loop.
LEMMA YearOfRound ==
    ASSUME NEW y \in Nat, NEW r \in Nat
    PROVE  IF r <= days_in_year(y) * Day
           THEN YearOf(y, NewYear(y) + r) = y
           ELSE YearOf(y, NewYear(y) + r) = YearOf(y + 1, NewYear(y) + r)
<1>. DEFINE t == NewYear(y) + r
            l == days_in_year(y) * Day
<1>1. /\ l \in Nat /\ l > 0 /\ NewYear(y) \in Int
      /\ NewYear(y + 1) = NewYear(y) + l
      /\ \A z \in Int : NewYear(z) \in Int
  BY YearInSeconds
<1>2. \A z \in Nat : y < z => NewYear(y + 1) <= NewYear(z)
  BY NewYearsGrow
<1>. HIDE DEF l
<1>4. CASE r <= l
  <2>1. \A z : YearEnds(y, t, z) <=> z = y
    BY <1>1, <1>2, <1>4 DEF YearEnds
  <2>. HIDE DEF t
  <2>2. YearOf(y, t) = y
    BY <2>1 DEF YearOf
  <2>. QED  BY <2>2, <1>4 DEF t, l
<1>5. CASE ~(r <= l)
  <2>1. t \in Int /\ t > NewYear(y + 1)
    BY <1>1, <1>5
  <2>. HIDE DEF t
  <2>2. ASSUME NEW z
        PROVE  YearEnds(y, t, z) <=> YearEnds(y + 1, t, z)
    BY <1>1, <1>2, <2>1 DEF YearEnds
  <2>3. YearOf(y, t) = YearOf(y + 1, t)
    BY <2>2, Zenon DEF YearOf
  <2>. QED  BY <2>3, <1>5 DEF t, l
<1>. QED  BY <1>4, <1>5

\* So there is a function that does, and YearLoop is one.
LEMMA YearLoopExists ==
    \E f : f = [s \in Nat \X Nat |-> YearRound(s, f)]
<1>. DEFINE F(y, r) == YearLeft(y, NewYear(y) + r)
            G == [s \in Nat \X Nat |-> F(s[1], s[2])]
<1>1. ASSUME NEW y \in Nat, NEW r \in Nat
      PROVE  G[<<y, r>>] = YearRound(<<y, r>>, G)
  <2>. DEFINE l == days_in_year(y) * Day
  <2>1. /\ l \in Nat /\ NewYear(y) \in Int
        /\ NewYear(y + 1) = NewYear(y) + l
    BY YearInSeconds
  <2>2. G[<<y, r>>] = F(y, r)
    OBVIOUS
  <2>3. CASE r <= l
    <3>1. YearOf(y, NewYear(y) + r) = y
      BY <2>3, YearOfRound
    <3>2. F(y, r) = <<y, r>>
      BY <2>1, <3>1 DEF YearLeft
    <3>. QED  BY <2>2, <3>2, <2>3 DEF YearRound
  <2>4. CASE ~(r <= l)
    <3>1. YearOf(y, NewYear(y) + r) = YearOf(y + 1, NewYear(y) + r)
      BY <2>4, YearOfRound
    <3>. HIDE DEF l
    <3>2. y + 1 \in Nat /\ r - l \in Nat /\ NewYear(y + 1) + (r - l) = NewYear(y) + r
      BY <2>1, <2>4
    <3>3. G[<<y + 1, r - l>>] = F(y + 1, r - l)
      BY <3>2
    <3>4. F(y + 1, r - l) = F(y, r)
      BY <3>1, <3>2 DEF YearLeft
    <3>5. G[<<y, r>>] = G[<<y + 1, r - l>>]
      BY <2>2, <3>3, <3>4
    <3>. HIDE DEF G, F
    <3>. QED  BY <3>5, <2>4 DEF YearRound, l
  <2>. QED  BY <2>3, <2>4
<1>2. ASSUME NEW s \in Nat \X Nat
      PROVE  G[s] = YearRound(s, G)
  <2>. HIDE DEF G
  <2>. QED  BY <1>1
<1>3. G = [s \in Nat \X Nat |-> YearRound(s, G)]
  <2>1. G = [s \in Nat \X Nat |-> G[s]]
    OBVIOUS
  <2>. HIDE DEF G
  <2>. QED  BY <1>2, <2>1
<1>. HIDE DEF G
<1>. QED  BY <1>3

LEMMA YearLoopDef ==
    ASSUME NEW y \in Nat, NEW r \in Nat
    PROVE  YearLoop[<<y, r>>] = IF r <= days_in_year(y) * Day THEN <<y, r>>
                                ELSE YearLoop[<<y + 1, r - days_in_year(y) * Day>>]
<1>. DEFINE P(f) == f = [s \in Nat \X Nat |-> YearRound(s, f)]
<1>1. \E f : P(f)
  BY YearLoopExists
<1>2. YearLoop = CHOOSE f : P(f)
  BY Zenon DEF YearLoop, YearRound
<1>. HIDE DEF P
<1>3. P(YearLoop)
  BY <1>1, <1>2, Zenon
<1>4. YearLoop = [s \in Nat \X Nat |-> YearRound(s, YearLoop)]
  BY <1>3 DEF P
<1>. HIDE DEF YearLoop
<1>5. YearLoop[<<y, r>>] = YearRound(<<y, r>>, YearLoop)
  BY <1>4
<1>. QED  BY <1>5 DEF YearRound

\* The loop over the years ends in the year the time lies in.
YearsDone(y, r) ==
    \E z \in Nat, q \in Nat :
      /\ YearLoop[<<y, r>>] = <<z, q>>
      /\ y <= z
      /\ q >= 1 /\ q <= days_in_year(z) * Day
      /\ NewYear(y) + r = NewYear(z) + q

\* By the least time for which it would not.
LEMMA YearLoopEnds ==
    ASSUME NEW y \in Nat, NEW r \in Nat, r >= 1
    PROVE  YearsDone(y, r)
<1>. DEFINE S == {n \in Nat : n >= 1 /\ \E x \in Nat : ~YearsDone(x, n)}
<1>1. SUFFICES ASSUME S # {} PROVE FALSE
  BY <1>1
<1>2. PICK n \in S : \A m \in S : n <= m
  BY <1>1, MinNat
<1>3. PICK x \in Nat : ~YearsDone(x, n)
  BY <1>2
<1>. DEFINE l == days_in_year(x) * Day
<1>4. /\ l \in Nat /\ l > 0 /\ NewYear(x) \in Int
      /\ NewYear(x + 1) = NewYear(x) + l
  BY YearInSeconds
<1>5. YearLoop[<<x, n>>] = IF n <= l THEN <<x, n>> ELSE YearLoop[<<x + 1, n - l>>]
  BY <1>2, YearLoopDef
<1>. HIDE DEF l
<1>6. CASE n <= l
  BY <1>2, <1>3, <1>4, <1>5, <1>6 DEF YearsDone, l
<1>7. CASE ~(n <= l)
  <2>1. n - l \in Nat /\ n - l >= 1 /\ n - l < n /\ x + 1 \in Nat
    BY <1>2, <1>4, <1>7
  <2>2. YearsDone(x + 1, n - l)
    BY <1>2, <2>1
  <2>3. PICK z \in Nat, q \in Nat :
          /\ YearLoop[<<x + 1, n - l>>] = <<z, q>>
          /\ x + 1 <= z
          /\ q >= 1 /\ q <= days_in_year(z) * Day
          /\ NewYear(x + 1) + (n - l) = NewYear(z) + q
    BY <2>2 DEF YearsDone
  <2>4. NewYear(x) + n = NewYear(z) + q
    BY <1>2, <1>4, <2>3, YearInSeconds
  <2>5. YearLoop[<<x, n>>] = <<z, q>> /\ x <= z
    BY <1>5, <1>7, <2>3
  <2>. QED  BY <1>3, <2>3, <2>4, <2>5 DEF YearsDone
<1>. QED  BY <1>6, <1>7
-----------------------------------------------------------------------------
\* The seconds from the epoch to the first of a month; month zero has no
\* days, and those after December have none either.
NewMonth(y, m) == CASE m = 0 -> DayNumber(y, 1, 1) * Day
                    [] m \in 1..12 -> DayNumber(y, m, 1) * Day
                    [] OTHER -> DayNumber(y + 1, 1, 1) * Day

LEMMA MonthInSeconds ==
    ASSUME NEW y \in Nat, NEW m \in Nat
    PROVE  /\ days_in_month(y, m) * Day \in Nat
           /\ m \in 1..12 => days_in_month(y, m) * Day > 0
           /\ NewMonth(y, m) \in Int
           /\ NewMonth(y, m + 1) = NewMonth(y, m) + days_in_month(y, m) * Day
<1>1. ASSUME NEW a \in Int, NEW n \in Nat, NEW d \in Nat, d > 0
      PROVE  /\ n * d \in Nat /\ a * d \in Int /\ (a + n) * d = a * d + n * d
             /\ n >= 1 => n * d > 0
  <2>1. n * d \in Nat /\ a * d \in Int /\ (a + n) * d = a * d + n * d
    OBVIOUS
  <2>2. ASSUME n >= 1 PROVE n * d > 0
    <3>1. PICK c \in Nat : n = c + 1
      BY <2>2, n - 1 \in Nat, n = (n - 1) + 1
    <3>2. c * d \in Nat /\ n * d = c * d + d
      BY <3>1
    <3>. QED  BY <3>2, <1>1
  <2>. QED  BY <2>1, <2>2
<1>2. days_in_month(y, m) \in Nat /\ (m \in 1..12 => days_in_month(y, m) >= 1)
  BY DEF days_in_month
<1>3. Day \in Nat /\ Day > 0
  BY LengthsPositive
<1>4. DayNumber(y + 1, 1, 1) \in Int
  BY DayNumberInt
<1>5. CASE m \in 1..12
  <2>1. DayNumber(y, m, 1) \in Int
    BY <1>5, y \in Int, DayNumberInt, Zenon
  <2>2. NextMonth(y, m) = DayNumber(y, m, 1) + days_in_month(y, m)
    BY <1>5, MonthLength
  <2>3. NewMonth(y, m + 1) = NextMonth(y, m) * Day
    BY <1>5 DEF NewMonth, NextMonth
  <2>4. NewMonth(y, m) = DayNumber(y, m, 1) * Day
    BY <1>5 DEF NewMonth
  <2>. QED  BY <1>1, <1>2, <1>3, <2>1, <2>2, <2>3, <2>4, <1>5
<1>6. CASE m = 0
  <2>1. DayNumber(y, 1, 1) \in Int
    BY DayNumberInt
  <2>2. days_in_month(y, m) * Day = 0
    BY <1>3, <1>6 DEF days_in_month
  <2>3. NewMonth(y, m + 1) = DayNumber(y, 1, 1) * Day
    BY <1>6 DEF NewMonth
  <2>4. NewMonth(y, m) = DayNumber(y, 1, 1) * Day
    BY <1>6 DEF NewMonth
  <2>. QED  BY <1>1, <1>3, <2>1, <2>2, <2>3, <2>4, <1>6
<1>7. CASE m > 12
  <2>2. days_in_month(y, m) * Day = 0
    BY <1>3, <1>7 DEF days_in_month
  <2>3. NewMonth(y, m + 1) = DayNumber(y + 1, 1, 1) * Day
    BY <1>7 DEF NewMonth
  <2>4. NewMonth(y, m) = DayNumber(y + 1, 1, 1) * Day
    BY <1>7 DEF NewMonth
  <2>. QED  BY <1>1, <1>3, <1>4, <2>2, <2>3, <2>4, <1>7
<1>. QED  BY <1>5, <1>6, <1>7

LEMMA NewMonthsGrow ==
    ASSUME NEW y \in Nat, NEW m \in Nat, NEW k \in Nat, m < k
    PROVE  NewMonth(y, m + 1) <= NewMonth(y, k)
<1>. DEFINE S == [n \in Nat |-> NewMonth(y, n)]
<1>1. S \in [Nat -> Int]
  BY MonthInSeconds
<1>2. ASSUME NEW n \in Nat
      PROVE  S[n] <= S[n + 1]
  BY MonthInSeconds, n + 1 \in Nat
<1>. HIDE DEF S
<1>3. S[m + 1] <= S[k]
  BY <1>1, <1>2, Monotone, m + 1 \in Nat, m + 1 <= k
<1>. QED  BY <1>3 DEF S

\* As for the years: the loop ends in month k.
MonthEnds(y, m, t, k) == /\ k \in Nat /\ m <= k
                         /\ k = m \/ NewMonth(y, k) < t
                         /\ t <= NewMonth(y, k + 1)

MonthOf(y, m, t) == CHOOSE k : MonthEnds(y, m, t, k)

MonthLeft(y, m, t) == LET k == MonthOf(y, m, t) IN <<y, k, t - NewMonth(y, k)>>

\* One round of the loop over the months.
MonthRound(s, f) ==
    IF s[3] <= days_in_month(s[1], s[2]) * Day THEN s
    ELSE f[<<s[1], s[2] + 1, s[3] - days_in_month(s[1], s[2]) * Day>>]

LEMMA MonthOfRound ==
    ASSUME NEW y \in Nat, NEW m \in Nat, NEW r \in Nat
    PROVE  IF r <= days_in_month(y, m) * Day
           THEN MonthOf(y, m, NewMonth(y, m) + r) = m
           ELSE MonthOf(y, m, NewMonth(y, m) + r) = MonthOf(y, m + 1, NewMonth(y, m) + r)
<1>. DEFINE t == NewMonth(y, m) + r
            l == days_in_month(y, m) * Day
<1>1. /\ l \in Nat /\ NewMonth(y, m) \in Int
      /\ NewMonth(y, m + 1) = NewMonth(y, m) + l
      /\ \A k \in Nat : NewMonth(y, k) \in Int
  BY MonthInSeconds
<1>2. \A k \in Nat : m < k => NewMonth(y, m + 1) <= NewMonth(y, k)
  BY NewMonthsGrow
<1>. HIDE DEF l
<1>4. CASE r <= l
  <2>1. \A k : MonthEnds(y, m, t, k) <=> k = m
    BY <1>1, <1>2, <1>4 DEF MonthEnds
  <2>. HIDE DEF t
  <2>2. MonthOf(y, m, t) = m
    BY <2>1 DEF MonthOf
  <2>. QED  BY <2>2, <1>4 DEF t, l
<1>5. CASE ~(r <= l)
  <2>1. t \in Int /\ t > NewMonth(y, m + 1)
    BY <1>1, <1>5
  <2>. HIDE DEF t
  <2>2. ASSUME NEW k
        PROVE  MonthEnds(y, m, t, k) <=> MonthEnds(y, m + 1, t, k)
    BY <1>1, <1>2, <2>1 DEF MonthEnds
  <2>3. MonthOf(y, m, t) = MonthOf(y, m + 1, t)
    BY <2>2, Zenon DEF MonthOf
  <2>. QED  BY <2>3, <1>5 DEF t, l
<1>. QED  BY <1>4, <1>5

LEMMA MonthLoopExists ==
    \E f : f = [s \in Nat \X Nat \X Nat |-> MonthRound(s, f)]
<1>. DEFINE F(y, m, r) == MonthLeft(y, m, NewMonth(y, m) + r)
            G == [s \in Nat \X Nat \X Nat |-> F(s[1], s[2], s[3])]
<1>1. ASSUME NEW y \in Nat, NEW m \in Nat, NEW r \in Nat
      PROVE  G[<<y, m, r>>] = MonthRound(<<y, m, r>>, G)
  <2>. DEFINE l == days_in_month(y, m) * Day
  <2>1. /\ l \in Nat /\ NewMonth(y, m) \in Int
        /\ NewMonth(y, m + 1) = NewMonth(y, m) + l
    BY MonthInSeconds
  <2>2. G[<<y, m, r>>] = F(y, m, r)
    OBVIOUS
  <2>3. CASE r <= l
    <3>1. MonthOf(y, m, NewMonth(y, m) + r) = m
      BY <2>3, MonthOfRound
    <3>2. F(y, m, r) = <<y, m, r>>
      BY <2>1, <3>1 DEF MonthLeft
    <3>. QED  BY <2>2, <3>2, <2>3 DEF MonthRound
  <2>4. CASE ~(r <= l)
    <3>1. MonthOf(y, m, NewMonth(y, m) + r) = MonthOf(y, m + 1, NewMonth(y, m) + r)
      BY <2>4, MonthOfRound
    <3>. HIDE DEF l
    <3>2. m + 1 \in Nat /\ r - l \in Nat /\ NewMonth(y, m + 1) + (r - l) = NewMonth(y, m) + r
      BY <2>1, <2>4
    <3>3. G[<<y, m + 1, r - l>>] = F(y, m + 1, r - l)
      BY <3>2
    <3>4. F(y, m + 1, r - l) = F(y, m, r)
      BY <3>1, <3>2 DEF MonthLeft
    <3>5. G[<<y, m, r>>] = G[<<y, m + 1, r - l>>]
      BY <2>2, <3>3, <3>4
    <3>. HIDE DEF G, F
    <3>. QED  BY <3>5, <2>4 DEF MonthRound, l
  <2>. QED  BY <2>3, <2>4
<1>2. ASSUME NEW s \in Nat \X Nat \X Nat
      PROVE  G[s] = MonthRound(s, G)
  <2>. HIDE DEF G
  <2>. QED  BY <1>1
<1>3. G = [s \in Nat \X Nat \X Nat |-> MonthRound(s, G)]
  <2>1. G = [s \in Nat \X Nat \X Nat |-> G[s]]
    OBVIOUS
  <2>. HIDE DEF G
  <2>. QED  BY <1>2, <2>1
<1>. HIDE DEF G
<1>. QED  BY <1>3

LEMMA MonthLoopDef ==
    ASSUME NEW y \in Nat, NEW m \in Nat, NEW r \in Nat
    PROVE  MonthLoop[<<y, m, r>>] =
             IF r <= days_in_month(y, m) * Day THEN <<y, m, r>>
             ELSE MonthLoop[<<y, m + 1, r - days_in_month(y, m) * Day>>]
<1>. DEFINE P(f) == f = [s \in Nat \X Nat \X Nat |-> MonthRound(s, f)]
<1>1. \E f : P(f)
  BY MonthLoopExists
<1>2. MonthLoop = CHOOSE f : P(f)
  BY Zenon DEF MonthLoop, MonthRound
<1>. HIDE DEF P
<1>3. P(MonthLoop)
  BY <1>1, <1>2, Zenon
<1>4. MonthLoop = [s \in Nat \X Nat \X Nat |-> MonthRound(s, MonthLoop)]
  BY <1>3 DEF P
<1>. HIDE DEF MonthLoop
<1>5. MonthLoop[<<y, m, r>>] = MonthRound(<<y, m, r>>, MonthLoop)
  BY <1>4
<1>. QED  BY <1>5 DEF MonthRound

\* The loop over the months ends in the month the time lies in.
MonthsDone(y, m, r) ==
    \E k \in 1..12, q \in Nat :
      /\ MonthLoop[<<y, m, r>>] = <<y, k, q>>
      /\ q >= 1 /\ q <= days_in_month(y, k) * Day
      /\ NewMonth(y, m) + r = NewMonth(y, k) + q

\* A time that lies in the year lies in one of its twelve months.
LEMMA MonthLoopEnds ==
    ASSUME NEW y \in Nat, NEW m \in 1..12, NEW r \in Nat, r >= 1,
           NewMonth(y, m) + r <= NewMonth(y, 13)
    PROVE  MonthsDone(y, m, r)
<1>. DEFINE Bad(n, x) == NewMonth(y, x) + n <= NewMonth(y, 13) /\ ~MonthsDone(y, x, n)
            S == {n \in Nat : n >= 1 /\ \E x \in 1..12 : Bad(n, x)}
<1>1. SUFFICES ASSUME S # {} PROVE FALSE
  BY <1>1
<1>2. PICK n \in S : \A i \in S : n <= i
  BY <1>1, MinNat
<1>3. PICK x \in 1..12 : Bad(n, x)
  BY <1>2
<1>. DEFINE l == days_in_month(y, x) * Day
<1>4. /\ l \in Nat /\ l > 0 /\ NewMonth(y, x) \in Int
      /\ NewMonth(y, x + 1) = NewMonth(y, x) + l
  BY MonthInSeconds, x \in Nat
<1>5. MonthLoop[<<y, x, n>>] = IF n <= l THEN <<y, x, n>> ELSE MonthLoop[<<y, x + 1, n - l>>]
  BY <1>2, MonthLoopDef
<1>. HIDE DEF l
<1>6. CASE n <= l
  BY <1>2, <1>3, <1>4, <1>5, <1>6 DEF MonthsDone, l
<1>7. CASE ~(n <= l)
  <2>1. n - l \in Nat /\ n - l >= 1 /\ n - l < n
    BY <1>2, <1>4, <1>7
  <2>2. x # 12
    BY <1>2, <1>3, <1>4, <1>7
  <2>3. x + 1 \in 1..12 /\ NewMonth(y, x + 1) + (n - l) = NewMonth(y, x) + n
    BY <1>2, <1>4, <2>2
  <2>4. MonthsDone(y, x + 1, n - l)
    BY <1>2, <1>3, <2>1, <2>3
  <2>5. PICK k \in 1..12, q \in Nat :
          /\ MonthLoop[<<y, x + 1, n - l>>] = <<y, k, q>>
          /\ q >= 1 /\ q <= days_in_month(y, k) * Day
          /\ NewMonth(y, x + 1) + (n - l) = NewMonth(y, k) + q
    BY <2>4 DEF MonthsDone
  <2>6. NewMonth(y, x) + n = NewMonth(y, k) + q
    BY <2>3, <2>5
  <2>7. MonthLoop[<<y, x, n>>] = <<y, k, q>>
    BY <1>5, <1>7, <2>5
  <2>8. MonthsDone(y, x, n)
    BY <2>5, <2>6, <2>7 DEF MonthsDone
  <2>. QED  BY <1>3, <2>8
<1>. QED  BY <1>6, <1>7
-----------------------------------------------------------------------------
\* Division with remainder.
LEMMA Division ==
    ASSUME NEW a \in Nat, NEW b \in Nat, b > 0
    PROVE  /\ a \div b \in Nat /\ a % b \in Nat /\ a % b < b
           /\ a = (a \div b) * b + (a % b)
OBVIOUS

\* What is left by the loops over days, hours and minutes.
LEMMA LoopRest ==
    ASSUME NEW rest \in Nat, rest >= 1, NEW unit \in Nat, unit > 0,
           NEW n \in Nat, rest <= n * unit
    PROVE  /\ Rounds(rest, unit) \in 0..(n - 1)
           /\ rest - Rounds(rest, unit) * unit \in 1..unit
<1>. DEFINE a == rest - 1
            q == a \div unit
            p == a % unit
<1>1. /\ a \in Nat /\ q \in Nat /\ p \in Nat /\ p < unit /\ a = q * unit + p
  BY Division
<1>2. q * unit < n * unit
  BY <1>1
<1>3. q < n
  <2>. SUFFICES ASSUME n <= q PROVE FALSE
    BY <1>1
  <2>1. PICK c \in Nat : q = n + c
    BY <1>1, q - n \in Nat, q = n + (q - n)
  <2>2. q * unit = n * unit + c * unit /\ c * unit \in Nat /\ n * unit \in Nat
    BY <2>1
  <2>. QED  BY <1>2, <2>2
<1>4. Rounds(rest, unit) = q
  BY DEF Rounds
<1>. HIDE DEF q, p
<1>. QED  BY <1>1, <1>3, <1>4

\* The fields of any positive time denote that time.
LEMMA TimestampExact ==
    ASSUME NEW u \in Nat, u > 0
    PROVE  LET t == systime_unix_to_timestamp(u)
           IN /\ t.year \in Nat /\ t.year >= Epoch
              /\ t.month \in 1..12
              /\ t.day \in 1..days_in_month(t.year, t.month)
              /\ t.hour \in 0..(HoursPerDay - 1)
              /\ t.minute \in 0..(MinutesPerHour - 1)
              /\ t.second \in 1..SecondsPerMinute
              /\ u = DayNumber(t.year, t.month, t.day) * Day + t.hour * Hour
                       + t.minute * SecondsPerMinute + t.second
<1>. USE DEF Epoch
<1>1. YearsDone(Epoch, u)
  BY YearLoopEnds
<1>2. PICK z \in Nat, q \in Nat :
        /\ YearLoop[<<Epoch, u>>] = <<z, q>>
        /\ Epoch <= z
        /\ q >= 1 /\ q <= days_in_year(z) * Day
        /\ NewYear(Epoch) + u = NewYear(z) + q
  BY <1>1 DEF YearsDone
<1>3. NewYear(Epoch) = 0
  BY LengthsPositive, SMT DEF NewYear, DayNumber
<1>4. /\ NewMonth(z, 1) = NewYear(z)
      /\ NewMonth(z, 13) = NewYear(z) + days_in_year(z) * Day
      /\ NewYear(z) \in Int /\ days_in_year(z) * Day \in Nat
  BY YearInSeconds DEF NewMonth, NewYear
<1>5. MonthsDone(z, 1, q)
  BY <1>2, <1>4, MonthLoopEnds
<1>6. PICK m \in 1..12, w \in Nat :
        /\ MonthLoop[<<z, 1, q>>] = <<z, m, w>>
        /\ w >= 1 /\ w <= days_in_month(z, m) * Day
        /\ NewMonth(z, 1) + q = NewMonth(z, m) + w
  BY <1>5 DEF MonthsDone
<1>7. u = DayNumber(z, m, 1) * Day + w
  BY <1>2, <1>3, <1>4, <1>6 DEF NewMonth
<1>. DEFINE day == Rounds(w, Day)
            ofDay == w - day * Day
            hour == Rounds(ofDay, Hour)
            ofHour == ofDay - hour * Hour
            minute == Rounds(ofHour, SecondsPerMinute)
            second == ofHour - minute * SecondsPerMinute
            r == [year |-> z, month |-> m, day |-> day + 1, hour |-> hour,
                  minute |-> minute, second |-> second]
<1>8. systime_unix_to_timestamp(u) = r
  <2>1. systime_unix_to_timestamp(u) =
          LET year == YearLoop[<<Epoch, u>>]
              month == MonthLoop[<<year[1], 1, year[2]>>]
              dy == Rounds(month[3], Day)
              ofDy == month[3] - dy * Day
              hr == Rounds(ofDy, Hour)
              ofHr == ofDy - hr * Hour
              mn == Rounds(ofHr, SecondsPerMinute)
          IN [year |-> year[1], month |-> month[2], day |-> dy + 1, hour |-> hr,
              minute |-> mn, second |-> ofHr - mn * SecondsPerMinute]
    BY DEF systime_unix_to_timestamp
  <2>. QED  BY <1>2, <1>6, <2>1
<1>9. Day \in Nat /\ Day > 0 /\ Hour \in Nat /\ Hour > 0
      /\ SecondsPerMinute \in Nat /\ SecondsPerMinute > 0
      /\ HoursPerDay \in Nat /\ MinutesPerHour \in Nat
  BY LengthsPositive, CalendarAssumption
<1>10. days_in_month(z, m) \in Nat
  BY DEF days_in_month
<1>11. day \in 0..(days_in_month(z, m) - 1) /\ ofDay \in 1..Day
  BY <1>6, <1>9, <1>10, LoopRest
<1>. HIDE DEF day
<1>12. hour \in 0..(HoursPerDay - 1) /\ ofHour \in 1..Hour
  <2>1. ofDay \in Nat /\ ofDay >= 1 /\ ofDay <= HoursPerDay * Hour
    BY <1>11, <1>9 DEF Day
  <2>. HIDE DEF ofDay
  <2>. QED  BY <2>1, <1>9, LoopRest
<1>. HIDE DEF hour
<1>13. minute \in 0..(MinutesPerHour - 1) /\ second \in 1..SecondsPerMinute
  <2>1. ofHour \in Nat /\ ofHour >= 1 /\ ofHour <= MinutesPerHour * SecondsPerMinute
    BY <1>12, <1>9 DEF Hour
  <2>. HIDE DEF ofHour
  <2>. QED  BY <2>1, <1>9, LoopRest
<1>. HIDE DEF minute
<1>14. w = day * Day + hour * Hour + minute * SecondsPerMinute + second
  BY <1>6, <1>9, <1>11, <1>12, <1>13
<1>15. DayNumber(z, m, day + 1) * Day = DayNumber(z, m, 1) * Day + day * Day
  <2>1. DayNumber(z, m, day + 1) = DayNumber(z, m, 1) + (day + 1) - 1
    BY <1>11, DayInMonth
  <2>2. DayNumber(z, m, 1) \in Int
    BY z \in Int, DayNumberInt, Zenon
  <2>3. DayNumber(z, m, day + 1) = DayNumber(z, m, 1) + day
    BY <2>1, <2>2, <1>11
  <2>4. ASSUME NEW a \in Int, NEW b \in Int, NEW c \in Nat
        PROVE  (a + b) * c = a * c + b * c
    OBVIOUS
  <2>. QED  BY <2>2, <2>3, <2>4, <1>9, <1>11
<1>. HIDE DEF second
<1>16. u = DayNumber(z, m, day + 1) * Day + hour * Hour
             + minute * SecondsPerMinute + second
  <2>1. DayNumber(z, m, 1) * Day \in Int /\ day * Day \in Int /\ hour * Hour \in Int
        /\ minute * SecondsPerMinute \in Int /\ second \in Int
    <3>1. DayNumber(z, m, 1) \in Int
      BY z \in Int, DayNumberInt, Zenon
    <3>. QED  BY <1>9, <1>11, <1>12, <1>13, <3>1
  <2>. QED  BY <1>7, <1>14, <1>15, <2>1
<1>. QED  BY <1>2, <1>8, <1>10, <1>11, <1>12, <1>13, <1>16
-----------------------------------------------------------------------------
\* YearsTo, too, has a closed form.
LEMMA YearsToExists ==
    \E f : f = [y \in Nat |-> IF y <= Epoch THEN 0 ELSE f[y - 1] + days_in_year(y) * Day]
<1>. DEFINE G == [y \in Nat |-> IF y <= Epoch THEN 0 ELSE NewYear(y + 1) - NewYear(Epoch + 1)]
            R == [y \in Nat |-> IF y <= Epoch THEN 0 ELSE G[y - 1] + days_in_year(y) * Day]
<1>. USE DEF Epoch
<1>1. ASSUME NEW y \in Nat
      PROVE  G[y] = R[y]
  <2>1. CASE y <= Epoch
    BY <2>1
  <2>2. CASE ~(y <= Epoch)
    <3>1. /\ NewYear(y + 1) = NewYear(y) + days_in_year(y) * Day
          /\ NewYear(y) \in Int /\ days_in_year(y) * Day \in Nat
          /\ NewYear(Epoch + 1) \in Int
      BY YearInSeconds
    <3>2. y - 1 \in Nat /\ (y - 1) + 1 = y
      BY <2>2
    <3>. DEFINE x == y - 1
    <3>3. x \in Nat /\ x + 1 = y
      BY <3>2
    <3>. HIDE DEF x
    <3>4. G[x] = NewYear(y) - NewYear(Epoch + 1)
      BY <3>1, <3>3, <2>2
    <3>5. G[y] = NewYear(y + 1) - NewYear(Epoch + 1)
      BY <2>2
    <3>6. R[y] = G[x] + days_in_year(y) * Day
      BY <2>2 DEF x
    <3>. HIDE DEF G, R
    <3>. QED  BY <3>1, <3>4, <3>5, <3>6
  <2>. QED  BY <2>1, <2>2
<1>2. G = R
  <2>1. G = [y \in Nat |-> G[y]] /\ R = [y \in Nat |-> R[y]]
    OBVIOUS
  <2>. HIDE DEF G, R
  <2>. QED  BY <1>1, <2>1
<1>. HIDE DEF G
<1>. QED  BY <1>2

LEMMA YearsToDef ==
    ASSUME NEW y \in Nat
    PROVE  YearsTo[y] = IF y <= Epoch THEN 0 ELSE YearsTo[y - 1] + days_in_year(y) * Day
<1>. DEFINE P(f) == f = [x \in Nat |-> IF x <= Epoch THEN 0
                                       ELSE f[x - 1] + days_in_year(x) * Day]
<1>1. \E f : P(f)
  BY YearsToExists
<1>2. YearsTo = CHOOSE f : P(f)
  BY Zenon DEF YearsTo
<1>. HIDE DEF P
<1>3. P(YearsTo)
  BY <1>1, <1>2, Zenon
<1>4. YearsTo = [x \in Nat |-> IF x <= Epoch THEN 0
                               ELSE YearsTo[x - 1] + days_in_year(x) * Day]
  BY <1>3 DEF P
<1>. HIDE DEF YearsTo
<1>. QED  BY <1>4

\* All that matters of it here is that it is whole days.
LEMMA YearsToWholeDays ==
    ASSUME NEW y \in Nat
    PROVE  \E n \in Nat : YearsTo[y] = n * Day
<1>. DEFINE W(x) == \E n \in Nat : YearsTo[x] = n * Day
            S == {x \in Nat : ~W(x)}
<1>1. SUFFICES ASSUME S # {} PROVE FALSE
  OBVIOUS
<1>2. PICK x \in S : \A i \in S : x <= i
  BY <1>1, MinNat
<1>3. Day \in Nat
  BY LengthsPositive
<1>4. CASE x <= Epoch
  <2>1. YearsTo[x] = 0 * Day
    BY <1>2, <1>3, <1>4, YearsToDef
  <2>. QED  BY <1>2, <2>1
<1>5. CASE ~(x <= Epoch)
  <2>1. x - 1 \in Nat /\ x - 1 < x
    BY <1>2, <1>5 DEF Epoch
  <2>2. PICK n \in Nat : YearsTo[x - 1] = n * Day
    BY <1>2, <2>1
  <2>3. days_in_year(x) \in Nat
    BY DEF days_in_year
  <2>4. (n + days_in_year(x)) * Day = n * Day + days_in_year(x) * Day
    BY <1>3, <2>3
  <2>5. YearsTo[x] = (n + days_in_year(x)) * Day
    BY <1>2, <1>5, <2>2, <2>4, YearsToDef
  <2>. QED  BY <1>2, <2>3, <2>5
<1>. QED  BY <1>4, <1>5

\* The dialog has no years before the epoch.
LEMMA YearsFromNone ==
    ASSUME NEW y \in Nat, y >= Epoch
    PROVE  YearsFrom[y] = 0
<1>. DEFINE P(f) == f = [x \in Nat |-> IF x >= Epoch THEN 0
                                       ELSE f[x + 1] + days_in_year(x) * Day]
            G == [x \in Nat |-> IF x >= Epoch THEN 0 ELSE NewYear(Epoch) - NewYear(x)]
            R == [x \in Nat |-> IF x >= Epoch THEN 0 ELSE G[x + 1] + days_in_year(x) * Day]
<1>1. ASSUME NEW x \in Nat
      PROVE  G[x] = R[x]
  <2>1. CASE x >= Epoch
    BY <2>1
  <2>2. CASE ~(x >= Epoch)
    <3>1. /\ NewYear(x + 1) = NewYear(x) + days_in_year(x) * Day
          /\ NewYear(x) \in Int /\ days_in_year(x) * Day \in Nat
          /\ NewYear(Epoch) \in Int
      BY YearInSeconds DEF Epoch
    <3>2. G[x + 1] = NewYear(Epoch) - NewYear(x + 1)
      <4>1. CASE x + 1 = Epoch
        <5>1. G[x + 1] = 0
          BY <4>1 DEF Epoch
        <5>. HIDE DEF G
        <5>. QED  BY <3>1, <4>1, <5>1
      <4>2. CASE x + 1 # Epoch
        BY <2>2, <4>2 DEF Epoch
      <4>. QED  BY <4>1, <4>2
    <3>3. G[x] = NewYear(Epoch) - NewYear(x)
      BY <2>2
    <3>4. R[x] = G[x + 1] + days_in_year(x) * Day
      BY <2>2
    <3>. HIDE DEF G, R
    <3>. QED  BY <3>1, <3>2, <3>3, <3>4
  <2>. QED  BY <2>1, <2>2
<1>2. G = R
  <2>1. G = [x \in Nat |-> G[x]] /\ R = [x \in Nat |-> R[x]]
    OBVIOUS
  <2>. HIDE DEF G, R
  <2>. QED  BY <1>1, <2>1
<1>3. P(G)
  <2>. HIDE DEF G
  <2>. QED  BY <1>2
<1>4. YearsFrom = CHOOSE f : P(f)
  BY Zenon DEF YearsFrom
<1>. HIDE DEF P, G
<1>5. P(YearsFrom)
  BY <1>3, <1>4, Zenon
<1>6. YearsFrom = [x \in Nat |-> IF x >= Epoch THEN 0
                                 ELSE YearsFrom[x + 1] + days_in_year(x) * Day]
  BY <1>5 DEF P
<1>. HIDE DEF YearsFrom
<1>. QED  BY <1>6

\* Adding multiples of d changes no remainder.
LEMMA Remainder ==
    ASSUME NEW d \in Nat, d > 0, NEW a \in Nat, NEW b \in Nat, NEW k \in Int,
           a = b + k * d
    PROVE  a % d = b % d
<1>. DEFINE q == a \div d
            p == a % d
            s == b \div d
            t == b % d
<1>1. /\ q \in Nat /\ p \in Nat /\ p < d /\ a = q * d + p
      /\ s \in Nat /\ t \in Nat /\ t < d /\ b = s * d + t
  BY Division
<1>. HIDE DEF q, p, s, t
<1>2. ASSUME NEW x \in Int, NEW y \in Int, x < y
      PROVE  y * d >= x * d + d
  <2>1. PICK c \in Nat : y = x + 1 + c
    <3>1. y - x - 1 \in Nat /\ y = x + 1 + (y - x - 1)
      BY <1>2
    <3>. QED  BY <3>1
  <2>2. y * d = x * d + d + c * d /\ c * d \in Nat /\ x * d \in Int
    BY <2>1
  <2>. QED  BY <2>2
<1>3. s + k \in Int /\ (s + k) * d = s * d + k * d /\ s * d \in Int /\ k * d \in Int /\ q * d \in Int
  BY <1>1
<1>4. q * d + p = (s + k) * d + t
  BY <1>1, <1>3
<1>5. ~(q < s + k) /\ ~(s + k < q)
  BY <1>1, <1>2, <1>3, <1>4
<1>6. q = s + k
  BY <1>1, <1>3, <1>5
<1>7. p = t
  BY <1>1, <1>3, <1>4, <1>6
<1>. QED  BY <1>7 DEF p, t
-----------------------------------------------------------------------------
\* The numbers of the dialog, within their limits.
Numbers(n) == /\ n \in [0..5 -> Int]
              /\ \A i \in 0..5 : Lowest(i) <= n[i] /\ n[i] <= Highest(i)

\* The system time is known while no dialog is open, and the dialog holds
\* numbers it offers.
CalendarInv ==
    \/ dialog = NoDialog /\ unix \in Nat
    \/ /\ unix = Unread
       /\ dialog \in [numbers : [0..5 -> Int], selected : 0..5]
       /\ Numbers(dialog.numbers)

\* The time set is the time of day chosen and some days, at least one.
LEMMA ChosenTime ==
    ASSUME NEW n, Numbers(n)
    PROVE  \E k \in Nat :
             /\ n[3] * Hour + n[4] * SecondsPerMinute + n[5] \in Nat
             /\ k > 0
             /\ systime_timestamp_to_unix(n)
                  = n[3] * Hour + n[4] * SecondsPerMinute + n[5] + k * Day
<1>1. /\ n[0] \in Nat /\ n[0] >= Epoch
      /\ n[1] \in Nat /\ n[2] \in Nat /\ n[2] >= 1
      /\ n[3] \in Nat /\ n[4] \in Nat /\ n[5] \in Nat
  <2>1. ASSUME NEW i \in 0..5 PROVE n[i] \in Int /\ Lowest(i) <= n[i]
    BY DEF Numbers
  <2>2. Lowest(0) = DialogFirst /\ Lowest(1) = 1 /\ Lowest(2) = 1
        /\ Lowest(3) = 0 /\ Lowest(4) = 0 /\ Lowest(5) = 0
    BY DEF Lowest
  <2>3. DialogFirst \in Nat /\ Epoch <= DialogFirst
    BY CalendarAssumption
  <2>. QED  BY <2>1, <2>2, <2>3 DEF Epoch
<1>2. PICK y \in Nat : YearsTo[n[0]] = y * Day
  BY <1>1, YearsToWholeDays
<1>3. YearsFrom[n[0]] = 0
  BY <1>1, YearsFromNone
<1>4. Hour \in Nat /\ Day \in Nat /\ SecondsPerMinute \in Nat
  BY LengthsPositive, CalendarAssumption
<1>. DEFINE m == days_in_month(n[0], n[1])
            k == n[2] + n[1] * m + y
            a == n[3] * Hour
            b == n[4] * SecondsPerMinute
<1>5. m \in Nat
  BY DEF days_in_month
<1>6. systime_timestamp_to_unix(n) = n[5] + b + a + n[2] * Day + n[1] * m * Day + y * Day - 0
  BY <1>2, <1>3 DEF systime_timestamp_to_unix
<1>. HIDE DEF m
<1>7. a \in Nat /\ b \in Nat /\ n[1] * m \in Nat /\ k \in Nat /\ k > 0
  BY <1>1, <1>4, <1>5
<1>8. k * Day = n[2] * Day + n[1] * m * Day + y * Day
  <2>1. ASSUME NEW u \in Nat, NEW v \in Nat, NEW w \in Nat, NEW d \in Nat
        PROVE  (u + v + w) * d = u * d + v * d + w * d
    OBVIOUS
  <2>. QED  BY <2>1, <1>1, <1>4, <1>7
<1>9. n[2] * Day \in Nat /\ n[1] * m * Day \in Nat /\ y * Day \in Nat
  BY <1>1, <1>4, <1>7
<1>. HIDE DEF a, b, k
<1>10. systime_timestamp_to_unix(n) = a + b + n[5] + k * Day /\ a + b + n[5] \in Nat
  BY <1>1, <1>6, <1>7, <1>8, <1>9
<1>. QED  BY <1>7, <1>10 DEF a, b

\* So setting it is not refused.
LEMMA SetFromDialog ==
    ASSUME NEW n, Numbers(n)
    PROVE  systime_timestamp_to_unix(n) \in Nat /\ systime_timestamp_to_unix(n) > 0
<1>1. PICK k \in Nat :
             /\ n[3] * Hour + n[4] * SecondsPerMinute + n[5] \in Nat
             /\ k > 0
             /\ systime_timestamp_to_unix(n)
                  = n[3] * Hour + n[4] * SecondsPerMinute + n[5] + k * Day
  BY ChosenTime
<1>2. k * Day \in Nat /\ k * Day > 0
  <2>1. PICK c \in Nat : k = c + 1
    BY <1>1, k - 1 \in Nat, k = (k - 1) + 1
  <2>2. c * Day \in Nat /\ k * Day = c * Day + Day
    BY <2>1, LengthsPositive
  <2>. QED  BY <2>2, LengthsPositive
<1>. QED  BY <1>1, <1>2

\* The clock shows the time of day of any positive time.
LEMMA ShownTime ==
    ASSUME NEW n, Numbers(n)
    PROVE  LET t == drawfunc(systime_timestamp_to_unix(n))
           IN OfDay(t.hour, t.minute, t.second) = OfDay(n[3], n[4], n[5])
<1>. DEFINE u == systime_timestamp_to_unix(n)
            ts == systime_unix_to_timestamp(u)
            t == drawfunc(u)
            f == t.hour * Hour + t.minute * SecondsPerMinute + t.second
            g == n[3] * Hour + n[4] * SecondsPerMinute + n[5]
<1>1. u \in Nat /\ u > 0
  BY SetFromDialog
<1>2. PICK k \in Nat : g \in Nat /\ u = g + k * Day
  BY ChosenTime
<1>. HIDE DEF u
<1>3. /\ ts.year \in Nat
      /\ ts.month \in 1..12
      /\ ts.day \in 1..days_in_month(ts.year, ts.month)
      /\ ts.hour \in 0..(HoursPerDay - 1)
      /\ ts.minute \in 0..(MinutesPerHour - 1)
      /\ ts.second \in 1..SecondsPerMinute
      /\ u = DayNumber(ts.year, ts.month, ts.day) * Day + ts.hour * Hour
               + ts.minute * SecondsPerMinute + ts.second
  BY <1>1, TimestampExact
<1>4. t.hour = ts.hour /\ t.minute = ts.minute /\ t.second = ts.second
  BY <1>1 DEF drawfunc
<1>. DEFINE e == DayNumber(ts.year, ts.month, ts.day)
<1>5. e \in Int
  <2>1. ts.year \in Int /\ ts.day \in Int
    BY <1>3 DEF days_in_month
  <2>2. DayNumber(ts.year, ts.month, ts.day) = DayNumber(ts.year, ts.month, 1) + ts.day - 1
    BY <1>3, <2>1, DayInMonth, Zenon
  <2>3. DayNumber(ts.year, ts.month, 1) \in Int
    BY <1>3, <2>1, DayNumberInt, Zenon
  <2>. QED  BY <2>1, <2>2, <2>3
<1>6. Day \in Nat /\ Day > 0 /\ Hour \in Nat /\ SecondsPerMinute \in Nat
      /\ HoursPerDay \in Nat /\ MinutesPerHour \in Nat
  BY LengthsPositive, CalendarAssumption
<1>. HIDE DEF ts, t
<1>7. t.hour \in Nat /\ t.minute \in Nat /\ t.second \in Nat
  BY <1>3, <1>4, <1>6
<1>8. t.hour * Hour \in Nat /\ t.minute * SecondsPerMinute \in Nat
  BY <1>6, <1>7
<1>9. f \in Nat /\ u = e * Day + f
  <2>. HIDE DEF e
  <2>1. e * Day \in Int
    BY <1>5, <1>6
  <2>2. u = e * Day + t.hour * Hour + t.minute * SecondsPerMinute + t.second
    BY <1>3, <1>4 DEF e
  <2>. QED  BY <1>7, <1>8, <2>1, <2>2
<1>. HIDE DEF f, g, e
<1>10. f = g + (k - e) * Day /\ k - e \in Int
  <2>1. k * Day \in Int /\ e * Day \in Int /\ (k - e) * Day = k * Day - e * Day
    BY <1>5, <1>6
  <2>. QED  BY <1>2, <1>5, <1>9, <2>1
<1>11. f % Day = g % Day
  BY <1>2, <1>6, <1>9, <1>10, Remainder
<1>. QED  BY <1>11 DEF OfDay, f, g, t, u

LEMMA DecodedKnown ==
    ASSUME unix \in Nat
    PROVE  Decoded
<1>. SUFFICES ASSUME unix > 0 PROVE Decoded
  BY DEF Decoded
<1>. DEFINE t == systime_unix_to_timestamp(unix)
<1>1. /\ t.year \in Nat /\ t.year >= Epoch
      /\ t.month \in 1..12
      /\ t.day \in 1..days_in_month(t.year, t.month)
      /\ t.hour \in 0..(HoursPerDay - 1)
      /\ t.minute \in 0..(MinutesPerHour - 1)
      /\ t.second \in 1..SecondsPerMinute
      /\ unix = DayNumber(t.year, t.month, t.day) * Day + t.hour * Hour
                  + t.minute * SecondsPerMinute + t.second
  BY TimestampExact
<1>. HIDE DEF t
<1>2. t.year \in Int /\ t.day \in Int /\ days_in_month(t.year, t.month) \in Nat
  BY <1>1 DEF days_in_month
<1>3. DayNumber(t.year, t.month, t.day) = DayNumber(t.year, t.month, 1) + t.day - 1
  BY <1>1, <1>2, DayInMonth, Zenon
<1>4. DayNumber(t.year, t.month, 1) \in Int
  BY <1>1, <1>2, DayNumberInt, Zenon
<1>5. NextMonth(t.year, t.month)
        = DayNumber(t.year, t.month, 1) + days_in_month(t.year, t.month)
  BY <1>1, <1>2, MonthLength, Zenon
<1>6. DayNumber(t.year, t.month, t.day) < NextMonth(t.year, t.month)
  BY <1>1, <1>2, <1>3, <1>4, <1>5
<1>. QED  BY <1>1, <1>6 DEF Decoded, t
-----------------------------------------------------------------------------
Dialogs == [numbers : [0..5 -> Int], selected : 0..5]

LEMMA CalendarInitially == CalendarInit => CalendarInv
BY CalendarAssumption DEF CalendarInit, CalendarInv

LEMMA DialogOpens ==
    ASSUME CalendarInv, OpenDialog
    PROVE  CalendarInv'
<1>. DEFINE n == [i \in 0..5 |-> CASE i = 0 -> DialogStart
                                   [] i \in 1..2 -> 1
                                   [] OTHER -> 0]
<1>1. dialog' = [numbers |-> n, selected |-> 0] /\ unix' = Unread
  BY DEF OpenDialog
<1>2. /\ DialogStart \in Int /\ DialogFirst <= DialogStart /\ DialogStart <= DialogLast
      /\ HoursPerDay \in Nat \ {0} /\ MinutesPerHour \in Nat \ {0}
      /\ SecondsPerMinute \in Nat \ {0}
  BY CalendarAssumption
<1>3. n \in [0..5 -> Int]
  BY <1>2
<1>4. Numbers(n)
  <2>1. ASSUME NEW i \in 0..5 PROVE Lowest(i) <= n[i] /\ n[i] <= Highest(i)
    BY <1>2 DEF Lowest, Highest
  <2>. QED  BY <1>3, <2>1 DEF Numbers
<1>. HIDE DEF n
<1>. QED  BY <1>1, <1>3, <1>4 DEF CalendarInv

\* The arrows keep the numbers within their limits.
LEMMA DialogGoesOn ==
    ASSUME CalendarInv, DialogRound
    PROVE  CalendarInv' /\ dialog' # NoDialog
<1>1. /\ unix = Unread /\ unix' = Unread
      /\ dialog \in Dialogs /\ Numbers(dialog.numbers)
  BY DEF CalendarInv, DialogRound, Dialogs
<1>. DEFINE s == dialog.selected
            n == dialog.numbers
<1>2. PICK up \in BOOLEAN, down \in BOOLEAN, left \in BOOLEAN, right \in BOOLEAN :
        dialog' =
           [numbers |-> [n EXCEPT ![s] =
                CASE up /\ n[s] < Highest(s) -> n[s] + 1
                  [] down /\ n[s] > Lowest(s) -> n[s] - 1
                  [] OTHER -> n[s]],
            selected |-> CASE left /\ s > 0 -> s - 1
                           [] right /\ s < 5 -> s + 1
                           [] OTHER -> s]
  BY DEF DialogRound
<1>3. s \in 0..5 /\ n \in [0..5 -> Int] /\ Numbers(n)
  BY <1>1 DEF Dialogs
<1>4. PICK v : v = CASE up /\ n[s] < Highest(s) -> n[s] + 1
                     [] down /\ n[s] > Lowest(s) -> n[s] - 1
                     [] OTHER -> n[s]
  OBVIOUS
<1>5. PICK w : w = CASE left /\ s > 0 -> s - 1
                     [] right /\ s < 5 -> s + 1
                     [] OTHER -> s
  OBVIOUS
<1>6. w \in 0..5
  BY <1>3, <1>5
<1>7. Lowest(s) \in Int /\ Highest(s) \in Int
  BY <1>3, CalendarAssumption DEF Lowest, Highest
<1>8. v \in Int /\ Lowest(s) <= v /\ v <= Highest(s)
  <2>1. n[s] \in Int /\ Lowest(s) <= n[s] /\ n[s] <= Highest(s)
    BY <1>3 DEF Numbers
  <2>. QED  BY <1>4, <1>7, <2>1
<1>9. PICK m : m = [n EXCEPT ![s] = v]
  OBVIOUS
<1>10. dialog' = [numbers |-> m, selected |-> w]
  BY <1>2, <1>4, <1>5, <1>9
<1>11. Numbers(m) /\ m \in [0..5 -> Int]
  BY <1>3, <1>8, <1>9 DEF Numbers
<1>12. dialog' \in Dialogs /\ dialog'.numbers = m
  BY <1>6, <1>10, <1>11 DEF Dialogs
<1>13. NoDialog \notin Dialogs
  BY CalendarAssumption DEF Dialogs
<1>. QED  BY <1>1, <1>11, <1>12, <1>13 DEF CalendarInv, Dialogs

LEMMA DialogCloses ==
    ASSUME CalendarInv, CloseDialog
    PROVE  /\ Numbers(dialog.numbers)
           /\ unix' = systime_timestamp_to_unix(dialog.numbers)
           /\ unix' \in Nat /\ dialog' = NoDialog
<1>1. Numbers(dialog.numbers) /\ dialog' = NoDialog
  BY DEF CloseDialog, CalendarInv
<1>. DEFINE u == systime_timestamp_to_unix(dialog.numbers)
<1>2. u \in Nat /\ u > 0
  BY <1>1, SetFromDialog
<1>3. unix' = IF u <= 0 THEN unix ELSE u
  BY DEF CloseDialog, systime_set_unix
<1>. HIDE DEF u
<1>4. unix' = u
  BY <1>2, <1>3
<1>. QED  BY <1>1, <1>2, <1>4 DEF u

\* Every step keeps the invariant.
LEMMA CalendarStep ==
    ASSUME CalendarInv, [CalendarNext]_CalendarVars
    PROVE  CalendarInv'
<1>. USE CalendarAssumption
<1>1. CASE SetUnix
  <2>1. unix \in Nat /\ dialog = NoDialog /\ dialog' = NoDialog
    BY <1>1 DEF SetUnix, CalendarInv
  <2>2. PICK u \in Int : unix' = IF u <= 0 THEN unix ELSE u
    BY <1>1 DEF SetUnix, systime_set_unix
  <2>. QED  BY <2>1, <2>2 DEF CalendarInv
<1>2. CASE RtcTick
  BY <1>2 DEF RtcTick, CalendarInv
<1>3. CASE ToggleClock
  BY <1>3 DEF ToggleClock, CalendarInv
<1>4. CASE OpenDialog
  BY <1>4, DialogOpens
<1>5. CASE DialogRound
  BY <1>5, DialogGoesOn
<1>6. CASE CloseDialog
  BY <1>6, DialogCloses DEF CalendarInv
<1>7. CASE UNCHANGED CalendarVars
  BY <1>7 DEF CalendarVars, CalendarInv
<1>. QED  BY <1>1, <1>2, <1>3, <1>4, <1>5, <1>6, <1>7 DEF CalendarNext

LEMMA CalendarInvHolds == CalendarSpec => []CalendarInv
BY CalendarInitially, CalendarStep, PTL DEF CalendarSpec

(***************************************************************************)
(* Decoded (systime_unix_to_timestamp, systime.c:228): for every positive  *)
(* time and any lengths of minutes, hours and days the loops end, and the  *)
(* fields are those of an existing date and time of day that denote the    *)
(* time given.                                                             *)
(***************************************************************************)
THEOREM DecodedHolds == CalendarSpec => []Decoded
<1>1. CalendarInv => Decoded
  <2>1. CASE unix \in Nat
    BY <2>1, DecodedKnown
  <2>2. CASE unix = Unread
    BY <2>2 DEF Decoded
  <2>. QED  BY <2>1, <2>2 DEF CalendarInv
<1>. QED  BY <1>1, CalendarInvHolds, PTL

(***************************************************************************)
(* DialogKeepsTimeOfDay (time-dialog.c:182): with every choice of numbers  *)
(* and any limits of the years, closing the dialog sets the clock to the   *)
(* time of day chosen.                                                     *)
(***************************************************************************)
THEOREM TimeOfDayKept == CalendarSpec => DialogKeepsTimeOfDay
<1>. DEFINE SameTimeOfDay == dialog # NoDialog /\ dialog' = NoDialog =>
                      LET n == dialog.numbers
                          t == drawfunc(unix')
                      IN OfDay(t.hour, t.minute, t.second) = OfDay(n[3], n[4], n[5])
<1>1. ASSUME CalendarInv, [CalendarNext]_CalendarVars
      PROVE  [SameTimeOfDay]_CalendarVars
  <2>1. CASE CloseDialog
    BY <1>1, <2>1, DialogCloses, ShownTime
  <2>2. CASE DialogRound
    BY <1>1, <2>2, DialogGoesOn
  <2>3. CASE SetUnix \/ RtcTick \/ ToggleClock \/ OpenDialog
    BY <2>3 DEF SetUnix, RtcTick, ToggleClock, OpenDialog
  <2>. QED  BY <1>1, <2>1, <2>2, <2>3 DEF CalendarNext
<1>. QED  BY <1>1, CalendarInvHolds, PTL DEF CalendarSpec, DialogKeepsTimeOfDay
=============================================================================
