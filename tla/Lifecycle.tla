----------------------------- MODULE Lifecycle -----------------------------
(***************************************************************************)
(* How OSExt comes and goes: main and initialize in kernel/start.c,        *)
(* relocate_self, init_kernel, install_exception_handlers, claimLCD,       *)
(* install_hooks and uninstall_osext, in the RELEASE build.  Launching     *)
(* OSExt again uninstalls the instance that runs and installs a new one;   *)
(* the program uninstaller only uninstalls.                                *)
(*                                                                         *)
(* TI-OS runs whenever pc = "idle", and its other threads also while a     *)
(* launch is under way with interrupts on.  Its heap may refuse any        *)
(* request.  Instances are numbered by launch, 0 is TI-OS.                 *)
(*                                                                         *)
(* The instructions that are patched are known twice: as they are in       *)
(* memory and as they were when the caches were last cleared, which is     *)
(* what the CPU may go on fetching.                                        *)
(***************************************************************************)
EXTENDS Integers, Sequences

CONSTANTS NLaunches, \* bound: launches of OSExt
          NBlocks    \* page blocks init_kernel asks for, 4 in the code

ASSUME LifecycleAssumption == NLaunches \in Nat \ {0} /\ NBlocks \in Nat \ {0, 1}

VARIABLES
    pc,        \* where the launch under way is; "idle": in TI-OS
    cur,       \* the launch under way, or the last one
    irq,       \* interrupts are enabled
    high,      \* the exception vectors are at 0xffff0000
    tt,        \* the translation table: the page table of a section, and whose it is
    ti,        \* what is allocated in the heap of TI-OS
    os,        \* the instructions of TI-OS at the places of the hooks: stored, and fetched
    lcd,       \* whose framebuffer the LCD shows
    stacks,    \* whose stacks the modes abort, undefined and FIQ have
    inst,      \* the variables of every instance
    supported, \* the hooks whose address is known for this version of TI-OS
    gone       \* history: instances that were uninstalled

vars == <<pc, cur, irq, high, tt, ti, os, lcd, stacks, inst, supported, gone>>

\* sections of the address space: virtual_base_address of the kernel, that of the
\* uninstaller, and the one of the exception vectors
KernelBase == "0xe0100000"
UninstallerBase == "0xe0000000"
Vectors == "0xfff00000"
Sections == {KernelBase, UninstallerBase, Vectors}
Table(k, t) == [k |-> k, table |-> t]
Invalid == Table(0, "none")

\* instructions
Os(n) == [op |-> "os", arg |-> n]
Nop == [op |-> "nop", arg |-> 0]
Jump == [op |-> "jump", arg |-> 0]
To(k) == [op |-> "address", arg |-> k]
Original == [file |-> <<Os(1), Os(2)>>, draw |-> <<Os(3), Os(4), Os(5), Os(6)>>]
Untouched == [memory |-> Original, fetched |-> Original]

\* the variables of a program that was just loaded
Image == [chunk |-> FALSE, pds |-> FALSE, blocks |-> 0, file |-> <<>>, draw |-> <<>>,
          drawInst |-> <<>>, enabled |-> FALSE, oldfb |-> 0]

-----------------------------------------------------------------------------
\* Caches and hooks.

Store(code, place, words) == [code EXCEPT !.memory[place] = words]

\* clean the data cache, invalidate the caches
ClearCaches(code) == [code EXCEPT !.fetched = code.memory]

\* mutant: a message that leaves the caches alone
ShellPrintlnOnly(code) == code

\* every message of the shell ends with clear_caches, in the RELEASE build too
ShellPrintln(code) == ClearCaches(code)

\* HOOK_INSTALL and HOOK_UNINSTALL
Patched(words, k) == <<Jump, To(k)>> \o SubSeq(words, 3, Len(words))
Unpatched(words, saved) == saved \o SubSeq(words, 3, Len(words))
HookInstall(code, place, k) ==
    ClearCaches(Store(code, place, Patched(code.memory[place], k)))
HookUninstall(code, place, saved) ==
    ClearCaches(Store(code, place, Unpatched(code.memory[place], saved)))

\* mutant: the instructions of TI-OS are put back before HOOK_UNINSTALL
DrawRestoredFirst(k, code) ==
    HookUninstall(Store(code, "draw", inst[k].drawInst), "draw", inst[k].draw)

\* HOOK_UNINSTALL puts back the nops it found, then come the saved instructions: they
\* are stored after its clear_caches, so the CPU may still fetch the nops
DrawRestored(k, code) ==
    Store(HookUninstall(code, "draw", inst[k].draw), "draw", inst[k].drawInst)

FileRestored(k, code) ==
    IF "file" \in supported THEN HookUninstall(code, "file", inst[k].file) ELSE code
UninstallHooks(k, code) ==
    IF "draw" \in supported THEN DrawRestored(k, FileRestored(k, code)) ELSE FileRestored(k, code)

\* what install_hooks records in the variables r of its instance
HooksSaved(r) ==
    [r EXCEPT !.file = IF "file" \in supported THEN SubSeq(os.memory.file, 1, 2) ELSE @,
              !.drawInst = IF "draw" \in supported THEN os.memory.draw ELSE @,
              !.draw = IF "draw" \in supported THEN <<Nop, Nop>> ELSE @,
              !.enabled = "draw" \in supported]

FileHooked(k, code) ==
    IF "file" \in supported THEN HookInstall(code, "file", k) ELSE code
DrawHooked(k, code) ==
    IF "draw" \in supported
    THEN HookInstall(Store(code, "draw", <<Nop, Nop, Nop, Nop>>), "draw", k) ELSE code

InstallHooks ==
    /\ pc = "hooks"
    /\ inst' = [inst EXCEPT ![cur] = HooksSaved(@)]
    /\ os' = DrawHooked(cur, FileHooked(cur, os))
    /\ pc' = "modules"
    /\ UNCHANGED <<cur, irq, high, tt, ti, lcd, stacks, supported, gone>>

\* A task of TI-OS draws, between any two steps with interrupts on: the hook shows the
\* framebuffer of OSExt, TI-OS itself its own.  It runs the instructions that are cached
\* or those in memory.
Draw ==
    /\ irq
    /\ \E from \in DOMAIN os :
          LET words == os[from].draw
              k == words[2].arg
          IN  lcd' = IF words[1] = Jump /\ inst[k].enabled THEN k ELSE 0
    /\ UNCHANGED <<pc, cur, irq, high, tt, ti, os, stacks, inst, supported, gone>>

-----------------------------------------------------------------------------
\* Uninstalling.

\* swi 0xf80000, handled by instance k with all interrupts off.  It returns the pointer
\* to the kernel's memory, which the caller frees; its memory for a framebuffer of its
\* own is freed at the end (the code takes it for granted that it gets this memory).
\* "freeing memory" is the first message after uninstall_hooks.
UninstallOsext(k) ==
    /\ high' = FALSE
    /\ os' = ShellPrintln(UninstallHooks(k, os))
    /\ inst' = [inst EXCEPT ![k].enabled = FALSE, ![k].blocks = 0]
    /\ lcd' = inst[k].oldfb
    /\ gone' = gone \union {k}
    /\ UNCHANGED <<cur, irq, stacks, supported>>

\* mutants: an instance is never detected; the page blocks stay
OsextDetectedNot(base) == FALSE

OsextDetected(base) == high /\ tt[base] # Invalid
FreedOnUninstall(k) == {<<k, "blocks">>, <<k, "chunk">>}

\* the end of main and of the uninstaller: unmap the old kernel and free its memory;
\* the loop of main stops before the section of the vectors
MainUninstalls ==
    /\ pc = "main" /\ OsextDetected(KernelBase)
    /\ LET k == tt[Vectors].k
       IN  /\ UninstallOsext(k)
           /\ IF inst[k].chunk
              THEN /\ tt' = [tt EXCEPT ![KernelBase] = Invalid]
                   /\ ti' = ti \ FreedOnUninstall(k)
                   /\ pc' = "relocate"
              ELSE /\ ti' = ti \ {<<k, "blocks">>}
                   /\ pc' = "idle" /\ UNCHANGED tt

MainFresh ==
    /\ pc = "main" /\ ~ OsextDetected(KernelBase)
    /\ pc' = "relocate"
    /\ UNCHANGED <<cur, irq, high, tt, ti, os, lcd, stacks, inst, supported, gone>>

\* the program uninstaller: it looks for the kernel at another address
Uninstaller ==
    /\ pc = "idle"
    /\ LET k == tt[Vectors].k
       IN  IF OsextDetected(UninstallerBase)
           THEN /\ UninstallOsext(k)
                /\ ti' = ti \ FreedOnUninstall(k)
                /\ tt' = [sec \in Sections |-> Invalid]
           ELSE UNCHANGED <<cur, irq, high, tt, ti, os, lcd, stacks, inst, supported, gone>>
    /\ UNCHANGED pc

-----------------------------------------------------------------------------
\* Installing.

Launch ==
    /\ pc = "idle" /\ cur < NLaunches
    /\ cur' = cur + 1
    /\ pc' = "main"
    /\ UNCHANGED <<irq, high, tt, ti, os, lcd, stacks, inst, supported, gone>>

\* relocate_self: no memory for the kernel, or none for its page table
RelocateFails ==
    /\ pc = "relocate"
    /\ pc' = "idle"
    /\ UNCHANGED <<cur, irq, high, tt, ti, os, lcd, stacks, inst, supported, gone>>

\* mutant: the image is copied before its variables are set
CopiedEarly == Image

\* "every variable modified before this point will be copied into the new kernel"
Copied == [Image EXCEPT !.chunk = TRUE, !.pds = TRUE]

RelocateSelf ==
    /\ pc = "relocate"
    /\ ti' = ti \union {<<cur, "chunk">>, <<cur, "init_pds">>}
    /\ tt' = [tt EXCEPT ![KernelBase] = Table(cur, "init_pds")]
    /\ inst' = [inst EXCEPT ![cur] = Copied]
    /\ pc' = "initialize"
    /\ UNCHANGED <<cur, irq, high, os, lcd, stacks, supported, gone>>

\* initialize and the start of init_kernel: allocPageblock may fail, unnoticed
AllocBlocks(n) ==
    /\ pc = "initialize"
    /\ irq' = FALSE
    /\ inst' = [inst EXCEPT ![cur].blocks = n]
    /\ ti' = IF n > 0 THEN ti \union {<<cur, "blocks">>} ELSE ti
    /\ pc' = "space"
    /\ UNCHANGED <<cur, high, tt, os, lcd, stacks, supported, gone>>

FreeInitPds == IF inst[cur].pds THEN ti \ {<<cur, "init_pds">>} ELSE ti

\* mutant: interrupts stay off
SpaceFailsOff ==
    /\ pc = "space"
    /\ ti' = FreeInitPds
    /\ inst' = [inst EXCEPT ![cur].pds = FALSE]
    /\ pc' = "return"
    /\ UNCHANGED <<cur, irq, high, tt, os, lcd, stacks, supported, gone>>

\* initializeKernelSpace: no page, or no memory for the temporary page table; the page
\* block that passes these has room for the null page and the stack asked for later
SpaceFails ==
    /\ pc = "space"
    /\ ti' = FreeInitPds
    /\ inst' = [inst EXCEPT ![cur].pds = FALSE]
    /\ irq' = TRUE
    /\ pc' = "return"
    /\ UNCHANGED <<cur, high, tt, os, lcd, stacks, supported, gone>>

\* The temporary page table of initSlabAllocator is not freed.  One page block has
\* room for the stack and everything before it.
InitializeKernelSpace ==
    /\ pc = "space" /\ inst[cur].blocks > 0
    /\ tt' = [tt EXCEPT ![KernelBase] = Table(cur, "cpt")]
    /\ ti' = ti \union {<<cur, "tmp_pds">>}
    /\ pc' = "drivers"
    /\ UNCHANGED <<cur, irq, high, os, lcd, stacks, inst, supported, gone>>

InitDrivers ==
    /\ pc = "drivers"
    /\ ti' = FreeInitPds
    /\ inst' = [inst EXCEPT ![cur].pds = FALSE]
    /\ pc' = "vectors"
    /\ UNCHANGED <<cur, irq, high, tt, os, lcd, stacks, supported, gone>>

\* with one page block there may be no room for the two framebuffers: growCache panics,
\* and the calculator starts again
InitDriversPanic ==
    /\ pc = "drivers" /\ inst[cur].blocks = 1
    /\ pc' = "idle" /\ irq' = TRUE /\ high' = FALSE
    /\ tt' = [sec \in Sections |-> Invalid] /\ ti' = {}
    /\ os' = Untouched /\ lcd' = 0 /\ stacks' = 0
    /\ UNCHANGED <<cur, inst, supported, gone>>

\* install_exception_handlers
VectorsFail ==
    /\ pc = "vectors" /\ inst[cur].blocks = 1
    /\ stacks' = cur
    /\ irq' = TRUE
    /\ pc' = "return"
    /\ UNCHANGED <<cur, high, tt, ti, os, lcd, inst, supported, gone>>

InstallExceptionHandlers ==
    /\ pc = "vectors"
    /\ stacks' = cur
    /\ tt' = [tt EXCEPT ![Vectors] = Table(cur, "cpt")]
    /\ high' = TRUE
    /\ pc' = "lcd"
    /\ UNCHANGED <<cur, irq, ti, os, lcd, inst, supported, gone>>

ClaimLCD ==
    /\ pc = "lcd"
    /\ inst' = [inst EXCEPT ![cur].oldfb = lcd]
    /\ lcd' = cur
    /\ pc' = "hooks"
    /\ UNCHANGED <<cur, irq, high, tt, ti, os, stacks, supported, gone>>

\* module_load_all, which module ModuleSystem describes, and the end of initialize
Finish ==
    /\ pc = "modules"
    /\ irq' = TRUE
    /\ pc' = "return"
    /\ UNCHANGED <<cur, high, tt, ti, os, lcd, stacks, inst, supported, gone>>

\* out of the relocated kernel and back to TI-OS
Return ==
    /\ pc = "return"
    /\ pc' = "idle"
    /\ UNCHANGED <<cur, irq, high, tt, ti, os, lcd, stacks, inst, supported, gone>>

Init ==
    /\ pc = "idle" /\ cur = 0 /\ irq = TRUE /\ high = FALSE
    /\ tt = [sec \in Sections |-> Invalid] /\ ti = {}
    /\ os = Untouched /\ lcd = 0 /\ stacks = 0
    /\ inst = [k \in 1 .. NLaunches |-> Image]
    /\ supported \in {{}, {"file"}, {"file", "draw"}}
    /\ gone = {}

Next ==
    \/ Launch \/ MainUninstalls \/ MainFresh \/ Uninstaller \/ Draw
    \/ RelocateFails \/ RelocateSelf
    \/ \E n \in 0 .. NBlocks : AllocBlocks(n)
    \/ SpaceFails \/ InitializeKernelSpace \/ InitDrivers \/ InitDriversPanic
    \/ VectorsFail \/ InstallExceptionHandlers \/ ClaimLCD \/ InstallHooks \/ Finish \/ Return

Spec == Init /\ [][Next]_vars

-----------------------------------------------------------------------------
\* Properties.

\* Without OSExt, what TI-OS executes and shows is as it was: whenever interrupts are on
\* and OSExt is not installed, the instructions at the places of the hooks are the
\* original ones, in memory and in the caches, and the LCD shows the framebuffer of
\* TI-OS, however often OSExt was installed over itself and whatever failed on the way.
\* That includes a removal no installation follows, of which uninstall.c:37 says "only
\* works if hooks are immediately reused by another instance of osext": for the
\* instructions and the LCD the code does better than its comment.  The stacks of the
\* exception modes, the drivers and the interrupt controller are not put back.
OsRestored == irq /\ ~ high => os = Untouched /\ lcd = 0

\* The launches the hooks, the exception vectors and the LCD point to.
Addresses(words) == {words[i].arg : i \in {j \in DOMAIN words : words[j].op = "address"}}
Reached == (UNION {Addresses(os[from].file) \union Addresses(os[from].draw) : from \in DOMAIN os})
           \union (IF high THEN {tt[Vectors].k, stacks} ELSE {}) \union ({lcd} \ {0})

\* Whoever TI-OS, the CPU or the LCD controller reaches is there: while interrupts
\* are on, an instance that hooks, exception vectors or the LCD point to is mapped by
\* its own tables, and the memory of its code, tables and framebuffers is allocated.
ReachedBacked ==
    irq => \A k \in Reached :
              /\ tt[KernelBase] = Table(k, "cpt") /\ tt[Vectors] = Table(k, "cpt") /\ high
              /\ {<<k, "chunk">>, <<k, "blocks">>} \subseteq ti

\* An uninstalled instance has given back its memory; the temporary page table of
\* initSlabAllocator, which no code frees, is the exception.
UninstalledFreed ==
    pc = "idle" => \A a \in ti : a[1] \in gone => a[2] = "tmp_pds"

\* TI-OS gets its interrupts back on every way out of a launch, the failed ones included.
IrqRestored == pc \in {"idle", "return"} => irq
=============================================================================
