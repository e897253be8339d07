# OSExt in TLA+

OSExt extends TI-OS, the operating system of the TI-Nspire CX calculators. It is launched
as a Ndless program, copies itself into memory of its own, maps itself at `0xe0100000`,
takes over the exception vectors and a few instructions of TI-OS, and stays. From then on
it offers system calls (threads, time, sleeping, uninstallation), hooks that run whenever
TI-OS draws its menus or opens a file, and modules (clock, battery, background) that are
loaded into the kernel and use these hooks.

This directory holds TLA+ models of the parts of OSExt whose state is shared between
callers, interrupt handlers and TI-OS, TLC configurations that check them on small
instances, and TLAPS proofs about all of them. `PROJECT.json` lists components, runs,
mutants, the source lines of every definition, findings, hazards and theorems.

    tlc -config PhysicalMM.cfg MCPhysicalMM      # one run
    tlapm PhysicalMM_proofs.tla                  # one proof module

Contents: [inventory](#1-inventory), [modules](#2-modules-and-their-code),
[runs](#3-runs), [proofs](#4-proofs), [disagreements](#5-where-the-code-disagrees-with-itself),
[not modelled](#6-what-is-not-modelled), [plan](#7-plan).

## 1. Inventory

All paths are below `src/`. There is one processor; what is concurrent are FIQs (timeslice,
system time, watchdog), IRQs and tasks of TI-OS, and the threads of a program.

| Component | State | Operations | Hard behaviour |
|---|---|---|---|
| Kernel threads `kernel/scheduling/scheduler.c`, `thread.c` | circular list of `svc_thread`, `running_kernel_thread`, status and sleep time of every thread | the six thread system calls, end of a thread, timeslice FIQ | FIQ inside a call, reused structs, join and sleep, all threads blocked |
| Physical memory `kernel/memory/physical_MM.c` | array of page blocks with 128 used bits each | `allocPageblock`, `usePage`, `useConsecutivePages`, `freeConsecutivePages`, `freeAllPageblocks` | alignment, the page behind a block, fragmentation |
| Slab allocator `kernel/memory/slab.c` | caches with full, partial and free lists of slabs | `kmalloc`, `kfree`, `kfree_hint`, request and free per type, `growCache` | allocating while allocating, moving slabs between lists |
| Virtual memory `kernel/memory/virtual_MM.c`, `kernel/LinkedList.c` | translation table and two parallel lists per address space, coarse page tables | create, destroy, switch a space; map a kernel or a user page; migrate boot tables | kernel sections that appear late, tables that are reused |
| Modules `kernel/modules`, ELF loader `kernel/elf`, hook tables `kernel/os-hooks.c` | list of modules, two tables of functions, page runs, objects, files | install, uninstall, load all, the keys of the manager | an installation failing at any step, pointers into freed code, full tables |
| Start and removal `kernel/start.c`, `init-kernel.c`, `reloc.c`, `exceptions/aborts.c`, `drivers/lcd.c`, `syscalls/svc/uninstall.c`, `uninstaller/uninstall.c` | patched instructions, vectors, tables, framebuffers, memory of every instance | launch with every failure, launch over a running instance, uninstall, draw | half-finished launches, order of patches, TI-OS running in between |
| System time and sleeps `kernel/drivers/systime.c`, `rtc.c`, `timer.c`, `watchdog.c`, `irq_controller.c`, `kernel/libk/wait.c`, `kernel/exceptions/fiq.c` | two 32-bit counters with overflow counts, the watchdog, FIQ lines | read, set, `msleep`, `microsleep`, scheduler's sleep, FIQ handler | FIQ between two reads or writes, a shared interrupt line, a shared watchdog, wait-for-interrupt |
| Calendar `kernel/drivers/systime.c`, clock and time dialog `modules/clock` | the system time, the numbers of the dialog | split a time into fields, put fields together, draw, the dialog's arrows | ends of months, leap years, centuries; two conversions that are to fit each other |
| System call entry `kernel/exceptions/syscalls.c` | `__syscall_in_progress`, two slots with return address and status word | entry, handler, delegation to Ndless and TI-OS, the ways a call ends | calls that nest or never return, threads that share the slots |
| Background images `modules/background` | the picture or slideshow shown, its pixels, open files | load up to four files, replace, draw, end | failing at any file, who frees what |
| Deferred actions `kernel/scheduling/deferred_action.c`, locks `lock.c` | a queue; a word | enqueue, run the next; lock, unlock | no callers yet |

How they interact:

- The scheduler takes its structs from the slab allocator and switches threads in the FIQ
  that the first timer module raises; that module's interrupt line is also the system
  time's. Sleeping with nothing to run is `msleep` on the watchdog, which Ndless uses too.
- Slabs and coarse page tables are pages of the physical memory manager, which gets its
  blocks from the heap of TI-OS; the slab allocator maps them through the virtual memory
  manager, whose own structs come from the slab allocator. At boot, when neither is ready,
  both work on static tables that `migrateKernelCPT` takes over.
- A module is pages of the physical memory manager, objects of `kmalloc`, and entries of
  the hook tables. TI-OS calls these through instructions that `install_hooks` patches;
  they come off when OSExt is uninstalled.
- Every system call comes through `swi_wrapper`, those of TI-OS as well: its functions run into
  the hooks, the modules called there make system calls, and these may be handed over again.
  The count it keeps is what the timeslice FIQ asks before it switches threads.
- The clock module shows and sets the system time; the background module keeps its pixels in
  pages of the physical memory manager and its structs in objects of `kmalloc`.
- `main` finds an instance that already runs and removes it by a system call of that
  instance, before the new one takes its address.

What makes each part correct: the ring stays one circle, nobody is resumed from stale
registers, woken early or left waiting; no page, object or table has two owners and none
is lost; hooks never reach freed code; TI-OS is put back as it was; times can be
reconstructed and sleeps are neither cut short nor endless; dates shown are the ones meant;
calls return to their callers.

## 2. Modules and their code

Every module models one component: its variables are the code's variables, an action is a
handler with everything it calls. Names are the source's where TLA+ allows. Some variables
are history, and are marked so: the properties read them, and callers, who free only what
they hold, but no step of the code does.

**KernelThreads** (`MCKernelThreads`, `KernelThreads_proofs`). A thread is the address of
its struct; the fields are functions that keep their values after a free, as the slab's
memory does. A system call takes two steps, because an FIQ can fall between the entry of
`swi_wrapper` and the handler; the handler has FIQs off while it changes the ring, so it is
one step. `Schedule` is `schedule_kernel_thread_current_saved`: the next runnable thread in
the order of the ring, else the shortest sleep (`ScheduleSleep`, where `msleep` waits), else
the main thread. `FiqTick` is the timeslice FIQ; `TaskAway` and `TaskBack` stand for Nucleus
leaving and entering the GUI task, the only one in which the FIQ switches threads. `bank`
records which register bank a context came from, `owed` the ticks a sleeper has still to get.
`Slept` is how long `msleep` really waits for `min_wait*timeslice_length` milliseconds: the
product is taken in a word, and the sleep saturates at `SleepLimit` (`wait.c:27`; about 112 s),
while the scheduler subtracts the whole `min_wait`. `Owed` is what a sleeper can be promised:
the timeslices it asked for, but no more than the longest `msleep`, and nothing when its own
product wraps.

**PhysicalMM** (`MCPhysicalMM`, `PhysicalMM_proofs`). Addresses count half pages, so that the
heap of TI-OS can return memory off a page boundary. `used` is the set of bits that are set;
a bit beyond the two words is lost, as the shift in the code loses it.

**SlabCache** (`MCSlabCache`, `SlabCache_proofs`). Slabs, objects and used arrays have addresses on the kernel
heap. An allocation is a stack of frames: the walk over the partial list, then the free list,
then `growCache`, whose own allocations push further frames. `MCSlabCache` has four caches:
list entries, slab descriptors, coarse page tables and translation tables; the last two are
big enough that their descriptors are off-slab and their used arrays come from `kmalloc`. It starts from the
state `initSlabAllocator` leaves.

**VirtualMM** (`MCVirtualMM`, `VirtualMM_proofs`) **and AddressSpaces.** AddressSpaces is what the component
promises: every space maps addresses to pages, the kernel's addresses mean the same in all.
VirtualMM has the translation tables, coarse tables and the two lists of each space, and
implements AddressSpaces under the mapping `View`: the page at an address is the one found
by walking the space's translation table.

**ModuleSystem** (`MCModuleSystem`, `ModuleSystem_proofs`). `module_install` is a sequence of actions with an
alternative for each early return; `ModuleStart` is what the modules of the repository do in
their `module_start`. Whatever the ELF checks look at is abstracted to their outcome, and the
outcome of a check that fails silently is as possible as the others: `elf_assemble_image`
may refuse the segment and leave the image cleared, `elf_fix_got` may find no GOT it accepts
and leave the file unfixed, and `module_install`, which asks neither, starts the module all the
same. A cleared image has no instructions that return; running it ends in an abort, which is
`ModuleCrashes` and a reset. An unfixed one runs. `gui`
tells what the GUI task does: boot, TI-OS, or the manager's screen.

**Lifecycle** (`MCLifecycle`, `Lifecycle_proofs`). A launch goes through the steps of `main`, `relocate_self`,
`init_kernel` and `initialize`; each can fail as in the code. Instances are numbered by
launch and every resource records whose it is: sections of the translation table, blocks of
the heap, patched instructions, framebuffers, exception stacks. Tasks of TI-OS draw between any
two steps that have interrupts on. The patched instructions are kept twice, in memory and as the
CPU fetches them: `Store` writes the first, `ClearCaches` makes the second agree, and a task that
draws may execute either. `uninstall_hooks` stores the last four instructions after its last
`clear_caches` (`os-hooks.c:434`); the message `uninstall_osext` prints next ends with another one
(`debug_shell.c:128`), with interrupts still off.

**SystemTime** (`MCSystemTime`, `SystemTime_proofs`). Devices tick, the FIQ handler runs as soon as a line is
pending and enabled, and the interrupted code makes one access to shared state a step. The
ghost clocks `secs` and `ticks` run beside the devices; `exact` records which of the known
cases in which the code loses time (section 5) has happened.

**Calendar** (`MCCalendar`, `Programs_proofs`). Both conversions of `systime.c`, with their loops as
recursive functions of the loop's variables, the clock on the screen, and the dialog with one action for a round of its loop.
The system time is one number; its two counters are the matter of SystemTime. The lengths of
months and years are the code's; those of minutes, hours and days are parameters, because
TLC's integers have 32 bits and would end the calendar in 2038. While the dialog is open the
clock goes on unseen and will be overwritten, so its value is left out (`Unread`). The
reference, `DayNumber`, is a closed form of the Gregorian calendar that shares nothing with
the code's tables.

**SyscallEntry** (`MCSyscallEntry`, `Programs_proofs`). `swi_wrapper` as every thread meets it: calls OSExt
serves, whose return address is on the stack, and calls handed over to Ndless, whose address
and status word go into one of two slots. The calls in progress of each thread are a stack; an
address is the thread and the depth of the call. A call ends through the handler's return,
through `delegate_end`, or through `syscall_mark_as_finished`, when it blocks its thread and
another is resumed. `mode` is "lost" when a call returned anywhere but to its caller;
`spoiled` is history and records the two cases the slots do not provide for (section 5). What
the handlers do to threads is in KernelThreads.

**Background** (`MCBackground`, `Programs_proofs`). `background_update` as one step per file, each of which can be
missing, be refused by `load_bmp_file` at any of its returns, or find no memory; then the
picture or slideshow is set. An object on the heap is the sequence of data pointers it holds,
so that copying structs into an array and freeing through pointers into it are what they are in
the code. Pixels are left out. `copied` is history: the structs an array was copied from, whose
contents the model drops since nothing points to them.

Operators whose comment begins "faulty variant" or "mutant" are mutated forms of the definition next to
them; no specification uses them. `PROJECT.json` says which property has to fail with which.

## 3. Runs

Every run explores its instance completely. State counts are distinct states.

| Run | Instance | Properties |
|---|---|---|
| `threads` | 3 structs, sleeps of 1, 2, 10 and 15 ms, words of 16 values, `msleep` up to 8 ms (1,320,746 states) | `TypeOK`, `RingIntact`, `MainInRing`, `ContextSaved`, `SyscallsBalanced`, `RunningIsReady`, `NoEarlyWake`, `NoPanic`, `EndReleasesWaiters`, `ReleasedOnlyByEnd` |
| `threads_cooperative` | 3 structs, sleeps of 2 and 4 ms (74,472 states) | `ReadyThreadsRun` |
| `physical_pages` | two blocks of 2 or 3 pages with 3 bits in 15 pages of heap, runs of 1 to 4 pages (78,294 states) | `Exclusive`, `WithinChunk`, `UsedExact`, `RefusedOnlyWhenFull` |
| `slab_lists` | 4 caches, 5 heap pages, 3 objects held at a time (220,816 states) | `OneList`, `LiveMarked`, `NoOverlap` |
| `modules` | 4 files, tables of 2 functions, 6 page runs, 11 objects (1,202,438 states) | `NoDangling`, `NoLeak`, `OthersKeepHooks`, `PanicOnlyWhenRefused` |
| `virtual_mm` | 2 spaces, 2 kernel and 1 user section of 2 slots, 3 coarse tables, 2 pages (49,951 states) | `KernelMapped`, `CptsExact`, `ImplementsAddressSpaces` |
| `lifecycle` | 3 launches, 4 page blocks each (15,062 states) | `OsRestored`, `ReachedBacked`, `UninstalledFreed`, `IrqRestored` |
| `system_time` | RTC of 2 values, timer of 4, watchdog of 3, sleeps of 0 and 2 (569,997 states) | `SecondsKept`, `MillisKept`, `ReadExact`, `SleepFull`, `SleepEnds` |
| `calendar` | times around the ends of months of 1970-1973, 1999-2001, 2023-2025 and 2099-2105, a day of 2 hours of 2 minutes of 3 seconds, dialog years 1970-1972 (347,220 states) | `Decoded`, `DialogKeepsTimeOfDay` |
| `syscall_entry` | 2 threads, calls three deep (420,360 states) | `ReturnsToCaller`, `SlotsMatch` |
| `background` | 4 page runs, 18 objects, 2 files open at a time (38,573 states) | `DrawnLive`, `MemoryExact` |

The remaining run, `threads_context`, shows a disagreement (section 5).

**What they show and why the bounds suffice.**

- `threads`: every order of calls, ends, timeslice FIQs and task switches on structs that are
  freed and handed out again. Three threads are a main thread, one that is unlinked and a
  neighbour whose pointer has to change; the same number gives joins in a circle and two
  sleepers of different length beside a runnable one. 1 ms is less than a timeslice and 2 ms is
  one; 10 ms is longer than `msleep` can wait, and 15 ms is rounded up to eight timeslices, whose
  product wraps in a word of 16. Both overlap with the short sleeps in every way. Threads are
  interchangeable, so the run uses symmetry; its two action properties are safety properties.
- `threads_cooperative`: a program like `thread-test.c`, in which every thread sleeps in the
  end and threads are created only finitely often. Without the second condition the code does
  starve threads: a new one is linked in directly behind its creator.
- `physical_pages`: three bits stand for the 128; a block of three pages has the page behind
  it beyond its bit array, one of two pages has it inside. Runs of up to four pages cover one
  that fits no block. `MaxBlocks` 6 lets two blocks be added, as 200 lets 196 in the code; the
  heap of 15 pages has room for both, on or off a page boundary and in either order.
- `slab_lists`: three objects held at a time and three objects on a slab fill slabs and free
  them in any order. The boot slabs take three pages of the heap, two are left for growth; the
  next growth panics, as in the code, which is why a state without successor is allowed. `LiveMarked` and `NoOverlap` include the descriptors and arrays the allocator
  holds itself, and hold while an allocation is in the middle of `growCache`.
- `modules`: tables of two functions let the third module be refused. Each way an installation
  can fail, aloud or silently, is a choice at its step, in every state. Six page runs and eleven objects are enough
  for all four modules and the installation of the last, so the bounds themselves cut off
  nothing.
- `virtual_mm`: three coarse tables for two kernel sections and two spaces make tables change
  hands. After a panic the calculator resets; the model stops there.
- `lifecycle`: three launches are one over a failed one over a running one, for every set of
  hooks whose address is known for the OS version and every answer of the heap. A launch that
  removes the running instance and then gets no memory (`MainUninstalls`, `RelocateFails`) is a
  removal no installation follows.
- `system_time`: counters narrow enough that both clocks overflow during a read, a set and a
  sleep, a sleep of two rounds, and the scheduler switching the shared line off in between.
  The same properties hold with a timer of 6, two milliseconds a second and 12 ticks
  (1,611,948 states).
- `calendar`: a time is tried before, at and after the ends of each month of years that are
  common, leap, a century with and without a 29th of February, and the first and the last years
  of an unsigned 32-bit time; the days between them differ in nothing the code looks at. The
  dialog's years are common and leap ones; every number of every field is reached. Its minutes
  and seconds go up to 60, as in the code.
- `syscall_entry`: three calls are one more than there are slots, two threads one more than own
  them. Both kinds of calls nest in every order, and each thread may block at any depth. A panic
  or a call gone astray ends the run, which is why a state without successor is allowed.
- `background`: three runs hold the pixels of three pictures and the fourth the file being read,
  so that memory runs out at the fourth file and earlier when runs are still in use. Small
  pictures, whose pixels are objects, have room for all four. The structs that are never freed
  add up over updates; a model without objects for another update stops, where `kmalloc` would
  panic.

**Fairness.** Safety runs have none. `threads_cooperative`: a handler that was entered goes
on (`WF(Handler)`), the program does start (`WF(EnterEnable)`), and a thread that gets the
processor again and again sleeps in the end (`SF(EnterSleep)`), which is the assumption about
the program. `system_time`: the watchdog counts, a pending FIQ is taken, the sleeper's code
runs although FIQs interrupt it (strong, since FIQs are far apart compared with an
instruction), and interrupts of TI-OS keep coming.

`SleepEnds` needs the last one: between the test of `watchdog_enabled` and the wait for
interrupt (`wait.c:35`) the FIQ may come, and then only another interrupt ends the wait.

**Mutants.** For every property there is a plausible slip in the code (a guard dropped, a
loop one entry short, a step in the wrong order) under which the property fails in its run.

## 4. Proofs

The eight `*_proofs` modules hold for every value of the constants that meets the assumptions
of the component's module. They state 38 of the 40 properties the passing runs check: all safety
invariants, all action properties and the refinement. `Programs_proofs` is about three models that
share nothing, SyscallEntry, Background and Calendar; so that it can extend all of them, the
initial condition, the steps and the specification of the last two are named after their modules.

| Module | Theorem | States |
|---|---|---|
| KernelThreads | `TypeCorrect` | `TypeOK` |
| | `RingCorrect` | `RingIntact`, with the next four |
| | `MainInRingCorrect`, `ContextSavedCorrect`, `RunningIsReadyCorrect`, `NoPanicCorrect` | `MainInRing`, `ContextSaved`, `RunningIsReady`, `NoPanic` |
| | `BalancedCorrect` | `SyscallsBalanced` |
| | `NoEarlyWakeCorrect` | `NoEarlyWake` |
| | `JoinCorrect`, `ReleasedOnlyByEndCorrect` | `EndReleasesWaiters`, `ReleasedOnlyByEnd` |
| PhysicalMM | `PagesCorrect` | `Exclusive`, with the next two |
| | `WithinChunkCorrect`, `UsedExactCorrect`, `RefusedCorrect` | `WithinChunk`, `UsedExact`, `RefusedOnlyWhenFull` |
| SlabCache | `OneListCorrect`, `LiveMarkedCorrect`, `NoOverlapCorrect` | `OneList`, `LiveMarked`, `NoOverlap` |
| VirtualMM | `KernelMappedCorrect`, `CptsExactCorrect` | `KernelMapped`, `CptsExact` |
| | `Implementation` | `ImplementsAddressSpaces`: VirtualMM refines AddressSpaces |
| ModuleSystem | `NoDanglingCorrect`, `NoLeakCorrect` | `NoDangling`, `NoLeak` |
| | `OthersKeepHooksCorrect`, `PanicOnlyWhenRefusedCorrect` | `OthersKeepHooks`, `PanicOnlyWhenRefused` |
| Lifecycle | `OsRestoredCorrect`, `ReachedBackedCorrect`, `UninstalledFreedCorrect`, `IrqRestoredCorrect` | `OsRestored`, `ReachedBacked`, `UninstalledFreed`, `IrqRestored` |
| SystemTime | `SecondsKeptCorrect`, `MillisKeptCorrect`, `ReadExactCorrect`, `SleepFullCorrect` | `SecondsKept`, `MillisKept`, `ReadExact`, `SleepFull` |
| SyscallEntry | `ReturnsToCallerCorrect`, `SlotsMatchCorrect` | `ReturnsToCaller`, `SlotsMatch` |
| Background | `MemoryExactHolds`, `DrawnLiveHolds` | `MemoryExact`, `DrawnLive` |
| Calendar | `DecodedHolds`, `TimeOfDayKept` | `Decoded`, `DialogKeepsTimeOfDay` |

The assumptions, which TLC evaluates in the runs:

- KernelThreads: `NULL` is no thread, a word has more than three values, sleep arguments fit
  into it, the longest `msleep` is some number; the number of threads may be infinite.
- PhysicalMM: a block has at least one bit, sizes and requests are positive.
- SlabCache: sizes are positive, the list of caches names each once, slabs built at boot have
  one page and set bits of objects they have. Nothing relates the sizes: an object may be
  larger than a page, the header larger than the objects, every cache on- or off-slab.
- VirtualMM: the kernel is no user space, its sections are none of the user's.
- ModuleSystem: finitely many files. Lifecycle: at least one launch, at least two page blocks.
- SystemTime: counters have at least one value (the watchdog two), milliseconds divide the
  timer's range and a second fits into it, as 2^32 counts, 32 a millisecond and 1000 do.
- SyscallEntry: finitely many threads, no return address is 0.
- Background: finitely many objects; addresses of objects, addresses of page runs, `NULL` and
  the mark of free memory are different things. There may be any number of page runs, none too.
- Calendar: minutes, hours and days have some length, the dialog's years begin no earlier than
  1970 and include the one it starts with; `NoDialog` is no dialog, `Unread` no time. Times are
  integers without a width: the code's have 64 bits, and its 32-bit years suffice for all times
  below about 10^17 seconds; what the dialog's years add up to is far from both.

*Threads.* `RingInv` is the conjunction of the five properties of the ring; none is inductive
alone. That the scheduler cannot panic needs a main thread in a closed ring; that the main
thread stays there needs to know that the running thread, which alone can end itself, is in the
ring. `Circle` says that a set is closed under `next`, that `next` is injective on it, and that
no smaller non-empty set is closed. The last part replaces induction along the pointers:
`CircleAdd` and `CircleRemove` show that linking a struct in behind the running one, and
unlinking one behind its predecessor, give a circle again, and `CircleRing` that the circle is
the set of threads the scheduler's walk meets. Each handler then reduces to one of these
lemmas and to `ScheduleRing`, what the scheduler does to a circle. For `NoEarlyWake`, `SleepInv`
adds that nobody is owed more than the longest `msleep` (`Longest`): the scheduler then sleeps
the whole shortest wait, or the longest `msleep`, which pays everybody in full
(`SleptTime`, `ScheduleNotEarly`), or the product wraps, and then every waiting time, the
shortest included, is one whose sleeper is owed nothing. `JoinsStep` describes what
any step does to threads that wait for another: nothing, or one thread leaves the ring and
exactly those waiting for it are released, or the ring is given up.

*Pages.* `PagesInv` adds to the properties that the blocks' memory is disjoint and aligned
inside it (`Layout`) and that every run in use starts in one block and ends at the latest
behind its last page (`Owned`). The hard case is the page behind a block of 128, which has no
bit and so always reads as free: whoever holds it holds the last page of the block as well,
and that one has a bit, so a second run reaching the page behind would have to contain a used
page (`NoOverlap`). `allocPageblock` asks for enough memory that this page is the block's own.
`RefusedOnlyWhenFull` compares a count with a set; `FullBlock` shows that a block with as many
bits set as it has pages has all of them set.

*Slabs.* `SlabInv` says that each cache's three lists are disjoint, without repetition and
exhaust its slabs (`Linked`); that the pages of any two slabs, and of the slabs `growCache` has
begun, are apart and below the end of the heap (`SlabsApart`, `GrowthApart`); that the innermost
call stands on a slab of its cache and the others are inside `growCache` (`Calls`); and that
every object has one holder and a set bit (`Objects`). The parts take lists, slabs and stack
as parameters, because a call that returns to `growCache` changes them twice in a step.
`ToFullLists`, `AfterFreeLists`, `FreshLists` and `GrownLists` are the ways slabs move between
lists. The delicate step is a free whose bound is one too large (`slab.c:594`): `ClaimedIndex`
shows that the bit it clears belongs to the object given back or lies behind the last object,
whatever slab is asked first. `Decode` shows that an address is an object of one slab only, so
an object that is given out was nobody's. That objects fit behind the header needs the division
in `Objs` only (`Sizes`, `Inside`).

*Address spaces.* `SpaceInv`: the lists `cptds` and `cpts` of a space have one entry for each
section it owns and agree with its translation table (`Tidy`); all live spaces have the kernel's
sections (`Foreign`); the tables in use are the disjoint union of the spaces' tables (`Apart`).
The last part is what keeps a reused coarse table from being reached through an old section.
For the refinement, each action maps to an action of AddressSpaces or to a stutter under `View`;
it uses that a table is written through one space only.

*Modules.* `ModInv`, for every combination of silent failures of the ELF loader: modules in the list share no name, pages or objects; a function is in a
table once and belongs to a module in the list; unless it was refused it is there (`Lists`);
what an installation holds is determined by how far it is (`Installing`), and memory in use is
the list's or the installation's (`Owned`). Error paths then have to give back exactly what
their stage holds.

*Start and removal.* `LifeInv` names for each step of a launch what is mapped, allocated and
patched (`Phase`). Between launches OSExt is entirely absent (`Down`) or one launch is
completely there (`Up`), with the original instructions in its saved variables; in both, memory
and caches agree on the instructions. `HookInstalls` and `HookUninstalls` are what the two macros
do whatever was cached before, `HooksRemoved` what is left after the message that follows
`uninstall_hooks`.

*Time.* `TimeInv` relates each hardware counter and its overflow count to the ghost clock, with
the pending interrupt as the carry (`SecondsInv`, `MillisInv`), says what a half-finished
reading knows (`ReadInv`), and for a sleep that the rounds waited and what is left in the
watchdog add up to the count asked for (`SleepInv`). The rest is arithmetic of `\div` and `%`.

*System call entry.* `EntryInv`: `__syscall_in_progress` is the number of calls of all threads
(`Counted`), and the slots hold, in order, addresses and status words of the delegated calls,
which are all the running thread's (`Slots`); properties about one slot are not inductive, as
the end of the inner call frees the second slot and leaves the first.

*Background images.* `Clean(h, r, own, c)` says of a heap and its page runs that they hold exactly
the objects of `own`, the pixels these point to, and the copies `c`, and that no two images share
their pixels (`Single`). Between updates `own` is the image or array shown (`ShownInv`), while the
files are read it is the images of the files so far (`UpdateInv`), with room left for the others;
`FilesCounted` ties their number to the file the loop is at and to `bk` and `length`. Each step is
one lemma about `Clean`: releasing what is shown (`CleanReleased`), one image more
(`CleanLoaded`), several structs copied into one array (`CleanCopied`). `MemoryExact` alone is not
inductive: it is about states between updates, and does not say that freeing one image leaves the
pixels of the others. `LoadResults` has the error paths of `load_bmp_file`: after every return the
memory is as before or has one image more.

*Calendar.* The code's tables are compared with the closed form first: `YearLength` and
`MonthLength` show for every year that `days_in_year` and `days_in_month` are the distances of
`DayNumber`, so that the two tables agree. Then the loops. They are recursive functions, and what
such a function computes is usually beyond the prover, since theorems of induction take the
statement as a parameter. Here it is reached in two steps. That a function with the loop's recursion exists is
shown by giving one in closed form (`YearLoopExists`, `MonthLoopExists`, `YearsToExists`). That the
loop ends with what it should is shown by a least counterexample, for which the well-foundedness
of the natural numbers suffices (`MinNat`, `YearLoopEnds`, `MonthLoopEnds`): from a time within a
year the loop over the months ends within its twelve months. The loops over days, hours and
minutes are divisions (`LoopRest`). For the dialog, `CalendarInv` says that its numbers stay within
their limits; `ChosenTime` that the time set is the time of day chosen and at least one whole day,
so that it is positive and not refused.

The invariants `RingInv`, `SlabInv`, `SpaceInv`, `ModInv`, `LifeInv`, `TimeInv`, `EntryInv`,
`BackgroundInv` and `CalendarInv` were checked with TLC on the instances of section 3 before they were proved.

*Only model-checked*: the liveness properties `ReadyThreadsRun` and `SleepEnds`; fairness is
outside the prover's reach. `threads_context` is a
counterexample and has nothing to prove.

## 5. Where the code disagrees with itself

One run ends in a counterexample; its property is what the comments in the code say.

| Run | The code | The comment |
|---|---|---|
| `threads_context` | `schedule_kernel_thread` (`scheduler.c:172`) stores `r8`-`r14` without leaving the FIQ mode, so it stores the banked registers of that mode and resumes the thread from them | "store all the registers", "set the mode to svc" (`scheduler.c:173`, `:179`) |

The models have what follows as the code has it. Where a property would fail for a
reason the code leaves open, it names the case instead of leaving it out of the model:

- `NoEarlyWake`: a sleep longer than about 112 s ends early when nobody is runnable, because
  `msleep` saturates (`wait.c:27`) and the scheduler subtracts what it asked for
  (`scheduler.c:292`); one whose product with the length of a timeslice leaves 32 bits may end
  at once. Of the first, the property promises the longest `msleep`, of the second nothing;
  sleeps that overlap with either are not shortened by them.
- `NoDangling`: a module whose GOT `elf_fix_got` refuses (`elf.c:354`) is started with the
  addresses of the file, since `module_install` does not learn of it (`modules.c:238`). The
  property says that hooks call what was copied from such a file or a relocated one into pages
  still held; what the code does through its unrelocated addresses is outside the model.
- `OsRestored`: `uninstall.c:37` says "uninstaller only works if hooks are immediately reused by
  another instance of osext, not if is just uninstalled". For what the property is about, the
  instructions at the hooks, in memory and in the caches, and the framebuffer shown, the code
  works in that case too, and the run reaches it. What a removal leaves behind are the stacks
  of the exception modes, which point into memory that is given back, the state of drivers,
  interrupt controller and FIQ lines, and translations in the TLB (`start.c:130` does not
  invalidate it); a new launch replaces all of these, so that the comment may mean them.
- `RunningIsReady`: the main thread is resumed out of a deadlock with its status unchanged.
- `RefusedOnlyWhenFull`: for blocks of the full size only; the bit behind a shorter block is
  counted as a page.
- `UninstalledFreed`: but for the temporary page table of `initSlabAllocator`, which nothing
  frees (`slab.c:917`).
- `PanicOnlyWhenRefused`: modules ignore that a table was full and panic when they end.
- `SecondsKept`, `MillisKept`, `ReadExact`: an overflow between the two reads or the two
  writes (`systime.c:49`, `:91`), two overflows while the line is off (`timer.c:152`), and
  `systime_set_unix_milli`, which leaves the old overflow count.
- `ReturnsToCaller`, `SlotsMatch`: a third delegated call inside two others takes the second
  one's slot (`syscalls.c:177`); a thread that blocks inside a delegated call leaves its slot to
  the next thread (`scheduler.c:355`).
- `DrawnLive`: `create_img565` adds the offset of the kernel's mapping to the address of its
  pages before it compares it with `NULL`, so that an image without memory is used with a wild
  pointer (`img565.c:34`).
- `MemoryExact`: the structs copied into the array of a slideshow are never freed
  (`background.c:267`).
- `Decoded`, `DialogKeepsTimeOfDay`: an exact boundary is shown as second 60 of the minute
  before; `systime_timestamp_to_unix` is not the inverse of the other conversion
  (`systime.c:204`), and the date set in the dialog is weeks off; the time of day is not.

Seen while modelling and covered by no run:

- Threads: the loop that takes a tick off every sleeper starts with its end condition
  (`scheduler.c:147`) and never runs, so that sleepers wake only when nothing else is runnable,
  although `scheduler.c:337` says "the schedule_kernel_thread will subtract one tick". A join with a thread that has already ended blocks (`scheduler.c:375`); two
  threads that create threads in turn starve the rest (`scheduler.c:405`).
- Slabs: `alloc_object_from_cache` follows the next pointer of a slab after linking it into the
  full list (`slab.c:545`); with another slab there already it swaps the two for ever
  (`slab_lists` checks the lists while it does). `isSlabFree` looks at `objs/obj_size+1` bytes instead of `objs/8+1` (`slab.c:736`);
  the bound of a free is off by one (`slab.c:594`); the used array of a new slab is not
  cleared (`slab.c:293`); a heap that crosses a section is mapped with a wrong index
  (`slab.c:107`, `:309`, `:392`).
- Virtual memory: `freePagesFromCoarsePageTable` reads 1024 entries of a table of 256 and
  frees pages of other tables (`virtual_MM.c:647`; modelled, with its panic); no
  `struct address_space` is ever freed (`:322`); `intoKernelSpaceSaveAddressSpace` compares a
  physical with a virtual address (`:196`).
- Removal: the uninstaller looks for the kernel at `0xe0000000` (`uninstaller/uninstall.c:7`),
  the kernel is at `0xe0100000` (`virtual_MM.c:4`).
- Background: files behind the first failure are opened and never closed (`background.c:205`);
  an image is drawn as 320x240 pixels whatever its size is (`background.c:86`, `:109`).
- Start: a failing start frees the page table that maps the running code and leaves blocks
  allocated (`init-kernel.c:79`), although `start.c:189` calls every error there recoverable;
  the exception modes keep their stacks after removal; `uninstall_osext` does not check
  `ti_malloc`.
- ELF: `elf_assemble_image` skips a segment it refuses and reports nothing (`elf.c:235`); the
  module is started in a cleared image, and runs past its end (modelled as a reset);
  `elf_copy_section` copies nothing and has no caller.
- Time: after a sleep the watchdog is not restarted for Ndless as `wait.c:51` says.
- Deferred actions: `action_do_next` removes nothing, and returns with interrupts off when the
  queue is empty (`deferred_action.c:51`). It has no caller.

## 6. What is not modelled

- User-mode threads and processes: stubs or functions without a caller.
- Handlers that only print and stop (aborts, undefined instructions), panic, the recovery
  menu, the debug shell, drawing, character sets, the kernel's string and math library.
- Drivers that poll one device (touchpad, keypad, USB, UART, NAND, I2C, ADC, power): what they
  return is up to hardware the source does not describe.
- The virtual file system: declarations and unfinished functions.
- TI-OS, Nucleus and Ndless: external. They appear as what the code relies on: a heap that may
  refuse, a scheduler that enters and leaves the GUI task, interrupts, uses of the watchdog.
- Tables of addresses per OS version, except that a hook's address may be unknown.
- Sections of the translation table that are written once (RAM, I/O), bits of descriptors, TLBs;
  caches, except for the instructions of TI-OS that are patched.
- Pixels, and the dimensions of images (Background).
- `migrateKernelCPT` when a growing cache calls it after the boot (`slab.c:309`, `:392`).
- Which menu of TI-OS is on the screen (`nspire_menus.c`): a comparison of pixels without state.
- System calls from user mode: no code runs there at this commit.
- Installer, loader, configuration menu, self-tests, client libraries.
- Vendored code: three quarters of the repository's lines are headers of a C library
  (`sysroot newlib`, in two copies) and similar. Of the lines that are OSExt's own, the
  definitions of `PROJECT.json` cover about a third; most of the rest is drawing, printing,
  tables of addresses and drivers without state.

## 7. Plan

The order followed the weight of the parts: threads, the memory under everything, modules,
address spaces, start and removal, time; then the calendar, system call entry and background
images. Left to model:

1. **Heap**: SlabCache composed with VirtualMM and PhysicalMM, so that growth maps the pages it
   takes, across a section and around `saved_tt`.
2. **SyscallEntry with KernelThreads**: one model in which the handlers that block are those of
   the scheduler.
3. **DeferredActions** and locks, for what their comments promise, once they have callers.

Abstract specifications worth adding: an allocator (a set of disjoint live objects) for
SlabCache and PhysicalMM, a clock for SystemTime.

Theorems worth adding: the abstract allocator as a refinement, from `SlabInv` and `PagesInv`,
which already say that objects and runs in use are disjoint; for the compositions above, what
their parts have proved, with the calls between them.
