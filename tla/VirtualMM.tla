----------------------------- MODULE VirtualMM -----------------------------
(***************************************************************************)
(* The virtual memory manager, kernel/memory/virtual_MM.c: address spaces  *)
(* of a translation table, one entry a section, and coarse page tables,    *)
(* one entry a page.  The tables of the kernel's sections are shared by    *)
(* all address spaces; each space lists the sections and tables of its own *)
(* in two parallel linked lists.                                           *)
(*                                                                         *)
(* The struct address_space objects and the coarse page tables come from   *)
(* the slab allocator; the tables lie one behind the other in memory, so a *)
(* table is its number.  0 is an invalid descriptor.  The sections of RAM  *)
(* and I/O that never change are left out, and so are the cache bits.      *)
(***************************************************************************)
EXTENDS Integers, Sequences, SequencesExt, FiniteSets

CONSTANTS Spaces, Kernel,
          KernelSections, UserSections,
          Slots,      \* entries of a coarse page table, 256 in the code
          NCpts,      \* bound: coarse page tables of the slab allocator
          TablesRead, \* tables freePagesFromCoarsePageTable reads: 1024 entries, 4 in the code
          Pages, NoPage

Cpts == 1 .. NCpts
Sections == KernelSections \union UserSections

ASSUME CptsAssumption == NCpts \in Nat /\ TablesRead \in Nat \ {0}
ASSUME SetsAssumption ==
    /\ Kernel \notin Spaces /\ NoPage \notin Pages
    /\ KernelSections \intersect UserSections = {}

VARIABLES
    space,   \* the struct address_space of the kernel and of every space
    live,    \* the list address_spaces
    made,    \* struct address_space objects requested: none is ever freed
    mem,     \* the contents of the coarse page tables
    cpts,    \* coarse page tables in use
    pages,   \* physical pages in use
    active,  \* the space whose table the translation table base register holds
    booted,  \* kernel_space_initialized
    panicked \* panic() has been called: the calculator resets

vars == <<space, live, made, mem, cpts, pages, active, booted, panicked>>

Empty == [tt |-> [sec \in Sections |-> 0], cptds |-> <<>>, cpts |-> <<>>]
Blank == [slot \in Slots |-> NoPage]

-----------------------------------------------------------------------------
\* Lists and tables.

\* searchLinkedListEntry
Listed(list, sec) == Contains(list, sec)
Index(list, sec) == CHOOSE i \in DOMAIN list : list[i] = sec /\ \A j \in 1 .. i - 1 : list[j] # sec

\* mutants: the new table keeps what the memory held; the lists grow at different ends
NewTableStale(c, slot, page) == [mem EXCEPT ![c][slot] = page]
WithSectionTail(as, sec, c) ==
    [tt |-> [as.tt EXCEPT ![sec] = c], cptds |-> Append(as.cptds, sec), cpts |-> <<c>> \o as.cpts]

\* a table from requestCPT, cleared, with its first entry
NewTable(c, slot, page) == [mem EXCEPT ![c] = [Blank EXCEPT ![slot] = page]]

\* addLinkedListEntry to both lists, and the coarse page table descriptor
WithSection(as, sec, c) ==
    [tt |-> [as.tt EXCEPT ![sec] = c], cptds |-> <<sec>> \o as.cptds, cpts |-> <<c>> \o as.cpts]

\* getPhysicalAddress
PhysicalPage(s, sec, slot) ==
    IF space[s].tt[sec] = 0 THEN NoPage ELSE mem[space[s].tt[sec]][slot]

-----------------------------------------------------------------------------
\* Operations.  The caller has taken the page it maps from usePage.

\* the section has a table already
AddToTable(s, sec, slot, page) ==
    /\ page \notin pages
    /\ Listed(space[s].cptds, sec)
    /\ mem' = [mem EXCEPT ![space[s].cpts[Index(space[s].cptds, sec)]][slot] = page]
    /\ pages' = pages \union {page}
    /\ UNCHANGED <<space, live, made, cpts, active, booted, panicked>>

\* mutant: the address spaces that exist already do not get the table
PropagateNot(sec, c) == [space EXCEPT ![Kernel] = WithSection(@, sec, c)]

\* "adding the page table to all address spaces"
Propagate(sec, c) ==
    [s \in DOMAIN space |->
        IF s = Kernel THEN WithSection(space[s], sec, c)
        ELSE IF s \in live THEN [space[s] EXCEPT !.tt[sec] = c] ELSE space[s]]

AddVirtualKernelPage(sec, slot, page) ==
    \/ AddToTable(Kernel, sec, slot, page)
    \/ \E c \in Cpts \ cpts :
          /\ page \notin pages
          /\ ~ Listed(space[Kernel].cptds, sec)
          /\ space' = Propagate(sec, c)
          /\ mem' = NewTable(c, slot, page)
          /\ cpts' = cpts \union {c}
          /\ pages' = pages \union {page}
          /\ UNCHANGED <<live, made, active, booted, panicked>>

AddVirtualPage(s, sec, slot, page) ==
    /\ s \in live
    /\ \/ AddToTable(s, sec, slot, page)
       \/ \E c \in Cpts \ cpts :
             /\ page \notin pages
             /\ ~ Listed(space[s].cptds, sec)
             /\ space' = [space EXCEPT ![s] = WithSection(@, sec, c)]
             /\ mem' = NewTable(c, slot, page)
             /\ cpts' = cpts \union {c}
             /\ pages' = pages \union {page}
             /\ UNCHANGED <<live, made, active, booted, panicked>>

\* the kernel without the section migrateKernelCPT finds in its lists already
Without(as, sec) ==
    IF ~ Listed(as.cptds, sec) THEN as
    ELSE LET i == Index(as.cptds, sec)
         IN  [as EXCEPT !.cptds = RemoveAt(@, i), !.cpts = RemoveAt(@, i)]
TablesOf(as) == Range(as.cpts)

\* migrateKernelCPT, while the kernel space is being initialised: the entries of a
\* temporary table become those of a table of the kernel
MigrateKernelCPT(sec, table) ==
    /\ ~ booted
    /\ LET old == Without(space[Kernel], sec)
           left == cpts \ (TablesOf(space[Kernel]) \ TablesOf(old))
       IN  \E c \in Cpts \ left :
              /\ space' = [space EXCEPT ![Kernel] = WithSection(old, sec, c)]
              /\ mem' = [mem EXCEPT ![c] = table]
              /\ cpts' = left \union {c}
    /\ pages' = pages \union (Range(table) \ {NoPage})
    /\ UNCHANGED <<live, made, active, booted, panicked>>

\* the end of initializeKernelSpace
Booted ==
    /\ ~ booted
    /\ booted' = TRUE
    /\ UNCHANGED <<space, live, made, mem, cpts, pages, active, panicked>>

\* createAddressSpace: an empty table, then the kernel's sections
CreateAddressSpace(s) ==
    /\ booted /\ s \notin made
    /\ made' = made \union {s}
    /\ live' = live \union {s}
    /\ space' = [space EXCEPT ![s] = [Empty EXCEPT !.tt = [sec \in Sections |->
                    IF Listed(space[Kernel].cptds, sec) THEN space[Kernel].tt[sec] ELSE 0]]]
    /\ UNCHANGED <<mem, cpts, pages, active, booted, panicked>>

\* freePagesFromCoarsePageTable reads TablesRead tables from the one it is given on, and
\* whatever lies behind the last one
PagesFreed(c) == (UNION {Range(mem[d]) : d \in Cpts \intersect (c .. c + TablesRead - 1)}) \ {NoPage}
ReadsBehind(c) == c + TablesRead - 1 > NCpts

CptsFreed(s) == TablesOf(space[s])

\* destroyAddressSpace; "you should switch out of the address space before destroying it"
DestroyAddressSpace(s) ==
    /\ s \in live /\ active # s
    /\ \E behind \in SUBSET pages :
          /\ behind # {} => \E c \in TablesOf(space[s]) : ReadsBehind(c)
          /\ pages' = pages \ (behind \union UNION {PagesFreed(c) : c \in TablesOf(space[s])})
    /\ cpts' = cpts \ CptsFreed(s)
    /\ live' = live \ {s}
    /\ space' = [space EXCEPT ![s] = Empty]
    /\ UNCHANGED <<made, mem, active, booted, panicked>>

\* what lies behind the last table may also look like a large or tiny page
DestroyPanics(s) ==
    /\ s \in live /\ active # s
    /\ \E c \in TablesOf(space[s]) : ReadsBehind(c)
    /\ panicked' = TRUE
    /\ UNCHANGED <<space, live, made, mem, cpts, pages, active, booted>>

ChangeAddressSpace(s) ==
    /\ s \in live
    /\ active' = s
    /\ UNCHANGED <<space, live, made, mem, cpts, pages, booted, panicked>>

IntoKernelSpace ==
    /\ active' = Kernel
    /\ UNCHANGED <<space, live, made, mem, cpts, pages, booted, panicked>>

Init ==
    /\ space = [s \in Spaces \union {Kernel} |-> Empty]
    /\ live = {} /\ made = {}
    /\ mem = [c \in Cpts |-> Blank] /\ cpts = {} /\ pages = {}
    /\ active = Kernel /\ booted = FALSE /\ panicked = FALSE

Next ==
    /\ ~ panicked
    /\ \/ \E slot \in Slots, page \in Pages :
             \/ \E sec \in KernelSections : AddVirtualKernelPage(sec, slot, page)
             \/ \E s \in Spaces, sec \in UserSections : AddVirtualPage(s, sec, slot, page)
       \/ \E sec \in KernelSections, table \in [Slots -> (Pages \ pages) \union {NoPage}] :
             MigrateKernelCPT(sec, table)
       \/ Booted
       \/ \E s \in Spaces :
             \/ CreateAddressSpace(s) \/ DestroyAddressSpace(s) \/ DestroyPanics(s)
             \/ ChangeAddressSpace(s)
       \/ IntoKernelSpace

Spec == Init /\ [][Next]_vars

-----------------------------------------------------------------------------
\* Properties.

Existing == live \union {Kernel}

\* The two lists of a space belong together: entry i of cpts is the table of the section
\* in entry i of cptds, which is listed once, and the translation table points to it.
\* (The panic "no corresponding coarse page table for descriptor!" is not reached.)
TablesMatch ==
    \A s \in Existing :
        /\ Len(space[s].cptds) = Len(space[s].cpts)
        /\ \A i \in DOMAIN space[s].cptds : space[s].tt[space[s].cptds[i]] = space[s].cpts[i]
        /\ IsInjective(space[s].cptds)

\* The kernel is mapped the same way in every address space, the active one included,
\* however late a section of the kernel got its table.
KernelMapped ==
    \A s \in live \union {active}, sec \in KernelSections : space[s].tt[sec] = space[Kernel].tt[sec]

\* A coarse page table belongs to one space and to one entry of its lists, which stay in
\* step, and none is lost when a space is destroyed.
CptsExact ==
    /\ TablesMatch
    /\ cpts = UNION {TablesOf(space[s]) : s \in Existing}
    /\ \A s, t \in Existing : s # t => TablesOf(space[s]) \intersect TablesOf(space[t]) = {}

\* What the tables say, space by space.
View == [s \in Spaces \union {Kernel} |->
            [sec \in Sections |-> [slot \in Slots |->
                IF s \in Existing THEN PhysicalPage(s, sec, slot) ELSE NoPage]]]

A == INSTANCE AddressSpaces WITH view <- View

\* The tables implement address spaces: a mapping changes one address, in one space or,
\* for the kernel, in all; nothing of a destroyed space shows up in a later one.
ImplementsAddressSpaces == A!Spec
=============================================================================
