--------------------------- MODULE AddressSpaces ---------------------------
(***************************************************************************)
(* What kernel/memory/virtual_MM.c promises: every address space maps      *)
(* addresses to pages; the addresses of the kernel mean the same in all of *)
(* them, those of a user only what was mapped in this space.               *)
(*                                                                         *)
(* An address is a section and a slot, the page within the section.        *)
(***************************************************************************)
CONSTANTS Spaces, Kernel, KernelSections, UserSections, Slots, Pages, NoPage

Sections == KernelSections \union UserSections
Nothing == [sec \in Sections |-> [slot \in Slots |-> NoPage]]

VARIABLES live,  \* the address spaces that exist, the kernel's aside
          view   \* of every space: the page at each address

MapKernel(sec, slot, page) ==
    /\ view' = [s \in Spaces \union {Kernel} |->
                   IF s \in live \union {Kernel} THEN [view[s] EXCEPT ![sec][slot] = page]
                                                 ELSE view[s]]
    /\ UNCHANGED live

MapUser(s, sec, slot, page) ==
    /\ s \in live
    /\ view' = [view EXCEPT ![s][sec][slot] = page]
    /\ UNCHANGED live

\* a section the kernel has prepared before there are address spaces
Migrate(sec, table) ==
    /\ live = {}
    /\ view' = [view EXCEPT ![Kernel][sec] = table]
    /\ UNCHANGED live

\* a new space sees the kernel and nothing else
Create(s) ==
    /\ s \notin live
    /\ live' = live \union {s}
    /\ view' = [view EXCEPT ![s] = [sec \in Sections |-> IF sec \in KernelSections
                                       THEN view[Kernel][sec] ELSE Nothing[sec]]]

Destroy(s) ==
    /\ s \in live
    /\ live' = live \ {s}
    /\ view' = [view EXCEPT ![s] = Nothing]

Init == live = {} /\ view = [s \in Spaces \union {Kernel} |-> Nothing]

Next ==
    \/ \E slot \in Slots, page \in Pages :
          \/ \E sec \in KernelSections : MapKernel(sec, slot, page)
          \/ \E s \in Spaces, sec \in UserSections : MapUser(s, sec, slot, page)
    \/ \E sec \in KernelSections, table \in [Slots -> Pages \union {NoPage}] : Migrate(sec, table)
    \/ \E s \in Spaces : Create(s) \/ Destroy(s)

Spec == Init /\ [][Next]_<<live, view>>
=============================================================================
