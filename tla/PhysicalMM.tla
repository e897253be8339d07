----------------------------- MODULE PhysicalMM -----------------------------
(***************************************************************************)
(* The physical memory manager, kernel/memory/physical_MM.c: page blocks   *)
(* allocated from the TI-OS heap, one bit per page, single pages for the   *)
(* slab caches and page tables, runs of consecutive pages for large        *)
(* kmallocs, ELF images and the kernel stack.                              *)
(*                                                                         *)
(* Addresses count half pages, so that what ti_malloc returns may lie off  *)
(* a page boundary and makeSmallPageAligned has work to do.                *)
(***************************************************************************)
EXTENDS Integers, Sequences, FiniteSets

CONSTANTS Bits,       \* 128 in the code: the bits of used and used2
          MaxBlocks,  \* MAXPAGEBLOCKS, 200 in the code
          Sizes,      \* sizes allocPageblock is called with
          Requests,   \* sizes useConsecutivePages is called with
          Aligns,     \* alignments useConsecutivePages is called with
          HeapEnd     \* bound: ti_malloc returns addresses below it

ASSUME BitsAssumption == Bits \in Nat \ {0}
ASSUME MaxBlocksAssumption == MaxBlocks \in Nat
ASSUME SizesAssumption == Sizes \subseteq Nat \ {0}
ASSUME RequestsAssumption == Requests \subseteq Nat \ {0}
ASSUME AlignsAssumption == Aligns \subseteq Nat
ASSUME HeapEndAssumption == HeapEnd \in Nat

VARIABLES
    pages,   \* the array pages[0 .. blockindex-1]
    held,    \* history: the runs of pages handed out and not freed, as the
             \* callers remember them
    refused  \* history: usePage returned NULL in the last step

vars == <<pages, held, refused>>

PAGE == 2    \* SMALL_PAGE_SIZE

Runs == [page : Nat, size : Nat \ {0}]

\* struct pageblock without the dirty and pageout words, which nothing reads
Blocks == [unaligned : Nat, start : Nat, size : Nat \ {0}, used : SUBSET (0 .. (Bits - 1))]

\* Types: blocks with used bits within their bit array, and the runs handed out.
TypeOK ==
    /\ pages \in Seq(Blocks)
    /\ held \subseteq Runs
    /\ refused \in BOOLEAN

\* The addresses of the pages of a run.
PagesOf(r) == {r.page + PAGE * k : k \in 0 .. (r.size - 1)}

-----------------------------------------------------------------------------
\* Bits.

\* The test of setPageUsedBit and isPageUsed: the comparison is <=, so the page
\* just behind the block counts as one of it.
InBlock(b, page) == page >= b.start /\ page <= b.start + PAGE * b.size

Offset(b, page) == (page - b.start) \div PAGE

\* isPageUsed: the first block that has the page decides, and a page of no block
\* is used
IsPageUsed(page) ==
    \A i \in DOMAIN pages :
        /\ InBlock(pages[i], page)
        /\ \A j \in 1 .. (i - 1) : ~ InBlock(pages[j], page)
        => Offset(pages[i], page) \in pages[i].used

\* faulty variant: the last page of a run is forgotten
SetUsedShort(ps, value) ==
    [i \in DOMAIN pages |->
        LET b == pages[i]
            ks == {Offset(b, p) : p \in {q \in ps : InBlock(b, q) /\ q + PAGE \in ps}}
        IN [b EXCEPT !.used = IF value THEN @ \cup (ks \cap (0 .. (Bits - 1)))
                                       ELSE @ \ ks]]

\* setPageUsedBit(page, value) for every page of a set, in every block that has it.
\* For bit 128 setBit128 shifts by 64, which leaves the words as they are.
SetUsed(ps, value) ==
    [i \in DOMAIN pages |->
        LET b == pages[i]
            ks == {Offset(b, p) : p \in {q \in ps : InBlock(b, q)}}
        IN [b EXCEPT !.used = IF value THEN @ \cup (ks \cap (0 .. (Bits - 1)))
                                       ELSE @ \ ks]]

-----------------------------------------------------------------------------
\* Page blocks.

makeSmallPageAligned(ptr) == IF ptr % PAGE = 0 THEN ptr ELSE ptr + 1

\* faulty variant: no room is left for the alignment and the page behind the block
ChunkTight(unaligned, size) == unaligned .. (unaligned + PAGE * size - 1)

\* The memory ti_malloc has given to a block, and ti_malloc itself (external): it
\* returns memory that no other block has.
Chunk(unaligned, size) == unaligned .. (unaligned + PAGE * (size + 3) - 1)

TiMalloc(ptr, size) ==
    /\ ptr + PAGE * (size + 3) <= HeapEnd
    /\ \A i \in DOMAIN pages :
          Chunk(ptr, size) \cap Chunk(pages[i].unaligned, pages[i].size) = {}

\* allocPageblock and addPageBlock.  (Returning false changes nothing.)
AllocPageblock(size) ==
    /\ size <= Bits
    /\ Len(pages) < MaxBlocks - 4
    /\ \E ptr \in 0 .. HeapEnd :
          /\ TiMalloc(ptr, size)
          /\ pages' = Append(pages, [unaligned |-> ptr,
                                     start |-> makeSmallPageAligned(ptr),
                                     size |-> size,
                                     used |-> {}])
    /\ refused' = FALSE
    /\ UNCHANGED held

\* freeAllPageblocks, when OSExt is uninstalled
FreeAllPageblocks ==
    /\ pages # <<>>
    /\ pages' = <<>>
    /\ held' = {}
    /\ refused' = FALSE
-----------------------------------------------------------------------------
\* Pages.

\* faulty variant: the last free page is not looked for
PageFreeSpare(i, a) ==
    /\ a \in 0 .. (pages[i].size - 1)
    /\ Cardinality(pages[i].used) < pages[i].size - 1
    /\ a \notin pages[i].used

\* page a of block i is one usePage would return
PageFree(i, a) ==
    /\ a \in 0 .. (pages[i].size - 1)
    /\ Cardinality(pages[i].used) < pages[i].size
    /\ a \notin pages[i].used

Offsets == 0 .. (Bits - 1)

\* usePage: the first free page of the first block that has one
UsePage ==
    \E i \in DOMAIN pages, a \in Offsets :
        /\ PageFree(i, a)
        /\ \A j \in 1 .. (i - 1), c \in Offsets : ~ PageFree(j, c)
        /\ \A c \in 0 .. (a - 1) : ~ PageFree(i, c)
        /\ pages' = [pages EXCEPT ![i].used = @ \cup {a}]
        /\ held' = held \cup {[page |-> pages[i].start + PAGE * a, size |-> 1]}
        /\ refused' = FALSE

\* usePage returns NULL
UsePageNull ==
    /\ \A i \in DOMAIN pages, a \in Offsets : ~ PageFree(i, a)
    /\ refused' = TRUE
    /\ UNCHANGED <<pages, held>>

\* page % alignment == 0; callers that do not care pass 0, and the division
\* routine leaves a remainder of 0 then
Aligned(page, alignment) == alignment # 0 => page % alignment = 0

\* faulty variant: the last page of the run is not looked at
RunFreeShort(r) == \A p \in PagesOf([r EXCEPT !.size = @ - 1]) : ~ IsPageUsed(p)

RunFree(r) == \A p \in PagesOf(r) : ~ IsPageUsed(p)

\* useConsecutivePages tries the pages of the blocks in their order
Fits(i, a, size, alignment) ==
    LET page == pages[i].start + PAGE * a
    IN /\ a \in 0 .. (pages[i].size - 1)
       /\ Aligned(page, alignment)
       /\ RunFree([page |-> page, size |-> size])

UseConsecutivePages(size, alignment) ==
    \E i \in DOMAIN pages, a \in Offsets :
        LET run == [page |-> pages[i].start + PAGE * a, size |-> size]
        IN /\ Fits(i, a, size, alignment)
           /\ \A j \in 1 .. (i - 1), c \in Offsets : ~ Fits(j, c, size, alignment)
           /\ \A c \in 0 .. (a - 1) : ~ Fits(i, c, size, alignment)
           /\ pages' = SetUsed(PagesOf(run), TRUE)
           /\ held' = held \cup {run}
           /\ refused' = FALSE

\* freeConsecutivePages of a run its caller holds; setPageUsedBit(page, false) for
\* a single page
FreeConsecutivePages(run) ==
    /\ pages' = SetUsed(PagesOf(run), FALSE)
    /\ held' = held \ {run}
    /\ refused' = FALSE

Next ==
    \/ \E size \in Sizes : AllocPageblock(size)
    \/ FreeAllPageblocks
    \/ UsePage
    \/ UsePageNull
    \/ \E size \in Requests, alignment \in Aligns : UseConsecutivePages(size, alignment)
    \/ \E run \in held : FreeConsecutivePages(run)

Init ==
    /\ pages = <<>>
    /\ held = {}
    /\ refused = FALSE

Spec == Init /\ [][Next]_vars
-----------------------------------------------------------------------------
\* Safety

\* No page belongs to two runs that are in use, although the bit of the page behind
\* a block of 128 pages can be handed out and not be remembered.
Exclusive ==
    \A r, s \in held : r # s => PagesOf(r) \cap PagesOf(s) = {}

\* Every page in use is memory of one block's ti_malloc, whatever its alignment, the
\* page behind the last one of a block included: the TI-OS never uses it too.
WithinChunk ==
    \A r \in held : \E i \in DOMAIN pages :
        \A p \in PagesOf(r) : {p, p + PAGE - 1} \subseteq
                                  Chunk(pages[i].unaligned, pages[i].size)

\* The bits are the pages in use: no page leaks when the last run on it is freed and
\* none is offered again while it is in use.
UsedExact ==
    \A i \in DOMAIN pages : \A k \in Offsets :
        k \in pages[i].used <=>
            /\ k <= pages[i].size
            /\ \E r \in held : pages[i].start + PAGE * k \in PagesOf(r)

\* usePage returns NULL only when every page of every block is in use: its count of
\* the bits in used and used2 agrees with the search behind it.  (With blocks of 128
\* pages, the ones the kernel allocates: the bit behind a shorter block counts too.)
RefusedOnlyWhenFull ==
    refused => \A i \in DOMAIN pages :
                  pages[i].size = Bits => 0 .. (pages[i].size - 1) \subseteq pages[i].used
=============================================================================
