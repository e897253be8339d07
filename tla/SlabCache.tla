----------------------------- MODULE SlabCache -----------------------------
(***************************************************************************)
(* The slab allocator, kernel/memory/slab.c: caches of objects of one      *)
(* size, each with a full, a partial and a free list of slabs; kmalloc,    *)
(* kfree and the typed request and free functions on top of them.          *)
(*                                                                         *)
(* A slab is the number of its first page on the kernel heap, an object    *)
(* its address.  An allocation runs step by step, because it calls itself: *)
(* growCache takes the descriptor and the used array of the new slab from  *)
(* other caches, which may have to grow themselves.                        *)
(***************************************************************************)
EXTENDS Integers, Sequences, SequencesExt, FiniteSets, FiniteSetsExt, Functions

CONSTANTS Page,      \* SMALL_PAGE_SIZE
          DescSize,  \* sizeof(struct slab_desc_t), 16 in the code
          ByteBits,  \* bits of a byte of the used array, 8 in the code
          Align,     \* align4Bytes, 4 in the code
          OffSize,   \* from this size on descriptors are off-slab, 128 in the code
          MaxMalloc, \* largest kmalloc, 1024 in the code
          Order,     \* the list of caches, last created first
          Size,      \* obj_size of every cache
          NoMalloc,  \* caches with CACHE_NO_MALLOC
          OffSlab,   \* caches with CACHE_SLAB_DESC_OFF_SLAB
          Typed,     \* caches with request and free functions of their own
          slab_cache,
          Boot,      \* the slabs initSlabAllocator has built, with their used bits
          Requests,  \* sizes kmalloc is called with
          HeapEnd,   \* bound: pages of the kernel heap
          MaxHeld,   \* bound: objects callers hold at a time
          NULL

Caches == Range(Order)

ASSUME GeometryAssumption ==
    /\ {Page, DescSize, ByteBits, Align, OffSize, MaxMalloc} \subseteq Nat \ {0}
    /\ HeapEnd \in Nat /\ MaxHeld \in Nat /\ Requests \subseteq Nat \ {0}
ASSUME CachesAssumption ==
    /\ Order \in Seq(Caches) /\ IsInjective(Order)
    /\ Size \in [Caches -> Nat \ {0}]
    /\ NoMalloc \subseteq Caches /\ OffSlab \subseteq Caches /\ Typed \subseteq Caches
    /\ slab_cache \in Caches /\ NULL \notin Caches

VARIABLES
    lists,     \* of every cache: the lists full, partial and free
    slabs,     \* of every slab on a list: its cache and the bits of its used array
    heap,      \* kernel_heap_next_page
    stack,     \* the calls of alloc_object_from_cache under way, innermost first
    want,      \* what the outermost call is for: a cache, or the size kmalloc got
    held,      \* history: the objects callers hold
    own,       \* history: the objects that are descriptors and used arrays
    stale,     \* objects of ArrayCaches somebody has written to and freed
    panicked   \* the message of panic, or NULL

vars == <<lists, slabs, heap, stack, want, held, own, stale, panicked>>

-----------------------------------------------------------------------------
\* The layout of a slab.

\* the pages of a slab (growCache)
Pages == [c \in Caches |->
    IF Size[c] < Page THEN 1
    ELSE Size[c] \div Page + (IF Size[c] % Page = 0 THEN 0 ELSE 1)]

Off(c) == Size[c] >= OffSize \/ c \in OffSlab

ObjsRaw == [c \in Caches |-> (Pages[c] * Page) \div Size[c]]

ArrayBytes == [c \in Caches |-> ObjsRaw[c] \div ByteBits + 1]

align4Bytes(n) == IF n % Align = 0 THEN n ELSE (n \div Align) * Align + Align

\* Where the objects start: behind the descriptor and the used array, if they are
\* on the slab.
Header == [c \in Caches |-> IF Off(c) THEN 0 ELSE align4Bytes(DescSize + ArrayBytes[c])]

\* faulty variant: the room of descriptor and used array is not subtracted
ObjsUnadjusted == [c \in Caches |-> ObjsRaw[c]]

Objs == [c \in Caches |-> (Pages[c] * Page - Header[c]) \div Size[c]]

ASSUME BootAssumption ==
    /\ Boot \in Seq([cache : Caches, used : SUBSET Nat])
    /\ \A b \in DOMAIN Boot : /\ Pages[Boot[b].cache] = 1
                              /\ \A i \in Boot[b].used : i < Objs[Boot[b].cache]

Cache(s) == slabs[s].cache

Start(s) == s * Page + Header[Cache(s)]

Addr(s, i) == Start(s) + i * Size[Cache(s)]

Bits == [c \in Caches |-> 0 .. (ByteBits * ArrayBytes[c] - 1)]

\* The objects of a slab that alloc_object_from_slab can return.
Clear(s) == {i \in 0 .. (Objs[Cache(s)] - 1) : i \notin slabs[s].used}

Index(s, a) == (a - Start(s)) \div Size[Cache(s)]

\* free_object_from_slab takes a for an object of s.  It compares with > objs where
\* >= objs is meant, so the object behind the last one counts too.
Claims(s, a) == a >= Start(s) /\ Index(s, a) <= Objs[Cache(s)]

\* faulty variant: the mask takes the whole byte
ClearByte(used, i) == {j \in used : j \div ByteBits # i \div ByteBits}

ClearBit(used, i) == used \ {i}

\* What isSlabFree may answer.  It looks at objs/obj_size + 1 bytes of the used
\* array: too few for large objects; for the smallest objects it reads on into the
\* objects, whose contents decide.
IsSlabFree(c, used) ==
    LET bytes == Objs[c] \div Size[c] + 1
        scanned == 0 .. (ByteBits * bytes - 1)
    IN {free \in BOOLEAN :
          \/ free /\ used \cap scanned = {}
          \/ ~ free /\ (used \cap scanned # {} \/ bytes > ArrayBytes[c])}

-----------------------------------------------------------------------------
\* Choosing a cache.

\* The first element of a list that is one of S.
First(list, S) == list[Min({i \in DOMAIN list : list[i] \in S})]

\* kmalloc: the first cache of exactly this size, or else of the least larger one
BestFit(n) ==
    LET fits == {c \in Caches \ NoMalloc : Size[c] >= n}
        least == Min({Size[c] : c \in fits})
    IN IF n > MaxMalloc \/ fits = {} THEN NULL
       ELSE First(Order, {c \in fits : Size[c] = least})

\* The caches used arrays come from: only their objects' contents matter.
ArrayCaches == {BestFit(ArrayBytes[c]) : c \in {d \in Caches : Off(d)}}

\* A call of alloc_object_from_cache, its loop at the head of the partial list; it
\* goes on to the free list at once if the partial list is empty.
Call(c, ls) ==
    [cache |-> c,
     pc |-> IF ls[c].partial = <<>> THEN "fresh" ELSE "scan",
     slab |-> IF ls[c].partial = <<>> THEN NULL ELSE Head(ls[c].partial)]

Top == Head(stack)

Running(pc) == stack # <<>> /\ panicked = NULL /\ Top.pc = pc

\* The entry points.  alloc_object_from_cache for a typed request, kmalloc; a
\* kmalloc that finds no cache returns NULL and changes nothing.
Idle == stack = <<>> /\ panicked = NULL

Begin(c, what) ==
    /\ Idle
    /\ Cardinality(held) < MaxHeld
    /\ stack' = <<Call(c, lists)>>
    /\ want' = what
    /\ UNCHANGED <<lists, slabs, heap, held, own, stale, panicked>>

Request(c) == c \in Typed /\ Begin(c, c)

Kmalloc(n) == BestFit(n) # NULL /\ Begin(BestFit(n), n)

Panic(msg) ==
    /\ panicked' = msg
    /\ UNCHANGED <<lists, slabs, heap, stack, want, held, own, stale>>

-----------------------------------------------------------------------------
\* An allocation.

\* growCache adds a slab to the slabs sl.
NewSlab(sl, s, c, bits) ==
    [t \in DOMAIN sl \cup {s} |-> IF t = s THEN [cache |-> c, used |-> bits] ELSE sl[t]]

\* The innermost call returns the object a, with the lists ls and the slabs sl.
\* Its caller is the kernel, or growCache, which goes on: with the descriptor it
\* asks for the used array; with the used array, whose contents are what the last
\* user of that memory left there, it puts the slab on the free list and calls
\* alloc_object_from_cache again.
Return(a, ls, sl) ==
    \/ /\ Len(stack) = 1
       /\ held' = held \cup {[addr |-> a, how |-> want]}
       /\ stack' = <<>>
       /\ want' = NULL
       /\ lists' = ls /\ slabs' = sl
       /\ UNCHANGED <<heap, own, stale, panicked>>
    \/ LET caller == stack[2]
           array == BestFit(ArrayBytes[caller.cache])
       IN /\ Len(stack) > 1
          /\ caller.pc = "desc"
          /\ own' = own \cup {a}
          /\ lists' = ls /\ slabs' = sl
          /\ IF array = NULL
             THEN /\ panicked' = "could not kmalloc the used array"
                  /\ UNCHANGED stack
             ELSE /\ stack' = <<Call(array, ls), [caller EXCEPT !.pc = "used"]>>
                                \o SubSeq(stack, 3, Len(stack))
                  /\ UNCHANGED panicked
          /\ UNCHANGED <<heap, want, held, stale>>
    \/ LET caller == stack[2]
           c == caller.cache
       IN /\ Len(stack) > 1
          /\ caller.pc = "used"
          /\ own' = own \cup {a}
          /\ \E bits \in IF a \in stale THEN SUBSET Bits[c] ELSE {{}} :
                slabs' = NewSlab(sl, caller.slab, c, bits)
          /\ lists' = [ls EXCEPT ![c].free = <<caller.slab>> \o @]
          /\ stack' = <<Call(c, lists')>> \o SubSeq(stack, 3, Len(stack))
          /\ UNCHANGED <<heap, want, held, stale, panicked>>

\* alloc_object_from_slab(s) has found an object: its bit is set
TakeObject(s, ls) ==
    LET i == Min(Clear(s))
    IN Return(Addr(s, i), ls, [slabs EXCEPT ![s].used = @ \cup {i}])

\* the loop over the partial list: the slab at the cursor has an object
ScanHit ==
    /\ Running("scan")
    /\ Clear(Top.slab) # {}
    /\ TakeObject(Top.slab, lists)

ToFull(l, s) == [l EXCEPT !.partial = RemoveFirst(@, s),
                          !.full = <<s>> \o RemoveFirst(@, s)]

\* The slab at the cursor is exhausted and becomes the head of the full list.  The
\* cursor then follows its next pointer, which by now leads into the full list: to
\* the former head, or to the end of the loop when the full list was empty.
ScanMiss ==
    LET c == Top.cache
        full == lists[c].full
    IN /\ Running("scan")
       /\ Clear(Top.slab) = {}
       /\ lists' = [lists EXCEPT ![c] = ToFull(@, Top.slab)]
       /\ stack' = [stack EXCEPT ![1] =
                      [@ EXCEPT !.pc = IF full = <<>> THEN "fresh" ELSE "scan",
                                !.slab = IF full = <<>> THEN NULL ELSE Head(full)]]
       /\ UNCHANGED <<slabs, heap, want, held, own, stale, panicked>>

\* the first slab of the free list moves to the partial list and gives the object
TakeFree ==
    LET c == Top.cache
        s == Head(lists[c].free)
        ls == [lists EXCEPT ![c].free = Tail(@), ![c].partial = <<s>> \o @]
    IN /\ Running("fresh")
       /\ lists[c].free # <<>>
       /\ IF Clear(s) # {} THEN TakeObject(s, ls)
          ELSE Panic("could not get object from empty slab!")

\* growCache: pages from the physical memory manager, mapped at the end of the heap.
\* With the descriptor on the slab, the zeroed page is complete and goes on the free
\* list; otherwise the descriptor is requested, for slabs of several pages by kmalloc.
Grow ==
    LET c == Top.cache
        desc == IF Size[c] < Page THEN slab_cache ELSE BestFit(DescSize)
    IN /\ Running("fresh")
       /\ lists[c].free = <<>>
       /\ heap + Pages[c] <= HeapEnd
       /\ heap' = heap + Pages[c]
       /\ IF ~ Off(c)
          THEN /\ slabs' = NewSlab(slabs, heap, c, {})
               /\ lists' = [lists EXCEPT ![c].free = <<heap>>]
               /\ stack' = <<Call(c, lists)>> \o Tail(stack)
               /\ UNCHANGED panicked
          ELSE /\ UNCHANGED <<slabs, lists>>
               /\ IF desc = NULL
                  THEN /\ panicked' = "could not kmalloc a slab descriptor"
                       /\ UNCHANGED stack
                  ELSE /\ stack' = <<Call(desc, lists),
                                     [Top EXCEPT !.pc = "desc", !.slab = heap]>> \o Tail(stack)
                       /\ UNCHANGED panicked
       /\ UNCHANGED <<want, held, own, stale>>

\* usePage or useConsecutivePages has returned NULL
GrowPanic ==
    /\ Running("fresh")
    /\ lists[Top.cache].free = <<>>
    /\ heap + Pages[Top.cache] > HeapEnd
    /\ Panic("no page for a growing cache found!")

-----------------------------------------------------------------------------
\* Freeing.

\* The slabs that are asked for an object of c, in this order; the free list is
\* not searched.
Searched(c) == lists[c].full \o lists[c].partial

\* Those that take a for theirs.
Claimants(c, a) == {s \in Range(Searched(c)) : Claims(s, a)}

\* faulty variant: a slab that was full is linked into the partial list and not
\* unlinked from the full one
AfterFreeKept(l, s, free) ==
    IF s \in Range(l.full) THEN [l EXCEPT !.partial = <<s>> \o @]
    ELSE IF free THEN [l EXCEPT !.partial = RemoveFirst(@, s), !.free = <<s>> \o @]
    ELSE l

\* The lists when slab s has given up an object: a full slab becomes partial, a
\* partial one free if isSlabFree says so.
AfterFree(l, s, free) ==
    IF s \in Range(l.full)
    THEN [l EXCEPT !.full = RemoveFirst(@, s), !.partial = <<s>> \o @]
    ELSE IF free THEN [l EXCEPT !.partial = RemoveFirst(@, s), !.free = <<s>> \o @]
    ELSE l

\* free_object_from_cache for the caches in cs, in the order of the list of caches,
\* until one returns true
FreeObject(h, cs) ==
    LET hits == {c \in cs : Claimants(c, h.addr) # {}}
        c == First(Order, hits)
        s == First(Searched(c), Claimants(c, h.addr))
        used == ClearBit(slabs[s].used, Index(s, h.addr))
    IN /\ Idle
       /\ held' = held \ {h}
       /\ stale' = IF Cache(h.addr \div Page) \in ArrayCaches THEN stale \cup {h.addr} ELSE stale
       /\ IF hits = {} THEN UNCHANGED <<lists, slabs>>
          ELSE /\ slabs' = [slabs EXCEPT ![s].used = used]
               /\ \E free \in IsSlabFree(c, used) :
                     lists' = [lists EXCEPT ![c] = AfterFree(@, s, free)]
       /\ UNCHANGED <<heap, stack, want, own, panicked>>

FreeTyped(h) == h.how \in Typed /\ FreeObject(h, {h.how})

Kfree(h) ==
    /\ h.how \in Requests
    /\ FreeObject(h, Caches \ NoMalloc)

\* kfree_hint with the size of the kmalloc
KfreeHint(h) ==
    /\ h.how \in Requests
    /\ FreeObject(h, {c \in Caches : Size[c] >= h.how})

-----------------------------------------------------------------------------
\* initSlabAllocator: the slabs built by hand are on the free lists although some of
\* their objects are in use, as descriptors and used arrays; every other cache that
\* createCache makes is empty.
Init ==
    /\ slabs = [s \in 0 .. (Len(Boot) - 1) |-> Boot[s + 1]]
    /\ lists = [c \in Caches |->
          [full |-> <<>>, partial |-> <<>>,
           free |-> SetToSeq({s \in DOMAIN slabs : Cache(s) = c})]]
    /\ heap = Len(Boot)
    /\ stack = <<>>
    /\ want = NULL
    /\ held = {}
    /\ own = UNION {{Addr(s, i) : i \in slabs[s].used} : s \in DOMAIN slabs}
    /\ stale = {}
    /\ panicked = NULL

Alloc == ScanHit \/ ScanMiss \/ TakeFree \/ Grow \/ GrowPanic

Next ==
    \/ \E c \in Caches : Request(c)
    \/ \E n \in Requests : Kmalloc(n)
    \/ Alloc
    \/ \E h \in held : FreeTyped(h) \/ Kfree(h) \/ KfreeHint(h)

Spec == Init /\ [][Next]_vars

-----------------------------------------------------------------------------
\* Properties.

Listed(c) == lists[c].full \o lists[c].partial \o lists[c].free

Live == own \cup {h.addr : h \in held}

\* The slab and the index of an object of the allocator.
Marked(a) == \E s \in DOMAIN slabs : \E i \in slabs[s].used :
                i < Objs[Cache(s)] /\ a = Addr(s, i)

\* The three lists of a cache never share a slab, never hold one twice, and
\* together hold every slab of the cache: no step of alloc_object_from_cache or
\* free_object_from_cache loses a slab or links it into two lists.  A slab with a free
\* object is never on the full list, where the allocation would not find it.
OneList ==
    \A c \in Caches : /\ IsInjective(Listed(c))
                      /\ Range(Listed(c)) = {s \in DOMAIN slabs : Cache(s) = c}
                      /\ \A s \in Range(lists[c].full) : Clear(s) = {}

\* The bit of every object somebody holds is set, whatever was freed around it and
\* through whichever cache kfree found it: alloc_object_from_slab only gives out
\* objects whose bit is clear, so none is given out twice.
LiveMarked == \A a \in Live : Marked(a)

\* The memory of an object of the slab s.
Extent(a) ==
    LET s == CHOOSE t \in DOMAIN slabs : t * Page <= a /\ a < (t + Pages[Cache(t)]) * Page
    IN a .. (a + Size[Cache(s)] - 1)

\* The memory somebody holds is shared with nobody: it lies inside its slab, behind
\* the descriptor and the used array, apart from every other object, also when
\* growCache is interrupted by the growth of the caches it takes its own objects from.
NoOverlap ==
    \A a \in Live :
        /\ \E s \in DOMAIN slabs :
              Extent(a) \subseteq Start(s) .. ((s + Pages[Cache(s)]) * Page - 1)
        /\ \A b \in Live \ {a} : Extent(a) \cap Extent(b) = {}
=============================================================================
