-------------------------- MODULE PhysicalMM_proofs --------------------------
(***************************************************************************)
(* Proofs about PhysicalMM: for any number and size of blocks, any heap    *)
(* and any requests, pages are handed out once, from the memory of one     *)
(* block, and the bits are the pages in use.                               *)
(***************************************************************************)
EXTENDS PhysicalMM, FiniteSetTheorems, TLAPS

USE BitsAssumption, SizesAssumption, RequestsAssumption, AlignsAssumption,
    HeapEndAssumption DEF PAGE

\* Block b's memory lies before block c's.
Before(b, c) == b.unaligned + PAGE * (b.size + 3) <= c.unaligned

\* ti_malloc gave every block memory of its own, and start is its first page.
Layout ==
    \A i \in DOMAIN pages :
        /\ pages[i].start \in {pages[i].unaligned, pages[i].unaligned + 1}
        /\ pages[i].size <= Bits
        /\ \A j \in DOMAIN pages : i # j => Before(pages[i], pages[j])
                                            \/ Before(pages[j], pages[i])

\* The run r starts at page a of block i and ends at the latest behind its last page.
OwnedBy(r, i, a) ==
    /\ a \in 0 .. (pages[i].size - 1)
    /\ r.page = pages[i].start + PAGE * a
    /\ a + r.size <= pages[i].size + 1

Owned == \A r \in held : \E i \in DOMAIN pages : \E a \in Nat : OwnedBy(r, i, a)

PagesInv == Layout /\ Owned /\ UsedExact /\ Exclusive

-----------------------------------------------------------------------------
LEMMA BlockFields ==
    ASSUME TypeOK, NEW i \in DOMAIN pages
    PROVE  /\ pages[i] \in Blocks
           /\ pages[i].unaligned \in Nat /\ pages[i].start \in Nat
           /\ pages[i].size \in Nat \ {0}
           /\ pages[i].used \in SUBSET (0 .. (Bits - 1))
<1>1. pages[i] \in Blocks
  BY DEF TypeOK
<1>2. QED
  BY <1>1 DEF Blocks

LEMMA BlockExcept ==
    ASSUME NEW b \in Blocks, NEW u \in SUBSET (0 .. (Bits - 1))
    PROVE  /\ [b EXCEPT !.used = u] \in Blocks
           /\ [b EXCEPT !.used = u].unaligned = b.unaligned
           /\ [b EXCEPT !.used = u].start = b.start
           /\ [b EXCEPT !.used = u].size = b.size
           /\ [b EXCEPT !.used = u].used = u
BY DEF Blocks

\* A page is the page of one block only, also with the page behind the blocks, and
\* the second page behind a block is of none.
LEMMA BlocksApart ==
    ASSUME TypeOK, Layout, NEW i \in DOMAIN pages, NEW j \in DOMAIN pages, i # j,
           NEW p \in Nat, InBlock(pages[i], p) \/ p = pages[i].start + PAGE * (pages[i].size + 1)
    PROVE  ~ InBlock(pages[j], p)
<1>1. /\ pages[i].unaligned \in Nat /\ pages[i].start \in Nat /\ pages[i].size \in Nat
      /\ pages[j].unaligned \in Nat /\ pages[j].start \in Nat /\ pages[j].size \in Nat
  BY BlockFields
<1>2. /\ pages[i].start \in {pages[i].unaligned, pages[i].unaligned + 1}
      /\ pages[j].start \in {pages[j].unaligned, pages[j].unaligned + 1}
      /\ Before(pages[i], pages[j]) \/ Before(pages[j], pages[i])
  BY DEF Layout
<1>3. p >= pages[i].start /\ p <= pages[i].start + PAGE * (pages[i].size + 1)
  BY <1>1 DEF InBlock
<1>4. CASE Before(pages[i], pages[j])
  BY <1>1, <1>2, <1>3, <1>4 DEF Before, InBlock
<1>5. CASE Before(pages[j], pages[i])
  BY <1>1, <1>2, <1>3, <1>5 DEF Before, InBlock
<1>6. QED
  BY <1>2, <1>4, <1>5

\* The pages of a run of block i, and their offsets.
LEMMA OwnedPages ==
    ASSUME TypeOK, NEW r \in Runs, NEW i \in DOMAIN pages, NEW a \in Nat, OwnedBy(r, i, a),
           NEW p \in PagesOf(r)
    PROVE  /\ p \in Nat
           /\ InBlock(pages[i], p)
           /\ Offset(pages[i], p) \in a .. (a + r.size - 1)
           /\ p = pages[i].start + PAGE * Offset(pages[i], p)
<1>1. /\ pages[i].start \in Nat /\ pages[i].size \in Nat /\ r.size \in Nat /\ r.page \in Nat
  BY BlockFields DEF Runs
<1>2. PICK k \in 0 .. (r.size - 1) : p = r.page + PAGE * k
  BY DEF PagesOf
<1>3. p = pages[i].start + PAGE * (a + k)
  BY <1>1, <1>2 DEF OwnedBy
<1>4. a + k <= pages[i].size
  BY <1>1, <1>2 DEF OwnedBy
<1>5. Offset(pages[i], p) = a + k
  BY <1>1, <1>2, <1>3 DEF Offset
<1>6. QED
  BY <1>1, <1>2, <1>3, <1>4, <1>5 DEF InBlock

\* Conversely, the page with an offset of the run is one of its pages.
LEMMA OffsetPage ==
    ASSUME TypeOK, NEW r \in Runs, NEW i \in DOMAIN pages, NEW a \in Nat, OwnedBy(r, i, a),
           NEW k \in Nat
    PROVE  pages[i].start + PAGE * k \in PagesOf(r) <=> k \in a .. (a + r.size - 1)
<1>1. /\ pages[i].start \in Nat /\ r.size \in Nat /\ r.page = pages[i].start + PAGE * a
  BY BlockFields DEF Runs, OwnedBy
<1>2. ASSUME k \in a .. (a + r.size - 1)
      PROVE  pages[i].start + PAGE * k \in PagesOf(r)
  <2>1. k - a \in 0 .. (r.size - 1) /\ pages[i].start + PAGE * k = r.page + PAGE * (k - a)
    BY <1>1, <1>2
  <2>2. QED
    BY <2>1 DEF PagesOf
<1>3. ASSUME pages[i].start + PAGE * k \in PagesOf(r)
      PROVE  k \in a .. (a + r.size - 1)
  <2>1. PICK m \in 0 .. (r.size - 1) : pages[i].start + PAGE * k = r.page + PAGE * m
    BY <1>3 DEF PagesOf
  <2>2. QED
    BY <1>1, <2>1
<1>4. QED
  BY <1>2, <1>3

\* isPageUsed of a page of block i reads block i's bit; of a page of no block it is
\* true.
LEMMA UsedBit ==
    ASSUME TypeOK, Layout, NEW i \in DOMAIN pages, NEW p \in Nat
    PROVE  /\ InBlock(pages[i], p) /\ ~ IsPageUsed(p)
                  => Offset(pages[i], p) \notin pages[i].used
           /\ p = pages[i].start + PAGE * (pages[i].size + 1) => IsPageUsed(p)
<1>1. ASSUME InBlock(pages[i], p), ~ IsPageUsed(p)
      PROVE  Offset(pages[i], p) \notin pages[i].used
  <2>1. PICK j \in DOMAIN pages : /\ InBlock(pages[j], p)
                                  /\ Offset(pages[j], p) \notin pages[j].used
    BY <1>1 DEF IsPageUsed
  <2>2. j = i
    BY <1>1, <2>1, BlocksApart
  <2>3. QED
    BY <2>1, <2>2
<1>2. ASSUME p = pages[i].start + PAGE * (pages[i].size + 1)
      PROVE  IsPageUsed(p)
  <2>1. ~ InBlock(pages[i], p)
    BY <1>2, BlockFields DEF InBlock
  <2>2. \A j \in DOMAIN pages : ~ InBlock(pages[j], p)
    BY <1>2, <2>1, BlocksApart
  <2>3. QED
    BY <2>2 DEF IsPageUsed
<1>3. QED
  BY <1>1, <1>2

\* A run useConsecutivePages accepts starts in one block and stays in it but for the
\* page behind.
LEMMA FitsOwned ==
    ASSUME TypeOK, Layout, NEW i \in DOMAIN pages, NEW a \in Nat,
           NEW size \in Nat \ {0}, NEW alignment, Fits(i, a, size, alignment),
           NEW r, r = [page |-> pages[i].start + PAGE * a, size |-> size]
    PROVE  r \in Runs /\ OwnedBy(r, i, a)
<1>1. pages[i].start \in Nat /\ pages[i].size \in Nat
  BY BlockFields
<1>2. r \in Runs
  BY <1>1 DEF Runs
<1>3. a \in 0 .. (pages[i].size - 1) /\ RunFree(r)
  BY DEF Fits
<1>4. a + size <= pages[i].size + 1
  <2> SUFFICES ASSUME ~ (a + size <= pages[i].size + 1) PROVE FALSE
    OBVIOUS
  <2> DEFINE p == pages[i].start + PAGE * (pages[i].size + 1)
             m == pages[i].size + 1 - a
  <2>1. m \in 0 .. (size - 1) /\ p = r.page + PAGE * m /\ p \in Nat
    BY <1>1, <1>3
  <2>2. p \in PagesOf(r)
    BY <2>1 DEF PagesOf
  <2>3. IsPageUsed(p)
    BY <2>1, UsedBit
  <2>4. QED
    BY <1>3, <2>2, <2>3 DEF RunFree
<1>5. QED
  BY <1>2, <1>3, <1>4 DEF OwnedBy

\* A new run in block i whose pages have no bit set overlaps no run in use.  The page
\* behind a block of 128 pages has no bit, but whoever holds it holds the last page
\* of the block too.
LEMMA NoOverlap ==
    ASSUME TypeOK, PagesInv, NEW i \in DOMAIN pages, NEW a \in Nat, NEW r \in Runs,
           OwnedBy(r, i, a),
           \A k \in a .. (a + r.size - 1) : k \notin pages[i].used,
           NEW s \in held
    PROVE  PagesOf(r) \cap PagesOf(s) = {}
<1> SUFFICES ASSUME NEW p \in PagesOf(r), p \in PagesOf(s) PROVE FALSE
  OBVIOUS
<1>1. s \in Runs /\ r.size \in Nat /\ s.size \in Nat /\ pages[i].size \in Nat /\ a \in Nat
  BY BlockFields DEF TypeOK, Runs
<1>2. PICK j \in DOMAIN pages, c \in Nat : OwnedBy(s, j, c)
  BY DEF PagesInv, Owned
<1>3. p \in Nat /\ InBlock(pages[i], p) /\ InBlock(pages[j], p)
  BY <1>1, <1>2, OwnedPages
<1>4. i = j
  BY <1>3, BlocksApart DEF PagesInv
<1> DEFINE k == Offset(pages[i], p)
<1>5. /\ k \in a .. (a + r.size - 1) /\ k \in c .. (c + s.size - 1)
      /\ p = pages[i].start + PAGE * k
  BY <1>1, <1>2, <1>4, OwnedPages
<1>6. /\ a \in 0 .. (pages[i].size - 1) /\ a + r.size <= pages[i].size + 1
      /\ c \in 0 .. (pages[i].size - 1) /\ c + s.size <= pages[i].size + 1
      /\ pages[i].size <= Bits
  BY <1>2, <1>4 DEF OwnedBy, PagesInv, Layout
<1> HIDE DEF k
<1>7. PICK m \in Nat : /\ m \in a .. (a + r.size - 1) /\ m \in c .. (c + s.size - 1)
                       /\ m < Bits /\ m <= pages[i].size
  <2>1. CASE k < pages[i].size
    BY <1>1, <1>5, <1>6, <2>1
  <2>2. CASE k = pages[i].size
    <3>1. k - 1 \in a .. (a + r.size - 1) /\ k - 1 \in c .. (c + s.size - 1)
      BY <1>1, <1>5, <1>6, <2>2
    <3>2. k - 1 \in Nat /\ k - 1 < Bits /\ k - 1 <= pages[i].size
      BY <1>1, <1>5, <1>6, <2>2
    <3>3. QED
      BY <3>1, <3>2
  <2>3. k \in Nat /\ k <= pages[i].size
    BY <1>1, <1>5, <1>6
  <2>4. QED
    BY <1>1, <2>1, <2>2, <2>3
<1>8. pages[i].start + PAGE * m \in PagesOf(s)
  BY <1>1, <1>2, <1>4, <1>7, OffsetPage
<1>9. m \in pages[i].used
  <2>1. m \in Offsets
    BY <1>7 DEF Offsets
  <2>2. QED
    BY <1>7, <1>8, <2>1 DEF PagesInv, UsedExact
<1>10. QED
  BY <1>7, <1>9

-----------------------------------------------------------------------------
\* Only the bits of block i change, to the set u.
BitsStep(i, u) ==
    /\ DOMAIN pages' = DOMAIN pages
    /\ \A j \in DOMAIN pages : /\ pages'[j].unaligned = pages[j].unaligned
                               /\ pages'[j].start = pages[j].start
                               /\ pages'[j].size = pages[j].size
                               /\ pages'[j].used = IF j = i THEN u ELSE pages[j].used

Covered(a, n) == a .. (a + n - 1)

\* setPageUsedBit over the pages of a run touches only the bits of the run.
LEMMA SetUsedStep ==
    ASSUME TypeOK, Layout, NEW i \in DOMAIN pages, NEW a \in Nat, NEW r \in Runs,
           OwnedBy(r, i, a), NEW value \in BOOLEAN,
           pages' = SetUsed(PagesOf(r), value)
    PROVE  /\ BitsStep(i, IF value
                          THEN pages[i].used \cup (Covered(a, r.size) \cap (0 .. (Bits - 1)))
                          ELSE pages[i].used \ Covered(a, r.size))
           /\ pages' \in Seq(Blocks)
<1> DEFINE ks(j) == {Offset(pages[j], p) : p \in {q \in PagesOf(r) : InBlock(pages[j], q)}}
           nu(j) == IF value THEN pages[j].used \cup (ks(j) \cap (0 .. (Bits - 1)))
                             ELSE pages[j].used \ ks(j)
<1>1. pages' = [j \in DOMAIN pages |-> [pages[j] EXCEPT !.used = nu(j)]]
  BY DEF SetUsed
<1>2. ASSUME NEW j \in DOMAIN pages, j # i
      PROVE  ks(j) = {}
  <2>1. ASSUME NEW q \in PagesOf(r) PROVE ~ InBlock(pages[j], q)
    BY <1>2, <2>1, OwnedPages, BlocksApart
  <2>2. QED
    BY <2>1
<1>3. ks(i) = Covered(a, r.size)
  <2>1. ASSUME NEW k \in ks(i) PROVE k \in Covered(a, r.size)
    BY <2>1, OwnedPages DEF Covered
  <2>2. ASSUME NEW k \in Covered(a, r.size) PROVE k \in ks(i)
    <3> DEFINE q == pages[i].start + PAGE * k
    <3>1. k \in Nat /\ r.size \in Nat /\ pages[i].start \in Nat
      BY <2>2, BlockFields DEF Covered, Runs
    <3>2. q \in PagesOf(r)
      BY <2>2, <3>1, OffsetPage DEF Covered
    <3>3. InBlock(pages[i], q)
      BY <3>2, OwnedPages
    <3>4. Offset(pages[i], q) = k
      BY <3>1 DEF Offset
    <3>5. QED
      BY <3>2, <3>3, <3>4
  <2>3. QED
    BY <2>1, <2>2
<1> HIDE DEF ks
<1>4. \A j \in DOMAIN pages : pages'[j] = [pages[j] EXCEPT !.used = nu(j)]
  BY <1>1
<1>5. \A j \in DOMAIN pages : j # i => nu(j) = pages[j].used
  BY <1>2
<1>6. nu(i) = IF value THEN pages[i].used \cup (Covered(a, r.size) \cap (0 .. (Bits - 1)))
              ELSE pages[i].used \ Covered(a, r.size)
  BY <1>3
<1>7. \A j \in DOMAIN pages : nu(j) \in SUBSET (0 .. (Bits - 1))
  BY BlockFields
<1>8. DOMAIN pages' = DOMAIN pages
  BY <1>1
<1> HIDE DEF nu
<1>9. \A j \in DOMAIN pages : /\ pages'[j].unaligned = pages[j].unaligned
                              /\ pages'[j].start = pages[j].start
                              /\ pages'[j].size = pages[j].size
                              /\ pages'[j].used = nu(j)
                              /\ pages'[j] \in Blocks
  <2> SUFFICES ASSUME NEW j \in DOMAIN pages
               PROVE  /\ pages'[j].unaligned = pages[j].unaligned
                      /\ pages'[j].start = pages[j].start
                      /\ pages'[j].size = pages[j].size
                      /\ pages'[j].used = nu(j)
                      /\ pages'[j] \in Blocks
    OBVIOUS
  <2>1. pages[j] \in Blocks /\ nu(j) \in SUBSET (0 .. (Bits - 1))
    BY <1>7, BlockFields
  <2>2. pages'[j] = [pages[j] EXCEPT !.used = nu(j)]
    BY <1>4
  <2> DEFINE b == pages[j]
             u == nu(j)
  <2>3. b \in Blocks /\ u \in SUBSET (0 .. (Bits - 1)) /\ pages'[j] = [b EXCEPT !.used = u]
    BY <2>1, <2>2
  <2> HIDE DEF b, u
  <2>4. /\ pages'[j].unaligned = b.unaligned /\ pages'[j].start = b.start
        /\ pages'[j].size = b.size /\ pages'[j].used = u /\ pages'[j] \in Blocks
    BY <2>3, BlockExcept
  <2>5. QED
    BY <2>4 DEF b, u
<1>10. pages' \in Seq(Blocks)
  <2>1. Len(pages) \in Nat /\ DOMAIN pages = 1 .. Len(pages)
    BY DEF TypeOK
  <2>2. pages' \in [1 .. Len(pages) -> Blocks]
    BY <1>1, <1>4, <1>9, <2>1
  <2>3. QED
    BY <2>1, <2>2
<1>11. QED
  BY <1>5, <1>6, <1>8, <1>9, <1>10 DEF BitsStep

LEMMA LayoutKept ==
    ASSUME Layout, NEW i, NEW u, BitsStep(i, u)
    PROVE  /\ Layout'
           /\ \A r, j, a : j \in DOMAIN pages /\ OwnedBy(r, j, a) =>
                 /\ a \in 0 .. (pages'[j].size - 1)
                 /\ r.page = pages'[j].start + PAGE * a
                 /\ a + r.size <= pages'[j].size + 1
BY DEF Layout, BitsStep, Before, OwnedBy

\* A run whose bits were clear is handed out.
LEMMA TakeRun ==
    ASSUME TypeOK, PagesInv, NEW i \in DOMAIN pages, NEW a \in Nat, NEW r \in Runs,
           OwnedBy(r, i, a),
           \A k \in a .. (a + r.size - 1) : k \notin pages[i].used,
           BitsStep(i, pages[i].used \cup (Covered(a, r.size) \cap (0 .. (Bits - 1)))),
           held' = held \cup {r}
    PROVE  PagesInv'
<1>1. Layout'
  BY LayoutKept DEF PagesInv
<1>2. Owned'
  <2> SUFFICES ASSUME NEW q \in held'
               PROVE  \E j \in DOMAIN pages' : \E c \in Nat : OwnedBy(q, j, c)'
    BY DEF Owned
  <2>1. PICK j \in DOMAIN pages, c \in Nat : OwnedBy(q, j, c)
    BY DEF PagesInv, Owned
  <2>2. QED
    BY <2>1, LayoutKept DEF PagesInv, OwnedBy, BitsStep
<1>3. Exclusive'
  <2>1. \A q, t \in held \cup {r} : q # t => PagesOf(q) \cap PagesOf(t) = {}
    BY NoOverlap DEF PagesInv, Exclusive
  <2>2. QED
    BY <2>1 DEF Exclusive, PagesOf
<1>4. UsedExact'
  <2> SUFFICES ASSUME NEW j \in DOMAIN pages, NEW k \in Offsets
               PROVE  k \in pages'[j].used <=>
                          /\ k <= pages[j].size
                          /\ \E q \in held \cup {r} : pages[j].start + PAGE * k \in PagesOf(q)
    BY DEF UsedExact, BitsStep, PagesOf
  <2>1. /\ k \in pages[j].used <=>
              /\ k <= pages[j].size
              /\ \E q \in held : pages[j].start + PAGE * k \in PagesOf(q)
        /\ k \in Nat /\ k \in 0 .. (Bits - 1)
        /\ pages[j].start \in Nat /\ pages[j].size \in Nat
    BY BlockFields DEF PagesInv, UsedExact, Offsets
  <2>2. CASE j = i
    <3>1. k \in pages'[j].used <=> k \in pages[j].used \/ k \in Covered(a, r.size)
      BY <2>1, <2>2 DEF BitsStep
    <3>2. pages[j].start + PAGE * k \in PagesOf(r) <=> k \in Covered(a, r.size)
      BY <2>1, <2>2, OffsetPage DEF Covered
    <3>3. k \in Covered(a, r.size) => k <= pages[j].size
      BY <2>1, <2>2 DEF Covered, OwnedBy, Runs
    <3>4. QED
      BY <2>1, <3>1, <3>2, <3>3
  <2>3. CASE j # i
    <3>1. pages'[j].used = pages[j].used
      BY <2>3 DEF BitsStep
    <3>2. ASSUME k <= pages[j].size, pages[j].start + PAGE * k \in PagesOf(r)
          PROVE  FALSE
      <4> DEFINE p == pages[j].start + PAGE * k
      <4>1. p \in Nat /\ InBlock(pages[j], p)
        BY <2>1, <3>2 DEF InBlock
      <4>2. InBlock(pages[i], p)
        BY <3>2, OwnedPages
      <4>3. QED
        BY <2>3, <4>1, <4>2, BlocksApart DEF PagesInv
    <3>3. QED
      BY <2>1, <3>1, <3>2
  <2>4. QED
    BY <2>2, <2>3
<1>5. QED
  BY <1>1, <1>2, <1>3, <1>4 DEF PagesInv

\* A run is given back.
LEMMA FreeRun ==
    ASSUME TypeOK, PagesInv, NEW r \in held, FreeConsecutivePages(r)
    PROVE  PagesInv' /\ pages' \in Seq(Blocks)
<1>1. r \in Runs
  BY DEF TypeOK
<1>2. PICK i \in DOMAIN pages, a \in Nat : OwnedBy(r, i, a)
  BY DEF PagesInv, Owned
<1>3. /\ BitsStep(i, pages[i].used \ Covered(a, r.size))
      /\ pages' \in Seq(Blocks)
  BY <1>1, <1>2, SetUsedStep DEF FreeConsecutivePages, PagesInv
<1>4. held' = held \ {r}
  BY DEF FreeConsecutivePages
<1>5. Layout'
  BY <1>3, LayoutKept DEF PagesInv
<1>6. Owned'
  <2> SUFFICES ASSUME NEW q \in held'
               PROVE  \E j \in DOMAIN pages' : \E c \in Nat : OwnedBy(q, j, c)'
    BY DEF Owned
  <2>1. PICK j \in DOMAIN pages, c \in Nat : OwnedBy(q, j, c)
    BY <1>4 DEF PagesInv, Owned
  <2>2. QED
    BY <1>3, <2>1, LayoutKept DEF PagesInv, OwnedBy, BitsStep
<1>7. Exclusive'
  BY <1>4 DEF PagesInv, Exclusive, PagesOf
<1>8. UsedExact'
  <2> SUFFICES ASSUME NEW j \in DOMAIN pages, NEW k \in Offsets
               PROVE  k \in pages'[j].used <=>
                          /\ k <= pages[j].size
                          /\ \E q \in held \ {r} : pages[j].start + PAGE * k \in PagesOf(q)
    BY <1>3, <1>4 DEF UsedExact, BitsStep, PagesOf
  <2>1. /\ k \in pages[j].used <=>
              /\ k <= pages[j].size
              /\ \E q \in held : pages[j].start + PAGE * k \in PagesOf(q)
        /\ k \in Nat /\ k \in 0 .. (Bits - 1)
        /\ pages[j].start \in Nat /\ pages[j].size \in Nat
    BY BlockFields DEF PagesInv, UsedExact, Offsets
  <2>2. pages[j].start + PAGE * k \in PagesOf(r) =>
            ~ \E q \in held \ {r} : pages[j].start + PAGE * k \in PagesOf(q)
    BY DEF PagesInv, Exclusive
  <2>3. CASE j = i
    <3>1. k \in pages'[j].used <=> k \in pages[j].used /\ k \notin Covered(a, r.size)
      BY <1>3, <2>1, <2>3 DEF BitsStep
    <3>2. pages[j].start + PAGE * k \in PagesOf(r) <=> k \in Covered(a, r.size)
      BY <1>1, <1>2, <2>1, <2>3, OffsetPage DEF Covered
    <3>3. QED
      BY <2>1, <2>2, <3>1, <3>2
  <2>4. CASE j # i
    <3>1. pages'[j].used = pages[j].used
      BY <1>3, <2>4 DEF BitsStep
    <3>2. ASSUME k <= pages[j].size, pages[j].start + PAGE * k \in PagesOf(r)
          PROVE  FALSE
      <4> DEFINE p == pages[j].start + PAGE * k
      <4>1. p \in Nat /\ InBlock(pages[j], p)
        BY <2>1, <3>2 DEF InBlock
      <4>2. InBlock(pages[i], p)
        BY <1>1, <1>2, <3>2, OwnedPages
      <4>3. QED
        BY <2>4, <4>1, <4>2, BlocksApart DEF PagesInv
    <3>3. QED
      BY <2>1, <3>1, <3>2
  <2>5. QED
    BY <2>3, <2>4
<1>9. QED
  BY <1>3, <1>5, <1>6, <1>7, <1>8 DEF PagesInv

-----------------------------------------------------------------------------
\* A single page from usePage.
LEMMA TakePage ==
    ASSUME TypeOK, PagesInv, UsePage
    PROVE  PagesInv' /\ TypeOK'
<1>1. PICK i \in DOMAIN pages, a \in Offsets :
          /\ PageFree(i, a)
          /\ pages' = [pages EXCEPT ![i].used = @ \cup {a}]
          /\ held' = held \cup {[page |-> pages[i].start + PAGE * a, size |-> 1]}
          /\ refused' = FALSE
  BY DEF UsePage
<1> DEFINE r == [page |-> pages[i].start + PAGE * a, size |-> 1]
           u == pages[i].used \cup {a}
<1>2. /\ pages[i] \in Blocks /\ pages[i].start \in Nat /\ pages[i].size \in Nat \ {0}
      /\ pages[i].used \in SUBSET (0 .. (Bits - 1))
  BY BlockFields
<1>3. a \in Nat /\ a \in 0 .. (pages[i].size - 1) /\ a \notin pages[i].used
      /\ a \in 0 .. (Bits - 1)
  BY <1>1 DEF PageFree, Offsets
<1>4. r \in Runs /\ OwnedBy(r, i, a) /\ r.size = 1
  BY <1>2, <1>3 DEF Runs, OwnedBy
<1>5. Covered(a, 1) = {a} /\ a .. (a + 1 - 1) = {a}
  BY <1>3 DEF Covered
<1>6. /\ pages'[i] = [pages[i] EXCEPT !.used = u]
      /\ \A j \in DOMAIN pages : j # i => pages'[j] = pages[j]
      /\ DOMAIN pages' = DOMAIN pages
  BY <1>1 DEF TypeOK
<1>7. u \in SUBSET (0 .. (Bits - 1))
  BY <1>2, <1>3
<1>8. u = pages[i].used \cup (Covered(a, r.size) \cap (0 .. (Bits - 1)))
  BY <1>3, <1>4, <1>5
<1> HIDE DEF u, r
<1>9. pages'[i] \in Blocks /\ BitsStep(i, u)
  <2> DEFINE b == pages[i]
  <2>1. b \in Blocks /\ pages'[i] = [b EXCEPT !.used = u]
    BY <1>2, <1>6
  <2> HIDE DEF b
  <2>2. /\ pages'[i].unaligned = b.unaligned /\ pages'[i].start = b.start
        /\ pages'[i].size = b.size /\ pages'[i].used = u /\ pages'[i] \in Blocks
    BY <1>7, <2>1, BlockExcept
  <2>3. QED
    BY <1>6, <2>2 DEF BitsStep, b
<1>10. PagesInv'
  <2>1. \A k \in a .. (a + r.size - 1) : k \notin pages[i].used
    BY <1>3, <1>4, <1>5
  <2>2. held' = held \cup {r}
    BY <1>1 DEF r
  <2>3. QED
    BY <1>3, <1>4, <1>8, <1>9, <2>1, <2>2, TakeRun
<1>11. pages' \in Seq(Blocks)
  <2>1. Len(pages) \in Nat /\ DOMAIN pages = 1 .. Len(pages)
    BY DEF TypeOK
  <2>2. pages' \in [1 .. Len(pages) -> Blocks]
    <3>1. \A j \in DOMAIN pages : pages'[j] \in Blocks
      BY <1>6, <1>9, BlockFields
    <3>2. pages' = [j \in DOMAIN pages |-> pages'[j]]
      BY <1>1 DEF TypeOK
    <3>3. QED
      BY <2>1, <3>1, <3>2
  <2>3. QED
    BY <2>1, <2>2
<1>12. held' \subseteq Runs /\ refused' \in BOOLEAN
  BY <1>1, <1>4 DEF TypeOK, r
<1>13. QED
  BY <1>10, <1>11, <1>12 DEF TypeOK

\* A run from useConsecutivePages.
LEMMA TakeConsecutive ==
    ASSUME TypeOK, PagesInv, NEW size \in Requests, NEW alignment \in Aligns,
           UseConsecutivePages(size, alignment)
    PROVE  PagesInv' /\ TypeOK'
<1>1. PICK i \in DOMAIN pages, a \in Offsets :
          LET r == [page |-> pages[i].start + PAGE * a, size |-> size]
          IN /\ Fits(i, a, size, alignment)
             /\ pages' = SetUsed(PagesOf(r), TRUE)
             /\ held' = held \cup {r}
             /\ refused' = FALSE
  BY DEF UseConsecutivePages
<1> DEFINE r == [page |-> pages[i].start + PAGE * a, size |-> size]
<1>2. a \in Nat /\ size \in Nat \ {0}
  BY DEF Offsets
<1>3. r \in Runs /\ OwnedBy(r, i, a)
  BY <1>1, <1>2, FitsOwned DEF PagesInv
<1>4. /\ RunFree(r) /\ held' = held \cup {r} /\ refused' = FALSE
      /\ pages' = SetUsed(PagesOf(r), TRUE)
  BY <1>1 DEF Fits
<1> HIDE DEF r
<1>5. \A k \in a .. (a + r.size - 1) : k \notin pages[i].used
  <2> SUFFICES ASSUME NEW k \in a .. (a + r.size - 1) PROVE k \notin pages[i].used
    OBVIOUS
  <2> DEFINE p == pages[i].start + PAGE * k
  <2>1. k \in Nat /\ pages[i].start \in Nat
    BY <1>2, <1>3, BlockFields DEF Runs
  <2>2. p \in PagesOf(r)
    BY <1>2, <1>3, <2>1, OffsetPage
  <2>3. p \in Nat /\ InBlock(pages[i], p) /\ Offset(pages[i], p) = k
    <3>1. InBlock(pages[i], p)
      BY <1>2, <1>3, <2>2, OwnedPages
    <3>2. QED
      BY <2>1, <3>1 DEF Offset
  <2>4. ~ IsPageUsed(p)
    BY <1>4, <2>2 DEF RunFree
  <2>5. QED
    BY <2>3, <2>4, UsedBit DEF PagesInv
<1>6. /\ BitsStep(i, pages[i].used \cup (Covered(a, r.size) \cap (0 .. (Bits - 1))))
      /\ pages' \in Seq(Blocks)
  BY <1>2, <1>3, <1>4, SetUsedStep DEF PagesInv
<1>7. PagesInv'
  BY <1>2, <1>3, <1>4, <1>5, <1>6, TakeRun
<1>8. QED
  BY <1>3, <1>4, <1>6, <1>7 DEF TypeOK

\* Two stretches of memory without a common address lie one behind the other.
LEMMA ChunksApart ==
    ASSUME NEW u \in Nat, NEW v \in Nat, NEW m \in Nat, NEW n \in Nat,
           Chunk(u, m) \cap Chunk(v, n) = {}
    PROVE  u + PAGE * (m + 3) <= v \/ v + PAGE * (n + 3) <= u
<1>1. CASE u <= v
  <2>1. v \in Chunk(v, n) /\ (v < u + PAGE * (m + 3) => v \in Chunk(u, m))
    BY <1>1 DEF Chunk
  <2>2. QED
    BY <2>1
<1>2. CASE v <= u
  <2>1. u \in Chunk(u, m) /\ (u < v + PAGE * (n + 3) => u \in Chunk(v, n))
    BY <1>2 DEF Chunk
  <2>2. QED
    BY <2>1
<1>3. QED
  BY <1>1, <1>2

LEMMA NewBlock ==
    ASSUME TypeOK, PagesInv, NEW size \in Sizes, AllocPageblock(size)
    PROVE  PagesInv' /\ TypeOK'
<1>1. PICK ptr \in 0 .. HeapEnd :
          /\ TiMalloc(ptr, size)
          /\ pages' = Append(pages, [unaligned |-> ptr,
                                     start |-> makeSmallPageAligned(ptr),
                                     size |-> size, used |-> {}])
  BY DEF AllocPageblock
<1>2. size <= Bits /\ refused' = FALSE /\ held' = held
  BY DEF AllocPageblock
<1> DEFINE b == [unaligned |-> ptr, start |-> makeSmallPageAligned(ptr),
                 size |-> size, used |-> {}]
           n == Len(pages)
<1>3. /\ b \in Blocks /\ b.unaligned = ptr /\ b.size = size /\ b.used = {}
      /\ b.start \in {ptr, ptr + 1} /\ ptr \in Nat /\ size \in Nat
  BY <1>1 DEF Blocks, makeSmallPageAligned
<1>4. n \in Nat /\ DOMAIN pages = 1 .. n
  BY DEF TypeOK
<1>5. pages' = Append(pages, b)
  BY <1>1
<1> HIDE DEF b
<1>6. /\ pages' \in Seq(Blocks) /\ DOMAIN pages' = 1 .. (n + 1)
      /\ pages'[n + 1] = b /\ \A j \in 1 .. n : pages'[j] = pages[j]
  BY <1>3, <1>5 DEF TypeOK
<1> HIDE DEF n
<1>7. ASSUME NEW j \in 1 .. n
      PROVE  Before(b, pages[j]) \/ Before(pages[j], b)
  <2>1. pages[j].unaligned \in Nat /\ pages[j].size \in Nat
    BY <1>4, BlockFields
  <2>2. Chunk(ptr, size) \cap Chunk(pages[j].unaligned, pages[j].size) = {}
    BY <1>1, <1>4 DEF TiMalloc
  <2>3. QED
    BY <1>3, <2>1, <2>2, ChunksApart DEF Before
<1>8. Layout'
  <2> SUFFICES ASSUME NEW i \in DOMAIN pages'
               PROVE  /\ pages'[i].start \in {pages'[i].unaligned, pages'[i].unaligned + 1}
                      /\ pages'[i].size <= Bits
                      /\ \A j \in DOMAIN pages' : i # j => Before(pages'[i], pages'[j])
                                                          \/ Before(pages'[j], pages'[i])
    BY DEF Layout, Before
  <2>1. i \in 1 .. n \/ i = n + 1
    BY <1>4, <1>6
  <2>2. CASE i \in 1 .. n
    BY <1>4, <1>6, <1>7, <2>2 DEF PagesInv, Layout
  <2>3. CASE i = n + 1
    BY <1>2, <1>3, <1>4, <1>6, <1>7, <2>3
  <2>4. QED
    BY <2>1, <2>2, <2>3
<1>9. Owned'
  <2> SUFFICES ASSUME NEW q \in held
               PROVE  \E j \in DOMAIN pages' : \E c \in Nat : OwnedBy(q, j, c)'
    BY <1>2 DEF Owned
  <2>1. PICK j \in DOMAIN pages, c \in Nat : OwnedBy(q, j, c)
    BY DEF PagesInv, Owned
  <2>2. QED
    BY <1>4, <1>6, <2>1 DEF OwnedBy
<1>10. Exclusive'
  BY <1>2 DEF PagesInv, Exclusive, PagesOf
<1>11. UsedExact'
  <2> SUFFICES ASSUME NEW j \in DOMAIN pages', NEW k \in Offsets
               PROVE  k \in pages'[j].used <=>
                          /\ k <= pages'[j].size
                          /\ \E q \in held : pages'[j].start + PAGE * k \in PagesOf(q)
    BY <1>2 DEF UsedExact, PagesOf
  <2>1. CASE j \in 1 .. n
    BY <1>4, <1>6, <2>1 DEF PagesInv, UsedExact
  <2>2. CASE j = n + 1
    <3>1. ASSUME k <= size, NEW q \in held, b.start + PAGE * k \in PagesOf(q)
          PROVE  FALSE
      <4>1. PICK i \in DOMAIN pages, c \in Nat : OwnedBy(q, i, c)
        BY DEF PagesInv, Owned
      <4> DEFINE p == b.start + PAGE * k
      <4>2. p \in Nat /\ InBlock(pages[i], p)
        BY <3>1, <4>1, OwnedPages DEF TypeOK
      <4>3. /\ pages[i].start \in {pages[i].unaligned, pages[i].unaligned + 1}
            /\ Before(b, pages[i]) \/ Before(pages[i], b)
            /\ pages[i].unaligned \in Nat /\ pages[i].size \in Nat /\ pages[i].start \in Nat
        BY <1>4, <1>7, BlockFields DEF PagesInv, Layout
      <4>4. k \in Nat
        BY DEF Offsets
      <4>5. p >= ptr /\ p <= ptr + 1 + PAGE * size
        BY <1>3, <3>1, <4>4
      <4>6. p >= pages[i].unaligned /\ p <= pages[i].unaligned + 1 + PAGE * pages[i].size
        BY <4>2, <4>3 DEF InBlock
      <4> HIDE DEF p
      <4>7. QED
        BY <1>3, <4>2, <4>3, <4>5, <4>6 DEF Before
    <3>2. pages'[j] = b
      BY <1>6, <2>2
    <3>3. QED
      BY <1>3, <3>1, <3>2
  <2>3. QED
    BY <1>4, <1>6, <2>1, <2>2
<1>12. QED
  BY <1>2, <1>6, <1>8, <1>9, <1>10, <1>11 DEF PagesInv, TypeOK

LEMMA PagesStep ==
    ASSUME TypeOK, PagesInv, [Next]_vars
    PROVE  PagesInv' /\ TypeOK'
<1>1. CASE \E size \in Sizes : AllocPageblock(size)
  BY <1>1, NewBlock
<1>2. CASE FreeAllPageblocks
  <2>1. pages' = <<>> /\ held' = {} /\ refused' = FALSE
    BY <1>2 DEF FreeAllPageblocks
  <2>2. DOMAIN pages' = {} /\ pages' \in Seq(Blocks)
    BY <2>1
  <2>3. QED
    BY <2>1, <2>2 DEF PagesInv, Layout, Owned, UsedExact, Exclusive, TypeOK
<1>3. CASE UsePage
  BY <1>3, TakePage
<1>4. CASE UsePageNull \/ UNCHANGED vars
  <2>1. pages' = pages /\ held' = held /\ refused' \in BOOLEAN
    BY <1>4 DEF UsePageNull, vars, TypeOK
  <2>2. Layout' /\ Exclusive' /\ UsedExact'
    BY <2>1 DEF PagesInv, Layout, UsedExact, Exclusive, Before, PagesOf
  <2>3. Owned'
    BY <2>1 DEF PagesInv, Owned, OwnedBy
  <2>4. TypeOK'
    BY <2>1 DEF TypeOK
  <2>5. QED
    BY <2>2, <2>3, <2>4 DEF PagesInv
<1>5. CASE \E size \in Requests, alignment \in Aligns : UseConsecutivePages(size, alignment)
  BY <1>5, TakeConsecutive
<1>6. CASE \E run \in held : FreeConsecutivePages(run)
  <2>1. PICK run \in held : FreeConsecutivePages(run)
    BY <1>6
  <2>2. PagesInv' /\ pages' \in Seq(Blocks)
    BY <2>1, FreeRun
  <2>3. held' \subseteq Runs /\ refused' \in BOOLEAN
    BY <2>1 DEF FreeConsecutivePages, TypeOK
  <2>4. QED
    BY <2>2, <2>3 DEF TypeOK
<1>7. QED
  BY <1>1, <1>2, <1>3, <1>4, <1>5, <1>6 DEF Next

\* Every page in use is inside the memory of its block.
LEMMA InvWithin ==
    ASSUME TypeOK, PagesInv
    PROVE  WithinChunk
<1> SUFFICES ASSUME NEW r \in held
             PROVE  \E i \in DOMAIN pages :
                       \A p \in PagesOf(r) : {p, p + PAGE - 1} \subseteq
                           Chunk(pages[i].unaligned, pages[i].size)
  BY DEF WithinChunk
<1>1. PICK i \in DOMAIN pages, a \in Nat : OwnedBy(r, i, a)
  BY DEF PagesInv, Owned
<1>2. /\ pages[i].start \in {pages[i].unaligned, pages[i].unaligned + 1}
      /\ pages[i].unaligned \in Nat /\ pages[i].size \in Nat /\ pages[i].start \in Nat
  BY BlockFields DEF PagesInv, Layout
<1>3. ASSUME NEW p \in PagesOf(r)
      PROVE  {p, p + PAGE - 1} \subseteq Chunk(pages[i].unaligned, pages[i].size)
  <2>1. p \in Nat /\ InBlock(pages[i], p)
    BY <1>1, OwnedPages DEF TypeOK
  <2>2. QED
    BY <1>2, <2>1 DEF InBlock, Chunk
<1>4. QED
  BY <1>3

\* Whatever blocks the TI-OS heap gives, whatever pages and runs are taken and freed,
\* and in whatever order: no page is in use twice, every page in use is memory of one
\* block, and the bits of the blocks are exactly the pages in use.
THEOREM PagesCorrect == Spec => [](TypeOK /\ Exclusive /\ WithinChunk /\ UsedExact)
<1>1. Init => TypeOK /\ PagesInv
  <2> SUFFICES ASSUME Init PROVE TypeOK /\ PagesInv
    OBVIOUS
  <2>1. pages = <<>> /\ held = {} /\ refused = FALSE
    BY DEF Init
  <2>2. DOMAIN pages = {} /\ pages \in Seq(Blocks)
    BY <2>1
  <2>3. QED
    BY <2>1, <2>2 DEF PagesInv, Layout, Owned, UsedExact, Exclusive, TypeOK
<1>2. TypeOK /\ PagesInv /\ [Next]_vars => (TypeOK /\ PagesInv)'
  BY PagesStep
<1>3. TypeOK /\ PagesInv => TypeOK /\ Exclusive /\ WithinChunk /\ UsedExact
  BY InvWithin DEF PagesInv
<1>4. QED
  BY <1>1, <1>2, <1>3, PTL DEF Spec

\* Every page a caller of usePage or useConsecutivePages holds is memory ti_malloc gave
\* to one block, the page behind a block that addPageBlock's <= lets out included, for
\* any heap and any alignment.
THEOREM WithinChunkCorrect == Spec => []WithinChunk
BY PagesCorrect, PTL

\* The bits of used and used2 are the pages in use: setPageUsedBit, usePage and
\* freeConsecutivePages neither leak a page nor offer one that is in use.
THEOREM UsedExactCorrect == Spec => []UsedExact
BY PagesCorrect, PTL

\* usePage's count of the bits and its search agree on a block of Bits pages.
LEMMA FullBlock ==
    ASSUME TypeOK, NEW i \in DOMAIN pages, pages[i].size = Bits,
           \A a \in Offsets : ~ PageFree(i, a)
    PROVE  0 .. (pages[i].size - 1) \subseteq pages[i].used
<1> DEFINE S == 0 .. (Bits - 1)
           U == pages[i].used
<1>1. U \subseteq S
  BY BlockFields
<1>2. IsFiniteSet(S) /\ Cardinality(S) = Bits
  BY FS_Interval
<1>3. IsFiniteSet(U) /\ Cardinality(U) <= Bits /\ (Cardinality(U) = Bits => U = S)
  BY <1>1, <1>2, FS_Subset
<1>4. Cardinality(U) \in Nat
  BY <1>3, FS_CardinalityType
<1>5. SUFFICES ASSUME NEW a \in S, a \notin U PROVE FALSE
  OBVIOUS
<1>6. Cardinality(U) < Bits
  BY <1>3, <1>4, <1>5
<1>7. PageFree(i, a)
  BY <1>5, <1>6 DEF PageFree
<1>8. QED
  BY <1>5, <1>7 DEF Offsets

\* usePage returns NULL only when every page of every block of 128 pages is in use,
\* for any number of blocks and whatever was freed before.
THEOREM RefusedCorrect == Spec => []RefusedOnlyWhenFull
<1>1. Init => RefusedOnlyWhenFull
  BY DEF Init, RefusedOnlyWhenFull
<1>2. ASSUME TypeOK, RefusedOnlyWhenFull, [Next]_vars
      PROVE  RefusedOnlyWhenFull'
  <2>1. CASE UsePageNull
    <3>1. pages' = pages /\ \A i \in DOMAIN pages, a \in Offsets : ~ PageFree(i, a)
      BY <2>1 DEF UsePageNull
    <3>2. \A i \in DOMAIN pages : pages[i].size = Bits
              => 0 .. (pages[i].size - 1) \subseteq pages[i].used
      BY <1>2, <3>1, FullBlock
    <3>3. QED
      BY <3>1, <3>2 DEF RefusedOnlyWhenFull
  <2>2. CASE UNCHANGED vars
    BY <1>2, <2>2 DEF vars, RefusedOnlyWhenFull
  <2>3. CASE \/ \E size \in Sizes : AllocPageblock(size)
             \/ FreeAllPageblocks
             \/ UsePage
             \/ \E size \in Requests, alignment \in Aligns :
                   UseConsecutivePages(size, alignment)
             \/ \E run \in held : FreeConsecutivePages(run)
    <3>1. refused' = FALSE
      BY <2>3 DEF AllocPageblock, FreeAllPageblocks, UsePage, UseConsecutivePages,
                  FreeConsecutivePages
    <3>2. QED
      BY <3>1 DEF RefusedOnlyWhenFull
  <2>4. QED
    BY <1>2, <2>1, <2>2, <2>3 DEF Next
<1>3. QED
  BY <1>1, <1>2, PagesCorrect, PTL DEF Spec
=============================================================================
