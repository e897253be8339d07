-------------------------- MODULE SlabCache_proofs --------------------------
(***************************************************************************)
(* Proofs about SlabCache: for every page size, every list of caches and   *)
(* every sequence of requests and frees, no slab is lost or linked twice,  *)
(* no object is given out twice and the objects in use share no memory.    *)
(*                                                                         *)
(* The parts of the invariant have the lists, the slabs and the stack as   *)
(* parameters: an allocation that returns to growCache passes through      *)
(* values of them that no state has.                                       *)
(***************************************************************************)
EXTENDS SlabCache, FiniteSetTheorems, SequenceTheorems, WellFoundedInduction, TLAPS

Slabs == [cache : Caches, used : SUBSET Nat]

SlabsTyped(sl) == DOMAIN sl \subseteq Nat /\ \A s \in DOMAIN sl : sl[s] \in Slabs

\* The three lists of a cache: each slab once, on one of them.
Three(l) ==
    /\ l \in [full : Seq(Nat), partial : Seq(Nat), free : Seq(Nat)]
    /\ IsInjective(l.full) /\ IsInjective(l.partial) /\ IsInjective(l.free)
    /\ Range(l.full) \cap Range(l.partial) = {}
    /\ Range(l.full) \cap Range(l.free) = {}
    /\ Range(l.partial) \cap Range(l.free) = {}

All(l) == Range(l.full) \cup Range(l.partial) \cup Range(l.free)

SlabsOf(sl, c) == {s \in DOMAIN sl : sl[s].cache = c}

Exhausted(d) == \A i \in 0 .. (Objs[d.cache] - 1) : i \in d.used

Linked(ls, sl) ==
    /\ ls \in [Caches -> [full : Seq(Nat), partial : Seq(Nat), free : Seq(Nat)]]
    /\ \A c \in Caches : /\ Three(ls[c])
                         /\ All(ls[c]) = SlabsOf(sl, c)
                         /\ \A s \in Range(ls[c].full) : Exhausted(sl[s])

\* The calls under way: the innermost walks over a list or wants a fresh slab, the
\* others are in growCache, each with the pages of its new slab.
Frames == [cache : Caches, pc : {"scan", "fresh", "desc", "used"}, slab : Nat \cup {NULL}]

Walk(f, ls) ==
    /\ f.pc \in {"scan", "fresh"}
    /\ f.pc = "scan" => f.slab \in Range(ls[f.cache].full) \cup Range(ls[f.cache].partial)

Calls(st, ls) ==
    /\ st \in Seq(Frames)
    /\ st # <<>> => Walk(st[1], ls)
    /\ \A k \in 2 .. Len(st) : st[k].pc \in {"desc", "used"} /\ st[k].slab \in Nat

\* The pages of two slabs.
Apart(s, c, t, d) == s + Pages[c] <= t \/ t + Pages[d] <= s

SlabsApart(sl, h) ==
    /\ h \in Nat
    /\ \A s \in DOMAIN sl : s + Pages[sl[s].cache] <= h
    /\ \A s, t \in DOMAIN sl : s # t => Apart(s, sl[s].cache, t, sl[t].cache)

GrowthApart(sl, st, h) ==
    \A k \in 2 .. Len(st) :
        /\ st[k].slab + Pages[st[k].cache] <= h
        /\ \A s \in DOMAIN sl : Apart(st[k].slab, st[k].cache, s, sl[s].cache)
        /\ \A j \in 2 .. Len(st) :
              j # k => Apart(st[k].slab, st[k].cache, st[j].slab, st[j].cache)

\* The address of the i-th object of a slab of c at page s.
At(c, s, i) == s * Page + Header[c] + i * Size[c]

MarkedIn(sl, a) ==
    \E s \in DOMAIN sl : \E i \in sl[s].used :
        i < Objs[sl[s].cache] /\ a = At(sl[s].cache, s, i)

\* Whoever holds an object is the only one, and its bit is set.
Objects(sl, hd, ow) ==
    /\ \A a \in ow : MarkedIn(sl, a)
    /\ \A g \in hd : MarkedIn(sl, g.addr) /\ g.addr \notin ow
    /\ \A g, h \in hd : g.addr = h.addr => g = h

SlabInv ==
    /\ SlabsTyped(slabs)
    /\ Linked(lists, slabs)
    /\ Calls(stack, lists)
    /\ SlabsApart(slabs, heap)
    /\ GrowthApart(slabs, stack, heap)
    /\ Objects(slabs, held, own)
-----------------------------------------------------------------------------
(***************************************************************************)
(* Sequences: the linked lists of slabs.                                   *)
(***************************************************************************)
LEMMA MinIn ==
    ASSUME NEW S, S \subseteq Nat, S # {}
    PROVE  Min(S) \in S /\ \A y \in S : Min(S) <= y
<1>. DEFINE R == {ss \in Nat \X Nat : ss[1] < ss[2]}
<1>1. IsWellFoundedOn(R, Nat)
  BY NatLessThanWellFounded DEF OpToRel
<1>. HIDE DEF R
<1>2. PICK x \in S : \A y \in S : ~ (<<y, x>> \in R)
  BY <1>1, WFMin
<1>3. \A y \in S : x <= y
  <2>. SUFFICES ASSUME NEW y \in S, y < x PROVE FALSE
    OBVIOUS
  <2>1. <<y, x>> \in R
    BY DEF R
  <2>. QED BY <1>2, <2>1
<1>. QED BY <1>3 DEF Min

LEMMA FirstIn ==
    ASSUME NEW T, NEW q \in Seq(T), NEW S, Range(q) \cap S # {}
    PROVE  First(q, S) \in Range(q) \cap S
<1>. DEFINE I == {i \in DOMAIN q : q[i] \in S}
<1>1. I \subseteq Nat /\ I # {}
  BY DEF Range
<1>2. Min(I) \in I
  BY <1>1, MinIn
<1>. QED BY <1>2 DEF First, Range

LEMMA InRange ==
    ASSUME NEW T, NEW q \in Seq(T)
    PROVE  /\ \A i \in 1 .. Len(q) : q[i] \in Range(q)
           /\ \A x \in Range(q) : \E i \in 1 .. Len(q) : x = q[i]
           /\ Range(q) \subseteq T
BY DEF Range

\* Two lists in a row.
Joined(r, p, m, q, n) ==
    /\ m \in Nat /\ n \in Nat
    /\ DOMAIN p = 1 .. m /\ DOMAIN q = 1 .. n /\ DOMAIN r = 1 .. (m + n)
    /\ \A i \in 1 .. m : r[i] = p[i]
    /\ \A i \in 1 .. n : r[m + i] = q[i]

LEMMA JoinFunctions ==
    ASSUME NEW m, NEW n, NEW p, NEW q, NEW r, Joined(r, p, m, q, n)
    PROVE  /\ Range(r) = Range(p) \cup Range(q)
           /\ IsInjective(p) /\ IsInjective(q) /\ Range(p) \cap Range(q) = {} => IsInjective(r)
<1>. USE DEF Joined
<1>1. ASSUME NEW i \in 1 .. (m + n), ~ (i <= m)
      PROVE  i - m \in 1 .. n /\ r[i] = q[i - m]
  <2>1. i - m \in 1 .. n /\ m + (i - m) = i
    BY <1>1
  <2>. QED BY <2>1
<1>2. \A i \in 1 .. (m + n) : i <= m => i \in 1 .. m
  OBVIOUS
<1>3. Range(r) \subseteq Range(p) \cup Range(q)
  <2>. SUFFICES ASSUME NEW i \in 1 .. (m + n) PROVE r[i] \in Range(p) \cup Range(q)
    BY DEF Range
  <2>1. CASE i <= m
    BY <2>1, <1>2 DEF Range
  <2>2. CASE ~ (i <= m)
    BY <2>2, <1>1 DEF Range
  <2>. QED BY <2>1, <2>2
<1>4. Range(p) \subseteq Range(r)
  <2>1. \A i \in 1 .. m : i \in 1 .. (m + n)
    OBVIOUS
  <2>. QED BY <2>1 DEF Range
<1>5. Range(q) \subseteq Range(r)
  <2>1. \A i \in 1 .. n : m + i \in 1 .. (m + n)
    OBVIOUS
  <2>. QED BY <2>1 DEF Range
<1>6. ASSUME IsInjective(p), IsInjective(q), Range(p) \cap Range(q) = {}
      PROVE  IsInjective(r)
  <2>. SUFFICES ASSUME NEW i \in 1 .. (m + n), NEW j \in 1 .. (m + n), r[i] = r[j]
       PROVE i = j
    BY DEF IsInjective
  <2>1. CASE i <= m /\ j <= m
    BY <2>1, <1>2, <1>6 DEF IsInjective
  <2>2. CASE ~ (i <= m) /\ ~ (j <= m)
    <3>1. i - m \in DOMAIN q /\ j - m \in DOMAIN q /\ q[i - m] = q[j - m]
      BY <2>2, <1>1
    <3>. DEFINE x == i - m
                y == j - m
    <3>2. x = y
      <4>. HIDE DEF x, y
      <4>1. x \in DOMAIN q /\ y \in DOMAIN q /\ q[x] = q[y]
        BY <3>1 DEF x, y
      <4>. QED BY <4>1, <1>6 DEF IsInjective
    <3>. QED BY <3>2
  <2>3. CASE i <= m /\ ~ (j <= m)
    BY <2>3, <1>1, <1>2, <1>6 DEF Range
  <2>4. CASE ~ (i <= m) /\ j <= m
    BY <2>4, <1>1, <1>2, <1>6 DEF Range
  <2>. QED BY <2>1, <2>2, <2>3, <2>4
<1>. QED BY <1>3, <1>4, <1>5, <1>6

\* A list without its k-th entry.
Dropped(p, q, n, k) ==
    /\ n \in Nat /\ k \in 1 .. n
    /\ DOMAIN q = 1 .. n /\ DOMAIN p = 1 .. (n - 1)
    /\ \A i \in 1 .. (n - 1) : p[i] = q[IF i < k THEN i ELSE i + 1]

LEMMA DropFunctions ==
    ASSUME NEW n, NEW k, NEW p, NEW q, Dropped(p, q, n, k), IsInjective(q)
    PROVE  IsInjective(p) /\ Range(p) = Range(q) \ {q[k]}
<1>. DEFINE M(i) == IF i < k THEN i ELSE i + 1
<1>. USE DEF Dropped
<1>1. \A i \in 1 .. (n - 1) : M(i) \in 1 .. n /\ M(i) # k /\ p[i] = q[M(i)]
  OBVIOUS
<1>2. \A i, j \in 1 .. (n - 1) : M(i) = M(j) => i = j
  OBVIOUS
<1>3. \A x \in 1 .. n : x # k => \E i \in 1 .. (n - 1) : x = M(i)
  <2>. SUFFICES ASSUME NEW x \in 1 .. n, x # k PROVE \E i \in 1 .. (n - 1) : x = M(i)
    OBVIOUS
  <2>1. CASE x < k
    <3>1. x \in 1 .. (n - 1) /\ M(x) = x
      BY <2>1
    <3>. QED BY <3>1
  <2>2. CASE x > k
    <3>1. x - 1 \in 1 .. (n - 1) /\ M(x - 1) = x
      BY <2>2
    <3>. QED BY <3>1
  <2>. QED BY <2>1, <2>2
<1>. HIDE DEF M
<1>4. IsInjective(p)
  BY <1>1, <1>2 DEF IsInjective
<1>5. Range(p) \subseteq Range(q) \ {q[k]}
  <2>. SUFFICES ASSUME NEW i \in 1 .. (n - 1) PROVE p[i] \in Range(q) \ {q[k]}
    BY DEF Range
  <2>1. M(i) \in DOMAIN q /\ k \in DOMAIN q /\ M(i) # k /\ p[i] = q[M(i)]
    BY <1>1
  <2>. QED BY <2>1 DEF Range, IsInjective
<1>6. Range(q) \ {q[k]} \subseteq Range(p)
  <2>. SUFFICES ASSUME NEW x \in 1 .. n, x # k PROVE q[x] \in Range(p)
    BY DEF Range
  <2>1. PICK i \in 1 .. (n - 1) : x = M(i)
    BY <1>3
  <2>2. i \in DOMAIN p /\ p[i] = q[x]
    BY <2>1, <1>1
  <2>. QED BY <2>2 DEF Range
<1>. QED BY <1>4, <1>5, <1>6

LEMMA JoinLists ==
    ASSUME NEW p \in Seq(Nat), NEW q \in Seq(Nat)
    PROVE  /\ p \o q \in Seq(Nat)
           /\ Range(p \o q) = Range(p) \cup Range(q)
           /\ IsInjective(p) /\ IsInjective(q) /\ Range(p) \cap Range(q) = {} => IsInjective(p \o q)
<1>. DEFINE r == p \o q
            m == Len(p)
            n == Len(q)
<1>1. m \in Nat /\ n \in Nat /\ DOMAIN p = 1 .. m /\ DOMAIN q = 1 .. n
  OBVIOUS
<1>2. /\ r \in Seq(Nat) /\ Len(r) = m + n
      /\ \A i \in 1 .. (m + n) : r[i] = IF i <= m THEN p[i] ELSE q[i - m]
  BY ConcatProperties
<1>. HIDE DEF r
<1>3. DOMAIN r = 1 .. (m + n)
  BY <1>2
<1>4. \A i \in 1 .. m : r[i] = p[i]
  BY <1>1, <1>2
<1>5. \A i \in 1 .. n : r[m + i] = q[i]
  <2>. HIDE DEF m, n
  <2>1. \A i \in 1 .. n : m + i \in 1 .. (m + n) /\ ~ (m + i <= m) /\ (m + i) - m = i
    BY <1>1
  <2>. QED BY <1>2, <2>1
<1>. HIDE DEF m, n
<1>6. /\ Range(r) = Range(p) \cup Range(q)
      /\ IsInjective(p) /\ IsInjective(q) /\ Range(p) \cap Range(q) = {} => IsInjective(r)
  <2>1. Joined(r, p, m, q, n)
    BY <1>1, <1>3, <1>4, <1>5 DEF Joined
  <2>. QED BY <2>1, JoinFunctions
<1>. QED BY <1>2, <1>6 DEF r

LEMMA PushList ==
    ASSUME NEW q \in Seq(Nat), IsInjective(q), NEW s \in Nat, s \notin Range(q)
    PROVE  /\ <<s>> \o q \in Seq(Nat)
           /\ IsInjective(<<s>> \o q)
           /\ Range(<<s>> \o q) = Range(q) \cup {s}
<1>1. <<s>> \in Seq(Nat) /\ IsInjective(<<s>>) /\ Range(<<s>>) = {s}
  BY DEF IsInjective, Range
<1>. DEFINE o == <<s>>
<1>. HIDE DEF o
<1>2. o \in Seq(Nat) /\ IsInjective(o) /\ Range(o) = {s}
  BY <1>1 DEF o
<1>3. /\ o \o q \in Seq(Nat) /\ Range(o \o q) = Range(o) \cup Range(q)
      /\ IsInjective(o) /\ IsInjective(q) /\ Range(o) \cap Range(q) = {} => IsInjective(o \o q)
  BY <1>2, JoinLists
<1>4. o \o q \in Seq(Nat) /\ IsInjective(o \o q) /\ Range(o \o q) = Range(q) \cup {s}
  BY <1>2, <1>3
<1>. QED BY <1>4 DEF o

LEMMA TailList ==
    ASSUME NEW q \in Seq(Nat), IsInjective(q), q # <<>>
    PROVE  /\ Tail(q) \in Seq(Nat) /\ IsInjective(Tail(q))
           /\ Head(q) \in Range(q)
           /\ Range(Tail(q)) = Range(q) \ {Head(q)}
<1>. DEFINE p == Tail(q)
            n == Len(q)
<1>1. n \in Nat \ {0} /\ DOMAIN q = 1 .. n /\ Head(q) = q[1]
  OBVIOUS
<1>2. p \in Seq(Nat) /\ Len(p) = n - 1 /\ \A i \in 1 .. Len(p) : p[i] = q[i + 1]
  BY HeadTailProperties
<1>. HIDE DEF p
<1>3. DOMAIN p = 1 .. (n - 1)
  BY <1>2
<1>. HIDE DEF n
<1>4. \A i \in 1 .. (n - 1) : p[i] = q[IF i < 1 THEN i ELSE i + 1]
  BY <1>2
<1>5. 1 \in 1 .. n /\ n \in Nat
  BY <1>1
<1>6. IsInjective(p) /\ Range(p) = Range(q) \ {q[1]}
  <2>1. Dropped(p, q, n, 1)
    BY <1>1, <1>3, <1>4, <1>5 DEF Dropped
  <2>. QED BY <2>1, DropFunctions
<1>. QED BY <1>1, <1>2, <1>5, <1>6 DEF p, Range

LEMMA UnlinkList ==
    ASSUME NEW q \in Seq(Nat), IsInjective(q), NEW s
    PROVE  /\ RemoveFirst(q, s) \in Seq(Nat)
           /\ IsInjective(RemoveFirst(q, s))
           /\ Range(RemoveFirst(q, s)) = Range(q) \ {s}
<1>. DEFINE n == Len(q)
<1>0. DOMAIN q = 1 .. n /\ n \in Nat
  OBVIOUS
<1>1. CASE \A i \in 1 .. n : q[i] # s
  <2>1. RemoveFirst(q, s) = q
    BY <1>1 DEF RemoveFirst
  <2>. QED BY <1>0, <1>1, <2>1 DEF Range
<1>2. CASE \E i \in 1 .. n : q[i] = s
  <2>. DEFINE I == {i \in 1 .. Len(q) : q[i] = s}
              k == Min(I)
              a == SubSeq(q, 1, k - 1)
              b == SubSeq(q, k + 1, Len(q))
              p == a \o b
  <2>1. I # {} /\ I \subseteq Nat
    BY <1>2
  <2>2. k \in 1 .. n /\ q[k] = s
    BY <2>1, MinIn
  <2>3. RemoveFirst(q, s) = p
    BY <1>2, <2>1 DEF RemoveFirst, RemoveAt, SelectInSeq
  <2>. HIDE DEF k
  <2>4. a \in Seq(Nat) /\ Len(a) = k - 1 /\ \A i \in 1 .. (k - 1) : a[i] = q[i]
    BY <2>2
  <2>5. b \in Seq(Nat) /\ Len(b) = n - k /\ \A i \in 1 .. (n - k) : b[i] = q[i + k]
    BY <2>2
  <2>. HIDE DEF a, b
  <2>6. /\ p \in Seq(Nat) /\ Len(p) = Len(a) + Len(b)
        /\ \A i \in 1 .. Len(a) + Len(b) :
             p[i] = IF i <= Len(a) THEN a[i] ELSE b[i - Len(a)]
    BY <2>4, <2>5, ConcatProperties
  <2>. HIDE DEF p
  <2>7. Len(p) = n - 1 /\ DOMAIN p = 1 .. (n - 1) /\ Len(a) + Len(b) = n - 1
    BY <1>0, <2>2, <2>4, <2>5, <2>6
  <2>. HIDE DEF n
  <2>8. ASSUME NEW i \in 1 .. (n - 1)
        PROVE  p[i] = q[IF i < k THEN i ELSE i + 1]
    <3>1. CASE i < k
      <4>1. i \in 1 .. (k - 1) /\ i <= k - 1
        BY <3>1, <2>2, <1>0
      <4>2. p[i] = a[i]
        BY <4>1, <2>4, <2>6, <2>7
      <4>. QED BY <3>1, <4>1, <4>2, <2>4
    <3>2. CASE ~ (i < k)
      <4>1. i - (k - 1) \in 1 .. (n - k) /\ (i - (k - 1)) + k = i + 1 /\ ~ (i <= k - 1)
        BY <3>2, <2>2, <1>0
      <4>2. p[i] = b[i - (k - 1)]
        BY <4>1, <2>4, <2>6, <2>7
      <4>. QED BY <3>2, <4>1, <4>2, <2>5
    <3>. QED BY <3>1, <3>2
  <2>9. IsInjective(p) /\ Range(p) = Range(q) \ {q[k]}
    <3>1. Dropped(p, q, n, k)
      BY <1>0, <2>2, <2>7, <2>8 DEF Dropped
    <3>. QED BY <3>1, DropFunctions
  <2>. QED BY <2>2, <2>3, <2>6, <2>9
<1>. QED BY <1>1, <1>2
-----------------------------------------------------------------------------
(***************************************************************************)
(* Moving a slab between the lists of a cache.                             *)
(***************************************************************************)
Triples == [full : Seq(Nat), partial : Seq(Nat), free : Seq(Nat)]

LEMMA ThreeRanges ==
    ASSUME NEW l, Three(l)
    PROVE  /\ l \in Triples
           /\ Range(l.full) \subseteq Nat /\ Range(l.partial) \subseteq Nat
           /\ Range(l.free) \subseteq Nat
<1>1. l \in Triples
  BY DEF Three, Triples
<1>2. l.full \in Seq(Nat) /\ l.partial \in Seq(Nat) /\ l.free \in Seq(Nat)
  BY <1>1 DEF Triples
<1>. QED BY <1>1, <1>2, InRange

LEMMA ToFullLists ==
    ASSUME NEW l, Three(l), NEW s, s \in Range(l.full) \cup Range(l.partial)
    PROVE  /\ ToFull(l, s) \in Triples
           /\ Three(ToFull(l, s))
           /\ All(ToFull(l, s)) = All(l)
           /\ Range(ToFull(l, s).full) = Range(l.full) \cup {s}
<1>. DEFINE f == RemoveFirst(l.full, s)
            p == RemoveFirst(l.partial, s)
            m == ToFull(l, s)
<1>1. /\ l \in Triples /\ s \in Nat
      /\ l.full \in Seq(Nat) /\ l.partial \in Seq(Nat) /\ l.free \in Seq(Nat)
  BY ThreeRanges DEF Triples
<1>2. f \in Seq(Nat) /\ IsInjective(f) /\ Range(f) = Range(l.full) \ {s}
  BY <1>1, UnlinkList DEF Three
<1>3. p \in Seq(Nat) /\ IsInjective(p) /\ Range(p) = Range(l.partial) \ {s}
  BY <1>1, UnlinkList DEF Three
<1>4. m = [l EXCEPT !.partial = p, !.full = <<s>> \o f]
  BY DEF ToFull
<1>. HIDE DEF f, p, m
<1>. DEFINE g == <<s>> \o f
<1>5. g \in Seq(Nat) /\ IsInjective(g) /\ Range(g) = Range(l.full) \cup {s}
  <2>1. s \notin Range(f)
    BY <1>2
  <2>2. g \in Seq(Nat) /\ IsInjective(g) /\ Range(g) = Range(f) \cup {s}
    BY <1>1, <1>2, <2>1, PushList
  <2>. QED BY <1>2, <2>2
<1>. HIDE DEF g
<1>6. m \in Triples /\ m.full = g /\ m.partial = p /\ m.free = l.free
  BY <1>1, <1>3, <1>4, <1>5 DEF Triples, g
<1>7. /\ Range(g) \cap Range(p) = {} /\ Range(g) \cap Range(l.free) = {}
      /\ Range(p) \cap Range(l.free) = {} /\ IsInjective(l.free)
  BY <1>3, <1>5 DEF Three
<1>8. Three(m) /\ All(m) = Range(g) \cup Range(p) \cup Range(l.free)
  BY <1>1, <1>3, <1>5, <1>6, <1>7 DEF Three, All, Triples
<1>9. All(m) = All(l)
  BY <1>3, <1>5, <1>8 DEF All
<1>. QED BY <1>5, <1>6, <1>8, <1>9 DEF m

LEMMA AfterFreeLists ==
    ASSUME NEW l, Three(l), NEW s, s \in Range(l.full) \cup Range(l.partial), NEW free \in BOOLEAN
    PROVE  /\ AfterFree(l, s, free) \in Triples
           /\ Three(AfterFree(l, s, free))
           /\ All(AfterFree(l, s, free)) = All(l)
           /\ Range(AfterFree(l, s, free).full) = Range(l.full) \ {s}
<1>. DEFINE f == RemoveFirst(l.full, s)
            p == RemoveFirst(l.partial, s)
            m == AfterFree(l, s, free)
<1>1. /\ l \in Triples /\ s \in Nat
      /\ l.full \in Seq(Nat) /\ l.partial \in Seq(Nat) /\ l.free \in Seq(Nat)
  BY ThreeRanges DEF Triples
<1>2. f \in Seq(Nat) /\ IsInjective(f) /\ Range(f) = Range(l.full) \ {s}
  BY <1>1, UnlinkList DEF Three
<1>3. p \in Seq(Nat) /\ IsInjective(p) /\ Range(p) = Range(l.partial) \ {s}
  BY <1>1, UnlinkList DEF Three
<1>4. CASE s \in Range(l.full)
  <2>. DEFINE g == <<s>> \o l.partial
  <2>1. m = [l EXCEPT !.full = f, !.partial = g]
    BY <1>4 DEF AfterFree
  <2>. HIDE DEF f, p, m
  <2>2. s \notin Range(l.partial) /\ IsInjective(l.partial)
    BY <1>4 DEF Three
  <2>3. g \in Seq(Nat) /\ IsInjective(g) /\ Range(g) = Range(l.partial) \cup {s}
    BY <1>1, <2>2, PushList
  <2>. HIDE DEF g
  <2>4. m \in Triples /\ m.full = f /\ m.partial = g /\ m.free = l.free
    BY <1>1, <1>2, <2>1, <2>3 DEF Triples
  <2>5. /\ Range(f) \cap Range(g) = {} /\ Range(f) \cap Range(l.free) = {}
        /\ Range(g) \cap Range(l.free) = {} /\ IsInjective(l.free)
    BY <1>2, <1>4, <2>3 DEF Three
  <2>6. Three(m) /\ All(m) = Range(f) \cup Range(g) \cup Range(l.free)
    BY <1>1, <1>2, <2>3, <2>4, <2>5 DEF Three, All, Triples
  <2>7. All(m) = All(l)
    BY <1>2, <1>4, <2>3, <2>6 DEF All
  <2>. QED BY <1>2, <2>4, <2>6, <2>7 DEF m
<1>5. CASE s \notin Range(l.full) /\ free
  <2>. DEFINE g == <<s>> \o l.free
  <2>1. m = [l EXCEPT !.partial = p, !.free = g]
    BY <1>5 DEF AfterFree
  <2>. HIDE DEF f, p, m
  <2>2. s \notin Range(l.free) /\ IsInjective(l.free) /\ s \in Range(l.partial)
    BY <1>5 DEF Three
  <2>3. g \in Seq(Nat) /\ IsInjective(g) /\ Range(g) = Range(l.free) \cup {s}
    BY <1>1, <2>2, PushList
  <2>. HIDE DEF g
  <2>4. m \in Triples /\ m.full = l.full /\ m.partial = p /\ m.free = g
    BY <1>1, <1>3, <2>1, <2>3 DEF Triples
  <2>5. /\ Range(l.full) \cap Range(p) = {} /\ Range(l.full) \cap Range(g) = {}
        /\ Range(p) \cap Range(g) = {} /\ IsInjective(l.full)
    BY <1>3, <1>5, <2>3 DEF Three
  <2>6. Three(m) /\ All(m) = Range(l.full) \cup Range(p) \cup Range(g)
    BY <1>1, <1>3, <2>3, <2>4, <2>5 DEF Three, All, Triples
  <2>7. All(m) = All(l)
    BY <1>3, <2>2, <2>3, <2>6 DEF All
  <2>. QED BY <1>5, <2>4, <2>6, <2>7 DEF m
<1>6. CASE s \notin Range(l.full) /\ ~ free
  <2>1. m = l
    BY <1>6 DEF AfterFree
  <2>. QED BY <1>1, <1>6, <2>1
<1>. QED BY <1>4, <1>5, <1>6

\* alloc_object_from_cache: the head of the free list moves to the partial list.
LEMMA FreshLists ==
    ASSUME NEW l, Three(l), l.free # <<>>, NEW m,
           m = [l EXCEPT !.free = Tail(l.free), !.partial = <<Head(l.free)>> \o l.partial]
    PROVE  /\ m \in Triples
           /\ Three(m)
           /\ All(m) = All(l)
           /\ m.full = l.full
           /\ Head(l.free) \in Range(l.free)
<1>. DEFINE s == Head(l.free)
            e == Tail(l.free)
            g == <<s>> \o l.partial
<1>1. /\ l \in Triples
      /\ l.full \in Seq(Nat) /\ l.partial \in Seq(Nat) /\ l.free \in Seq(Nat)
  BY ThreeRanges DEF Triples
<1>2. e \in Seq(Nat) /\ IsInjective(e) /\ Range(e) = Range(l.free) \ {s} /\ s \in Range(l.free)
  BY <1>1, TailList DEF Three
<1>. HIDE DEF s, e
<1>3. s \in Nat /\ s \notin Range(l.partial) /\ IsInjective(l.partial)
  BY <1>2, ThreeRanges DEF Three
<1>4. g \in Seq(Nat) /\ IsInjective(g) /\ Range(g) = Range(l.partial) \cup {s}
  BY <1>1, <1>3, PushList
<1>. HIDE DEF g
<1>5. m \in Triples /\ m.full = l.full /\ m.partial = g /\ m.free = e
  BY <1>1, <1>2, <1>4 DEF Triples, g, s, e
<1>6. /\ Range(l.full) \cap Range(g) = {} /\ Range(l.full) \cap Range(e) = {}
      /\ Range(g) \cap Range(e) = {} /\ IsInjective(l.full)
  BY <1>2, <1>4 DEF Three
<1>7. Three(m) /\ All(m) = Range(l.full) \cup Range(g) \cup Range(e)
  BY <1>1, <1>2, <1>4, <1>5, <1>6 DEF Three, All, Triples
<1>8. All(m) = All(l)
  BY <1>2, <1>4, <1>7 DEF All
<1>. QED BY <1>2, <1>5, <1>7, <1>8 DEF s

\* growCache: a new slab becomes the head of the free list.
LEMMA GrownLists ==
    ASSUME NEW l, Three(l), NEW s \in Nat, s \notin All(l), NEW m,
           m = [l EXCEPT !.free = <<s>> \o l.free]
    PROVE  /\ m \in Triples
           /\ Three(m)
           /\ All(m) = All(l) \cup {s}
           /\ m.full = l.full /\ m.partial = l.partial
<1>. DEFINE g == <<s>> \o l.free
<1>1. /\ l \in Triples
      /\ l.full \in Seq(Nat) /\ l.partial \in Seq(Nat) /\ l.free \in Seq(Nat)
  BY ThreeRanges DEF Triples
<1>2. s \notin Range(l.free) /\ IsInjective(l.free)
  BY DEF Three, All
<1>3. g \in Seq(Nat) /\ IsInjective(g) /\ Range(g) = Range(l.free) \cup {s}
  BY <1>1, <1>2, PushList
<1>4. m = [l EXCEPT !.free = g]
  OBVIOUS
<1>. HIDE DEF g
<1>5. m \in Triples /\ m.full = l.full /\ m.partial = l.partial /\ m.free = g
  BY <1>1, <1>3, <1>4 DEF Triples
<1>6. /\ Range(l.full) \cap Range(l.partial) = {} /\ Range(l.full) \cap Range(g) = {}
      /\ Range(l.partial) \cap Range(g) = {} /\ IsInjective(l.full) /\ IsInjective(l.partial)
  BY <1>3 DEF Three, All
<1>7. Three(m) /\ All(m) = Range(l.full) \cup Range(l.partial) \cup Range(g)
  BY <1>1, <1>3, <1>5, <1>6 DEF Three, All, Triples
<1>8. All(m) = All(l) \cup {s}
  BY <1>3, <1>7 DEF All
<1>. QED BY <1>5, <1>7, <1>8
-----------------------------------------------------------------------------
(***************************************************************************)
(* The layout of slabs.                                                    *)
(***************************************************************************)
LEMMA Divide ==
    ASSUME NEW a \in Int, NEW b \in Nat \ {0}
    PROVE  /\ a \div b \in Int /\ (a \div b) * b <= a /\ a < (a \div b + 1) * b
           /\ a \in Nat => a \div b \in Nat
           /\ a >= b => a \div b >= 1
OBVIOUS

LEMMA Times ==
    ASSUME NEW a \in Int, NEW b \in Int, NEW w \in Nat, a <= b
    PROVE  a * w <= b * w
OBVIOUS

\* No multiple is skipped: a product between two neighbouring ones is none.
LEMMA Quotient ==
    ASSUME NEW x \in Int, NEW k \in Int, NEW w \in Nat \ {0}
    PROVE  /\ x = k * w => x \div w = k
           /\ x >= k * w => x \div w >= k
<1>1. x \div w \in Int /\ (x \div w) * w <= x /\ x < (x \div w + 1) * w
  BY Divide
<1>2. ASSUME x >= k * w PROVE x \div w >= k
  <2>. SUFFICES ASSUME x \div w + 1 <= k PROVE FALSE
    BY <1>1
  <2>. DEFINE d == x \div w + 1
  <2>1. d \in Int /\ d <= k
    BY <1>1
  <2>. HIDE DEF d
  <2>2. d * w <= k * w
    BY <2>1, Times
  <2>3. d * w \in Int /\ k * w \in Int
    BY <2>1
  <2>. QED BY <1>1, <1>2, <2>2, <2>3 DEF d
<1>3. ASSUME x = k * w PROVE x \div w = k
  BY <1>3
<1>. QED BY <1>2, <1>3

LEMMA Sizes ==
    ASSUME NEW c \in Caches
    PROVE  /\ Page \in Nat \ {0} /\ Size[c] \in Nat \ {0} /\ Pages[c] \in Nat \ {0}
           /\ Header[c] \in Nat /\ Objs[c] \in Int
           /\ Objs[c] * Size[c] <= Pages[c] * Page - Header[c]
<1>1. Page \in Nat \ {0} /\ DescSize \in Nat /\ ByteBits \in Nat \ {0} /\ Align \in Nat \ {0}
  BY GeometryAssumption
<1>2. Size[c] \in Nat \ {0}
  BY CachesAssumption
<1>3. Pages[c] \in Nat \ {0}
  <2>1. CASE Size[c] < Page
    BY <2>1 DEF Pages
  <2>2. CASE ~ (Size[c] < Page)
    <3>1. Size[c] \div Page \in Nat /\ Size[c] \div Page >= 1
      BY <1>1, <1>2, <2>2, Divide
    <3>2. Pages[c] = Size[c] \div Page \/ Pages[c] = Size[c] \div Page + 1
      BY <2>2, <3>1 DEF Pages
    <3>. QED BY <3>1, <3>2
  <2>. QED BY <2>1, <2>2
<1>4. Pages[c] * Page \in Nat
  BY <1>1, <1>3
<1>5. ObjsRaw[c] \in Nat
  <2>1. ObjsRaw[c] = (Pages[c] * Page) \div Size[c]
    BY DEF ObjsRaw
  <2>. QED BY <2>1, <1>2, <1>4, Divide
<1>6. ArrayBytes[c] \in Nat
  <2>1. ArrayBytes[c] = ObjsRaw[c] \div ByteBits + 1
    BY DEF ArrayBytes
  <2>2. ObjsRaw[c] \div ByteBits \in Nat
    BY <1>1, <1>5, Divide
  <2>. QED BY <2>1, <2>2
<1>7. \A n \in Nat : align4Bytes(n) \in Nat
  <2>. SUFFICES ASSUME NEW n \in Nat PROVE align4Bytes(n) \in Nat
    OBVIOUS
  <2>1. n \div Align \in Nat
    BY <1>1, Divide
  <2>2. (n \div Align) * Align + Align \in Nat
    BY <1>1, <2>1
  <2>. QED BY <2>2 DEF align4Bytes
<1>8. Header[c] \in Nat
  <2>1. Header[c] = IF Off(c) THEN 0 ELSE align4Bytes(DescSize + ArrayBytes[c])
    BY DEF Header
  <2>2. DescSize + ArrayBytes[c] \in Nat
    BY <1>1, <1>6
  <2>. QED BY <2>1, <2>2, <1>7
<1>9. Objs[c] = (Pages[c] * Page - Header[c]) \div Size[c]
  BY DEF Objs
<1>10. Pages[c] * Page - Header[c] \in Int
  BY <1>4, <1>8
<1>11. Objs[c] \in Int /\ Objs[c] * Size[c] <= Pages[c] * Page - Header[c]
  BY <1>2, <1>9, <1>10, Divide
<1>. QED BY <1>1, <1>2, <1>3, <1>8, <1>11

\* The objects of a slab lie behind its header and inside its pages.
LEMMA Inside ==
    ASSUME NEW c \in Caches, NEW s \in Nat, NEW i \in Nat, i < Objs[c]
    PROVE  /\ At(c, s, i) \in Nat
           /\ s * Page \in Nat
           /\ s * Page + Header[c] <= At(c, s, i)
           /\ At(c, s, i) + Size[c] <= (s + Pages[c]) * Page
           /\ (s + Pages[c]) * Page \in Nat
<1>1. /\ Page \in Nat \ {0} /\ Size[c] \in Nat \ {0} /\ Pages[c] \in Nat \ {0}
      /\ Header[c] \in Nat /\ Objs[c] \in Int
      /\ Objs[c] * Size[c] <= Pages[c] * Page - Header[c]
  BY Sizes
<1>2. i + 1 <= Objs[c]
  BY <1>1
<1>3. (i + 1) * Size[c] <= Objs[c] * Size[c]
  BY <1>1, <1>2, Times
<1>4. (i + 1) * Size[c] = i * Size[c] + Size[c] /\ i * Size[c] \in Nat
  BY <1>1
<1>5. (s + Pages[c]) * Page = s * Page + Pages[c] * Page /\ s * Page \in Nat /\ Pages[c] * Page \in Nat
  BY <1>1
<1>6. Objs[c] * Size[c] \in Int
  BY <1>1
<1>7. i * Size[c] + Size[c] <= Pages[c] * Page - Header[c]
  BY <1>1, <1>3, <1>4, <1>5, <1>6
<1>. QED BY <1>1, <1>4, <1>5, <1>7 DEF At

\* Two objects, of one slab or of slabs with pages apart, share no memory.
LEMMA ObjectsApart ==
    ASSUME NEW c \in Caches, NEW s \in Nat, NEW i \in Nat, i < Objs[c],
           NEW d \in Caches, NEW t \in Nat, NEW j \in Nat, j < Objs[d],
           \/ s = t /\ c = d /\ i # j
           \/ Apart(s, c, t, d)
    PROVE  \/ At(c, s, i) + Size[c] <= At(d, t, j)
           \/ At(d, t, j) + Size[d] <= At(c, s, i)
<1>0. /\ Page \in Nat \ {0}
      /\ Size[c] \in Nat \ {0} /\ Pages[c] \in Nat \ {0} /\ Header[c] \in Nat
      /\ Size[d] \in Nat \ {0} /\ Pages[d] \in Nat \ {0} /\ Header[d] \in Nat
  BY Sizes
<1>1. ASSUME NEW e \in Caches, NEW k \in Nat, NEW l \in Nat, NEW u \in Nat, k < l
      PROVE  At(e, u, k) + Size[e] <= At(e, u, l)
  <2>1. Size[e] \in Nat \ {0} /\ Header[e] \in Nat
    BY Sizes
  <2>2. (k + 1) * Size[e] <= l * Size[e]
    <3>. DEFINE m == k + 1
    <3>1. m \in Int /\ m <= l
      BY <1>1
    <3>. HIDE DEF m
    <3>2. m * Size[e] <= l * Size[e]
      BY <2>1, <3>1, Times
    <3>. QED BY <3>2 DEF m
  <2>3. (k + 1) * Size[e] = k * Size[e] + Size[e] /\ k * Size[e] \in Nat /\ l * Size[e] \in Nat
    BY <2>1
  <2>4. u * Page \in Nat
    BY <1>0
  <2>. QED BY <2>1, <2>2, <2>3, <2>4 DEF At
<1>2. CASE s = t /\ c = d /\ i # j
  <2>1. i < j \/ j < i
    BY <1>2
  <2>. QED BY <1>1, <1>2, <2>1
<1>3. ASSUME NEW e \in Caches, NEW u \in Nat, NEW k \in Nat, k < Objs[e],
             NEW f \in Caches, NEW v \in Nat, NEW l \in Nat, l < Objs[f], u + Pages[e] <= v
      PROVE  At(e, u, k) + Size[e] <= At(f, v, l)
  <2>0. Pages[e] \in Nat /\ Header[f] \in Nat /\ Size[e] \in Nat
    BY Sizes
  <2>1. At(e, u, k) + Size[e] <= (u + Pages[e]) * Page /\ At(e, u, k) \in Nat /\ (u + Pages[e]) * Page \in Nat
    BY <1>3, Inside
  <2>2. v * Page + Header[f] <= At(f, v, l) /\ At(f, v, l) \in Nat /\ v * Page \in Nat
    BY <1>3, Inside
  <2>3. (u + Pages[e]) * Page <= v * Page
    BY <1>0, <1>3, <2>0, Times
  <2>. QED BY <2>0, <2>1, <2>2, <2>3
<1>4. CASE s + Pages[c] <= t
  BY <1>3, <1>4
<1>5. CASE t + Pages[d] <= s
  BY <1>3, <1>5
<1>. QED BY <1>2, <1>4, <1>5 DEF Apart
-----------------------------------------------------------------------------
(***************************************************************************)
(* Bits and objects.                                                       *)
(***************************************************************************)
LEMMA SlabFields ==
    ASSUME NEW sl, SlabsTyped(sl), NEW s \in DOMAIN sl
    PROVE  s \in Nat /\ sl[s].cache \in Caches /\ sl[s].used \subseteq Nat
BY DEF SlabsTyped, Slabs

\* An address is an object of one slab only.
LEMMA Decode ==
    ASSUME NEW sl, NEW h, SlabsTyped(sl), SlabsApart(sl, h),
           NEW s \in DOMAIN sl, NEW i \in Nat, i < Objs[sl[s].cache],
           NEW t \in DOMAIN sl, NEW j \in Nat, j < Objs[sl[t].cache],
           At(sl[s].cache, s, i) = At(sl[t].cache, t, j)
    PROVE  s = t /\ i = j
<1>. DEFINE c == sl[s].cache
            d == sl[t].cache
<1>1. c \in Caches /\ d \in Caches /\ s \in Nat /\ t \in Nat
  BY SlabFields
<1>2. At(c, s, i) \in Nat /\ At(d, t, j) \in Nat /\ Size[c] \in Nat \ {0} /\ Size[d] \in Nat \ {0}
  BY <1>1, Inside, Sizes
<1>3. s # t => Apart(s, c, t, d)
  BY DEF SlabsApart
<1>4. ASSUME \/ s = t /\ c = d /\ i # j
             \/ Apart(s, c, t, d)
      PROVE  FALSE
  <2>. HIDE DEF c, d
  <2>1. \/ At(c, s, i) + Size[c] <= At(d, t, j)
        \/ At(d, t, j) + Size[d] <= At(c, s, i)
    BY <1>1, <1>4, ObjectsApart DEF c, d
  <2>2. At(c, s, i) = At(d, t, j)
    BY DEF c, d
  <2>. QED BY <1>2, <2>1, <2>2
<1>. QED BY <1>3, <1>4

LEMMA MarkedMore ==
    ASSUME NEW sl, NEW tl, NEW a, MarkedIn(sl, a), DOMAIN sl \subseteq DOMAIN tl,
           \A s \in DOMAIN sl : tl[s].cache = sl[s].cache /\ sl[s].used \subseteq tl[s].used
    PROVE  MarkedIn(tl, a)
BY DEF MarkedIn

\* free_object_from_slab clears the bit of the object it is given, or the bit behind the
\* last object, which is nobody's.
LEMMA ClaimedIndex ==
    ASSUME SlabsTyped(slabs), SlabsApart(slabs, heap), NEW s \in DOMAIN slabs,
           NEW t \in DOMAIN slabs, NEW j \in Nat, j < Objs[Cache(t)], NEW a,
           a = At(Cache(t), t, j), Claims(s, a)
    PROVE  \/ Index(s, a) = Objs[Cache(s)]
           \/ s = t /\ Index(s, a) = j
<1>. DEFINE c == Cache(s)
            d == Cache(t)
<1>1. c \in Caches /\ d \in Caches /\ s \in Nat /\ t \in Nat
  BY SlabFields DEF Cache
<1>2. /\ Page \in Nat \ {0} /\ Size[c] \in Nat \ {0} /\ Pages[c] \in Nat \ {0}
      /\ Header[c] \in Nat /\ Objs[c] \in Int
      /\ Objs[c] * Size[c] <= Pages[c] * Page - Header[c]
      /\ Pages[d] \in Nat \ {0} /\ Header[d] \in Nat /\ Size[d] \in Nat \ {0}
  BY <1>1, Sizes
<1>3. /\ a \in Nat /\ t * Page \in Nat /\ t * Page + Header[d] <= a
      /\ a + Size[d] <= (t + Pages[d]) * Page /\ (t + Pages[d]) * Page \in Nat
  BY <1>1, Inside
<1>4. s * Page \in Nat /\ Start(s) = s * Page + Header[c]
  BY <1>1, <1>2 DEF Start
<1>5. a >= Start(s) /\ Index(s, a) <= Objs[c] /\ Index(s, a) = (a - Start(s)) \div Size[c]
  BY DEF Claims, Index
<1>6. CASE s = t
  <2>1. a = s * Page + Header[c] + j * Size[c] /\ j * Size[c] \in Nat
    BY <1>2, <1>6 DEF At
  <2>2. a - Start(s) = j * Size[c] /\ a - Start(s) \in Int
    BY <1>2, <1>3, <1>4, <2>1
  <2>. DEFINE x == a - Start(s)
              w == Size[c]
  <2>3. x \div w = j
    <3>. HIDE DEF x, w
    <3>1. x \in Int /\ x = j * w /\ w \in Nat \ {0}
      BY <1>2, <2>2 DEF x, w
    <3>. QED BY <3>1, Quotient
  <2>. QED BY <1>5, <1>6, <2>3
<1>7. CASE s # t /\ t + Pages[d] <= s
  <2>1. (t + Pages[d]) * Page <= s * Page
    BY <1>1, <1>2, <1>7, Times
  <2>2. a + Size[d] <= s * Page
    BY <1>2, <1>3, <1>4, <2>1
  <2>3. s * Page <= a
    BY <1>2, <1>3, <1>4, <1>5
  <2>. QED BY <1>2, <1>3, <1>4, <2>2, <2>3
<1>8. CASE s # t /\ s + Pages[c] <= t
  <2>1. (s + Pages[c]) * Page <= t * Page
    BY <1>1, <1>2, <1>8, Times
  <2>2. (s + Pages[c]) * Page = s * Page + Pages[c] * Page /\ Pages[c] * Page \in Nat
    BY <1>1, <1>2
  <2>3. Objs[c] * Size[c] \in Int
    BY <1>2
  <2>4. a - Start(s) >= Objs[c] * Size[c] /\ a - Start(s) \in Int
    BY <1>2, <1>3, <1>4, <2>1, <2>2, <2>3
  <2>5. (a - Start(s)) \div Size[c] >= Objs[c] /\ (a - Start(s)) \div Size[c] \in Int
    BY <1>2, <2>4, Quotient, Divide
  <2>6. Index(s, a) >= Objs[c] /\ Index(s, a) <= Objs[c] /\ Index(s, a) \in Int /\ Objs[c] \in Int
    BY <1>2, <1>5, <2>5
  <2>. HIDE DEF c
  <2>7. Index(s, a) = Objs[c]
    BY <2>6
  <2>. QED BY <2>7 DEF c
<1>9. s # t => Apart(s, c, t, d)
  BY DEF SlabsApart, Cache
<1>. QED BY <1>6, <1>7, <1>8, <1>9 DEF Apart
-----------------------------------------------------------------------------
(***************************************************************************)
(* The parts of the invariant, for values of the lists and the slabs.      *)
(***************************************************************************)
LEMMA BestFitIn == \A n : BestFit(n) \in Caches \cup {NULL}
<1>. SUFFICES ASSUME NEW n, BestFit(n) # NULL PROVE BestFit(n) \in Caches
  OBVIOUS
<1>. DEFINE fits == {c \in Caches \ NoMalloc : Size[c] >= n}
            sizes == {Size[c] : c \in fits}
            best == {c \in fits : Size[c] = Min(sizes)}
<1>1. fits # {} /\ BestFit(n) = First(Order, best)
  BY DEF BestFit
<1>. HIDE DEF best
<1>2. sizes \subseteq Nat /\ sizes # {}
  BY <1>1, CachesAssumption
<1>. HIDE DEF sizes
<1>3. Min(sizes) \in sizes
  BY <1>2, MinIn
<1>4. Order \in Seq(Caches) /\ Range(Order) = Caches
  BY CachesAssumption DEF Caches
<1>5. Range(Order) \cap best # {}
  BY <1>3, <1>4 DEF sizes, best
<1>6. First(Order, best) \in Range(Order) \cap best
  BY <1>4, <1>5, FirstIn
<1>. QED BY <1>1, <1>4, <1>6

LEMMA LinkedLists ==
    ASSUME NEW ls, NEW sl, Linked(ls, sl), NEW c \in Caches
    PROVE  /\ ls[c] \in Triples /\ Three(ls[c])
           /\ ls[c].full \in Seq(Nat) /\ ls[c].partial \in Seq(Nat) /\ ls[c].free \in Seq(Nat)
           /\ Range(ls[c].full) \cup Range(ls[c].partial) \cup Range(ls[c].free) = SlabsOf(sl, c)
BY DEF Linked, Triples, All

\* A call begins at the head of the partial list, if there is one.
LEMMA CallStarts ==
    ASSUME NEW ls, NEW sl, Linked(ls, sl), NEW c \in Caches
    PROVE  Call(c, ls) \in Frames /\ Walk(Call(c, ls), ls)
<1>1. ls[c].partial \in Seq(Nat)
  BY LinkedLists
<1>2. CASE ls[c].partial = <<>>
  <2>1. Call(c, ls) = [cache |-> c, pc |-> "fresh", slab |-> NULL]
    BY <1>2 DEF Call
  <2>. QED BY <2>1 DEF Frames, Walk
<1>3. CASE ls[c].partial # <<>>
  <2>1. Head(ls[c].partial) \in Nat /\ Head(ls[c].partial) \in Range(ls[c].partial)
    BY <1>1, <1>3 DEF Range
  <2>2. Call(c, ls) = [cache |-> c, pc |-> "scan", slab |-> Head(ls[c].partial)]
    BY <1>3 DEF Call
  <2>. HIDE <1>3
  <2>. QED BY <2>1, <2>2 DEF Frames, Walk
<1>. QED BY <1>2, <1>3

\* The pages of a new slab are nobody else's.
Room(sl, s, c, h) == s + Pages[c] <= h /\ \A t \in DOMAIN sl : Apart(s, c, t, sl[t].cache)

\* growCache puts the slab s on the free list of c.
FreeFirst(ls, c, s) == [ls EXCEPT ![c].free = <<s>> \o @]

MayGrow(sl, h, ls, s, c, bits) ==
    /\ SlabsTyped(sl) /\ SlabsApart(sl, h) /\ Linked(ls, sl)
    /\ s \in Nat /\ c \in Caches /\ bits \in SUBSET Nat /\ Room(sl, s, c, h)

Grown(sl, h, s, c, ms, tl) ==
    /\ s \notin DOMAIN sl /\ DOMAIN tl = DOMAIN sl \cup {s}
    /\ tl[s].cache = c /\ \A t \in DOMAIN sl : tl[t] = sl[t]
    /\ SlabsTyped(tl) /\ SlabsApart(tl, h) /\ Linked(ms, tl)
    /\ \A a : MarkedIn(sl, a) => MarkedIn(tl, a)

\* What growCache adds: a slab on pages of its own, at the head of the free list.
LEMMA GrownSlabs ==
    ASSUME NEW sl, NEW h, NEW ls, NEW s, NEW c, NEW bits, MayGrow(sl, h, ls, s, c, bits)
    PROVE  Grown(sl, h, s, c, FreeFirst(ls, c, s), NewSlab(sl, s, c, bits))
<1>. PICK ms, tl : ms = FreeFirst(ls, c, s) /\ tl = NewSlab(sl, s, c, bits)
  OBVIOUS
<1>. USE DEF MayGrow
<1>1. s \notin DOMAIN sl
  <2>. SUFFICES ASSUME s \in DOMAIN sl PROVE FALSE
    OBVIOUS
  <2>1. Apart(s, c, s, sl[s].cache) /\ sl[s].cache \in Caches
    BY SlabFields DEF Room
  <2>2. Pages[c] \in Nat \ {0} /\ Pages[sl[s].cache] \in Nat \ {0}
    BY <2>1, Sizes
  <2>. QED BY <2>1, <2>2 DEF Apart
<1>2. /\ DOMAIN tl = DOMAIN sl \cup {s} /\ tl[s] = [cache |-> c, used |-> bits]
      /\ \A t \in DOMAIN sl : tl[t] = sl[t]
  BY <1>1 DEF NewSlab
<1>3. tl[s].cache = c /\ tl[s].used = bits
  BY <1>2
<1>4. SlabsTyped(tl)
  <2>1. tl[s] \in Slabs
    BY <1>2 DEF Slabs
  <2>. QED BY <1>2, <2>1 DEF SlabsTyped
<1>5. SlabsApart(tl, h)
  <2>1. h \in Nat /\ \A t \in DOMAIN tl : t + Pages[tl[t].cache] <= h
    BY <1>2, <1>3 DEF SlabsApart, Room
  <2>2. ASSUME NEW t \in DOMAIN tl, NEW u \in DOMAIN tl, t # u
        PROVE  Apart(t, tl[t].cache, u, tl[u].cache)
    <3>1. CASE t \in DOMAIN sl /\ u \in DOMAIN sl
      BY <1>2, <2>2, <3>1 DEF SlabsApart
    <3>2. CASE t = s /\ u \in DOMAIN sl
      BY <1>2, <1>3, <3>2 DEF Room
    <3>3. CASE t \in DOMAIN sl /\ u = s
      BY <1>2, <1>3, <3>3 DEF Apart, Room
    <3>. QED BY <1>2, <2>2, <3>1, <3>2, <3>3
  <2>. QED BY <2>1, <2>2 DEF SlabsApart
<1>6. Linked(ms, tl)
  <2>1. ls \in [Caches -> Triples] /\ Three(ls[c]) /\ All(ls[c]) = SlabsOf(sl, c)
    BY DEF Linked, Triples
  <2>2. s \notin All(ls[c])
    BY <1>1, <2>1 DEF SlabsOf
  <2>3. ms[c] = [ls[c] EXCEPT !.free = <<s>> \o ls[c].free] /\ DOMAIN ms = Caches
    BY <2>1 DEF FreeFirst
  <2>4. \A d \in Caches \ {c} : ms[d] = ls[d]
    BY <2>1 DEF FreeFirst
  <2>5. /\ ms[c] \in Triples /\ Three(ms[c]) /\ All(ms[c]) = All(ls[c]) \cup {s}
        /\ ms[c].full = ls[c].full
    BY <2>1, <2>2, <2>3, GrownLists
  <2>6. ms \in [Caches -> Triples]
    <3>1. ms = [d \in Caches |-> ms[d]]
      BY <2>1 DEF FreeFirst
    <3>2. \A d \in Caches : ms[d] \in Triples
      BY <2>1, <2>4, <2>5
    <3>. QED BY <3>1, <3>2
  <2>7. SlabsOf(tl, c) = SlabsOf(sl, c) \cup {s} /\ \A d \in Caches \ {c} : SlabsOf(tl, d) = SlabsOf(sl, d)
    BY <1>1, <1>2, <1>3 DEF SlabsOf
  <2>8. ASSUME NEW d \in Caches PROVE Three(ms[d]) /\ All(ms[d]) = SlabsOf(tl, d)
    <3>1. CASE d = c
      BY <2>1, <2>5, <2>7, <3>1
    <3>2. CASE d # c
      BY <2>4, <2>7, <3>2 DEF Linked
    <3>. QED BY <3>1, <3>2
  <2>9. ASSUME NEW d \in Caches, NEW t \in Range(ms[d].full) PROVE Exhausted(tl[t])
    <3>1. ms[d].full = ls[d].full
      BY <2>4, <2>5
    <3>2. Exhausted(sl[t]) /\ t \in DOMAIN sl
      BY <2>9, <3>1 DEF Linked, All, SlabsOf
    <3>. QED BY <1>2, <3>2
  <2>. QED BY <2>6, <2>8, <2>9 DEF Linked, Triples
<1>7. \A a : MarkedIn(sl, a) => MarkedIn(tl, a)
  BY <1>2, MarkedMore
<1>. QED BY <1>1, <1>2, <1>3, <1>4, <1>5, <1>6, <1>7 DEF Grown
-----------------------------------------------------------------------------
(***************************************************************************)
(* The stack of calls.                                                     *)
(***************************************************************************)
\* The innermost frame is replaced.
LEMMA NewTop ==
    ASSUME NEW st \in Seq(Frames), st # <<>>, NEW x \in Frames, NEW r, r = <<x>> \o Tail(st)
    PROVE  /\ r \in Seq(Frames) /\ Len(r) = Len(st) /\ r[1] = x
           /\ \A k \in 2 .. Len(r) : r[k] = st[k]
<1>. DEFINE q == Tail(st)
            n == Len(st)
<1>1. n \in Nat \ {0} /\ q \in Seq(Frames) /\ Len(q) = n - 1 /\ \A i \in 1 .. (n - 1) : q[i] = st[i + 1]
  BY HeadTailProperties
<1>2. <<x>> \in Seq(Frames) /\ Len(<<x>>) = 1 /\ <<x>>[1] = x
  OBVIOUS
<1>. HIDE DEF q
<1>3. /\ r \in Seq(Frames) /\ Len(r) = 1 + Len(q)
      /\ \A i \in 1 .. 1 + Len(q) : r[i] = IF i <= 1 THEN <<x>>[i] ELSE q[i - 1]
  BY <1>1, <1>2, ConcatProperties DEF q
<1>. HIDE DEF n
<1>4. Len(r) = n /\ r[1] = x
  BY <1>1, <1>2, <1>3
<1>5. ASSUME NEW k \in 2 .. n PROVE r[k] = st[k]
  <2>1. k - 1 \in 1 .. (n - 1) /\ (k - 1) + 1 = k /\ ~ (k <= 1) /\ k \in 1 .. n
    BY <1>1
  <2>2. r[k] = q[k - 1]
    BY <1>1, <1>3, <2>1
  <2>. QED BY <1>1, <2>1, <2>2
<1>. QED BY <1>3, <1>4, <1>5 DEF n

\* The outer frames from the k-th on are those behind the first two of an older stack.
LEMMA Behind ==
    ASSUME NEW st \in Seq(Frames), Len(st) > 1, NEW q, q = SubSeq(st, 3, Len(st))
    PROVE  /\ q \in Seq(Frames) /\ Len(q) = Len(st) - 2
           /\ \A i \in 1 .. (Len(st) - 2) : q[i] = st[i + 2]
<1>. DEFINE n == Len(st)
<1>1. n \in Nat /\ n > 1 /\ \A i \in 3 .. n : st[i] \in Frames
  OBVIOUS
<1>2. /\ SubSeq(st, 3, n) \in Seq(Frames)
      /\ Len(SubSeq(st, 3, n)) = IF 3 <= n THEN n - 3 + 1 ELSE 0
      /\ \A i \in 1 .. n - 3 + 1 : SubSeq(st, 3, n)[i] = st[3 + i - 1]
  BY <1>1, SubSeqProperties
<1>3. q = SubSeq(st, 3, n)
  OBVIOUS
<1>. HIDE DEF n
<1>4. Len(q) = n - 2
  BY <1>1, <1>2, <1>3
<1>5. ASSUME NEW i \in 1 .. (n - 2) PROVE q[i] = st[i + 2]
  <2>1. i \in 1 .. n - 3 + 1 /\ 3 + i - 1 = i + 2
    BY <1>1
  <2>. QED BY <1>2, <1>3, <2>1
<1>. QED BY <1>2, <1>3, <1>4, <1>5 DEF n

\* The innermost call has returned: one frame less.
LEMMA OneLess ==
    ASSUME NEW st \in Seq(Frames), Len(st) > 1, NEW x \in Frames,
           NEW r, r = <<x>> \o SubSeq(st, 3, Len(st))
    PROVE  /\ r \in Seq(Frames) /\ Len(r) = Len(st) - 1 /\ r[1] = x
           /\ \A k \in 2 .. Len(r) : r[k] = st[k + 1] /\ k + 1 \in 3 .. Len(st)
<1>. DEFINE q == SubSeq(st, 3, Len(st))
            n == Len(st)
<1>0. q = SubSeq(st, 3, Len(st)) /\ n \in Nat /\ n > 1
  OBVIOUS
<1>. HIDE DEF q
<1>1. q \in Seq(Frames) /\ Len(q) = n - 2 /\ \A i \in 1 .. (n - 2) : q[i] = st[i + 2]
  BY <1>0, Behind
<1>2. <<x>> \in Seq(Frames) /\ Len(<<x>>) = 1 /\ <<x>>[1] = x
  OBVIOUS
<1>. HIDE DEF q
<1>3. /\ r \in Seq(Frames) /\ Len(r) = 1 + Len(q)
      /\ \A i \in 1 .. 1 + Len(q) : r[i] = IF i <= 1 THEN <<x>>[i] ELSE q[i - 1]
  BY <1>1, <1>2, ConcatProperties DEF q
<1>. HIDE DEF n
<1>4. Len(r) = n - 1 /\ r[1] = x
  BY <1>0, <1>1, <1>2, <1>3
<1>5. ASSUME NEW k \in 2 .. (n - 1) PROVE r[k] = st[k + 1] /\ k + 1 \in 3 .. n
  <2>1. k - 1 \in 1 .. (n - 2) /\ (k - 1) + 2 = k + 1 /\ ~ (k <= 1) /\ k \in 1 .. (n - 1)
    BY <1>0, <1>1
  <2>2. r[k] = q[k - 1]
    BY <1>1, <1>3, <2>1
  <2>3. q[k - 1] = st[(k - 1) + 2]
    BY <1>1, <2>1
  <2>4. k + 1 \in 3 .. n
    BY <1>0
  <2>. QED BY <2>1, <2>2, <2>3, <2>4
<1>. QED BY <1>3, <1>4, <1>5 DEF n

\* The innermost call has returned and growCache makes another.
LEMMA SameDepth ==
    ASSUME NEW st \in Seq(Frames), Len(st) > 1, NEW x \in Frames, NEW y \in Frames,
           NEW r, r = <<x, y>> \o SubSeq(st, 3, Len(st))
    PROVE  /\ r \in Seq(Frames) /\ Len(r) = Len(st) /\ r[1] = x /\ r[2] = y
           /\ \A k \in 3 .. Len(r) : r[k] = st[k]
<1>. DEFINE q == SubSeq(st, 3, Len(st))
            n == Len(st)
<1>0. q = SubSeq(st, 3, Len(st)) /\ n \in Nat /\ n > 1
  OBVIOUS
<1>. HIDE DEF q
<1>1. q \in Seq(Frames) /\ Len(q) = n - 2 /\ \A i \in 1 .. (n - 2) : q[i] = st[i + 2]
  BY <1>0, Behind
<1>2. <<x, y>> \in Seq(Frames) /\ Len(<<x, y>>) = 2 /\ <<x, y>>[1] = x /\ <<x, y>>[2] = y
  OBVIOUS
<1>. HIDE DEF q
<1>3. /\ r \in Seq(Frames) /\ Len(r) = 2 + Len(q)
      /\ \A i \in 1 .. 2 + Len(q) : r[i] = IF i <= 2 THEN <<x, y>>[i] ELSE q[i - 2]
  BY <1>1, <1>2, ConcatProperties DEF q
<1>. HIDE DEF n
<1>4. Len(r) = n /\ r[1] = x /\ r[2] = y
  BY <1>0, <1>1, <1>2, <1>3
<1>5. ASSUME NEW k \in 3 .. n PROVE r[k] = st[k]
  <2>1. k - 2 \in 1 .. (n - 2) /\ (k - 2) + 2 = k /\ ~ (k <= 2) /\ k \in 1 .. n
    BY <1>0, <1>1
  <2>2. r[k] = q[k - 2]
    BY <1>1, <1>3, <2>1
  <2>. QED BY <1>1, <2>1, <2>2
<1>. QED BY <1>3, <1>4, <1>5 DEF n

\* growCache makes its first call: one frame more.
LEMMA OneMore ==
    ASSUME NEW st \in Seq(Frames), st # <<>>, NEW x \in Frames, NEW y \in Frames,
           NEW r, r = <<x, y>> \o Tail(st)
    PROVE  /\ r \in Seq(Frames) /\ Len(r) = Len(st) + 1 /\ r[1] = x /\ r[2] = y
           /\ \A k \in 3 .. Len(r) : r[k] = st[k - 1] /\ k - 1 \in 2 .. Len(st)
<1>. DEFINE q == Tail(st)
            n == Len(st)
<1>1. n \in Nat \ {0} /\ q \in Seq(Frames) /\ Len(q) = n - 1 /\ \A i \in 1 .. (n - 1) : q[i] = st[i + 1]
  BY HeadTailProperties
<1>2. <<x, y>> \in Seq(Frames) /\ Len(<<x, y>>) = 2 /\ <<x, y>>[1] = x /\ <<x, y>>[2] = y
  OBVIOUS
<1>. HIDE DEF q
<1>3. /\ r \in Seq(Frames) /\ Len(r) = 2 + Len(q)
      /\ \A i \in 1 .. 2 + Len(q) : r[i] = IF i <= 2 THEN <<x, y>>[i] ELSE q[i - 2]
  BY <1>1, <1>2, ConcatProperties DEF q
<1>. HIDE DEF n
<1>4. Len(r) = n + 1 /\ r[1] = x /\ r[2] = y
  BY <1>1, <1>2, <1>3
<1>5. ASSUME NEW k \in 3 .. (n + 1) PROVE r[k] = st[k - 1] /\ k - 1 \in 2 .. n
  <2>1. k - 2 \in 1 .. (n - 1) /\ (k - 2) + 1 = k - 1 /\ ~ (k <= 2) /\ k \in 1 .. (n + 1)
    BY <1>1
  <2>2. r[k] = q[k - 2]
    BY <1>1, <1>3, <2>1
  <2>3. q[k - 2] = st[(k - 2) + 1]
    BY <1>1, <2>1
  <2>4. k - 1 \in 2 .. n
    BY <1>1
  <2>. QED BY <2>1, <2>2, <2>3, <2>4
<1>. QED BY <1>3, <1>4, <1>5 DEF n

\* The slabs under way, which f finds in the older stack, are still on pages of their own.
LEMMA GrowthKept ==
    ASSUME NEW sl, NEW st, NEW h, GrowthApart(sl, st, h), NEW r, NEW f,
           f \in [2 .. Len(r) -> 2 .. Len(st)],
           \A k, j \in 2 .. Len(r) : f[k] = f[j] => k = j,
           \A k \in 2 .. Len(r) : r[k].slab = st[f[k]].slab /\ r[k].cache = st[f[k]].cache,
           NEW tl,
           \A s \in DOMAIN tl : \/ s \in DOMAIN sl /\ tl[s].cache = sl[s].cache
                                \/ \A k \in 2 .. Len(r) : Apart(r[k].slab, r[k].cache, s, tl[s].cache)
    PROVE  GrowthApart(tl, r, h)
<1>. SUFFICES ASSUME NEW k \in 2 .. Len(r)
     PROVE  /\ r[k].slab + Pages[r[k].cache] <= h
            /\ \A s \in DOMAIN tl : Apart(r[k].slab, r[k].cache, s, tl[s].cache)
            /\ \A j \in 2 .. Len(r) : j # k => Apart(r[k].slab, r[k].cache, r[j].slab, r[j].cache)
  BY DEF GrowthApart
<1>1. f[k] \in 2 .. Len(st) /\ r[k].slab = st[f[k]].slab /\ r[k].cache = st[f[k]].cache
  OBVIOUS
<1>2. r[k].slab + Pages[r[k].cache] <= h
  BY <1>1 DEF GrowthApart
<1>3. \A s \in DOMAIN sl : Apart(r[k].slab, r[k].cache, s, sl[s].cache)
  BY <1>1 DEF GrowthApart
<1>4. ASSUME NEW j \in 2 .. Len(r), j # k
      PROVE  Apart(r[k].slab, r[k].cache, r[j].slab, r[j].cache)
  <2>1. f[j] \in 2 .. Len(st) /\ r[j].slab = st[f[j]].slab /\ r[j].cache = st[f[j]].cache /\ f[j] # f[k]
    BY <1>4
  <2>2. Apart(st[f[k]].slab, st[f[k]].cache, st[f[j]].slab, st[f[j]].cache)
    BY <1>1, <2>1 DEF GrowthApart
  <2>. QED BY <1>1, <2>1, <2>2
<1>. QED BY <1>2, <1>3, <1>4

\* The same when the frames keep their places.
LEMMA GrowthSame ==
    ASSUME NEW sl, NEW st, NEW h, GrowthApart(sl, st, h), NEW r, Len(r) = Len(st),
           \A k \in 2 .. Len(r) : r[k].slab = st[k].slab /\ r[k].cache = st[k].cache,
           NEW tl, DOMAIN tl = DOMAIN sl, \A s \in DOMAIN sl : tl[s].cache = sl[s].cache
    PROVE  GrowthApart(tl, r, h)
<1>. PICK f : f = [k \in 2 .. Len(r) |-> k]
  OBVIOUS
<1>1. /\ f \in [2 .. Len(r) -> 2 .. Len(st)] /\ \A k \in 2 .. Len(r) : f[k] = k
  OBVIOUS
<1>2. \A k, j \in 2 .. Len(r) : f[k] = f[j] => k = j
  BY <1>1
<1>3. \A k \in 2 .. Len(r) : r[k].slab = st[f[k]].slab /\ r[k].cache = st[f[k]].cache
  BY <1>1
<1>4. \A s \in DOMAIN tl : \/ s \in DOMAIN sl /\ tl[s].cache = sl[s].cache
                           \/ \A k \in 2 .. Len(r) : Apart(r[k].slab, r[k].cache, s, tl[s].cache)
  OBVIOUS
<1>. QED BY <1>1, <1>2, <1>3, <1>4, GrowthKept

LEMMA ObjectsKept ==
    ASSUME NEW sl, NEW tl, NEW hd, NEW ow, Objects(sl, hd, ow),
           \A a : MarkedIn(sl, a) => MarkedIn(tl, a)
    PROVE  Objects(tl, hd, ow)
BY DEF Objects

\* An object that was free has a holder, the allocator itself or a caller.
LEMMA ObjectsOwn ==
    ASSUME NEW sl, NEW tl, NEW hd, NEW ow, Objects(sl, hd, ow), NEW a,
           \A b : MarkedIn(sl, b) => MarkedIn(tl, b), ~ MarkedIn(sl, a), MarkedIn(tl, a)
    PROVE  Objects(tl, hd, ow \cup {a})
BY DEF Objects

LEMMA ObjectsHeld ==
    ASSUME NEW sl, NEW tl, NEW hd, NEW ow, Objects(sl, hd, ow), NEW a, NEW w,
           \A b : MarkedIn(sl, b) => MarkedIn(tl, b), ~ MarkedIn(sl, a), MarkedIn(tl, a)
    PROVE  Objects(tl, hd \cup {[addr |-> a, how |-> w]}, ow)
<1>. PICK g : g = [addr |-> a, how |-> w]
  OBVIOUS
<1>1. g.addr = a
  OBVIOUS
<1>2. a \notin ow /\ \A x \in hd : x.addr # a
  BY DEF Objects
<1>3. Objects(tl, hd \cup {g}, ow)
  BY <1>1, <1>2 DEF Objects
<1>. QED BY <1>3
-----------------------------------------------------------------------------
(***************************************************************************)
(* The steps.                                                              *)
(***************************************************************************)
\* An allocation with the lists ls and the slabs sl returns the object a, which was free.
LEMMA ReturnStep ==
    ASSUME SlabInv, stack # <<>>, NEW ls, NEW sl, NEW a,
           SlabsTyped(sl), Linked(ls, sl), Walk(Top, ls), DOMAIN sl = DOMAIN slabs,
           \A s \in DOMAIN slabs : sl[s].cache = slabs[s].cache /\ slabs[s].used \subseteq sl[s].used,
           MarkedIn(sl, a), ~ MarkedIn(slabs, a), Return(a, ls, sl)
    PROVE  SlabInv'
<1>1. /\ SlabsTyped(slabs) /\ SlabsApart(slabs, heap) /\ GrowthApart(slabs, stack, heap)
      /\ Objects(slabs, held, own) /\ Calls(stack, lists)
  BY DEF SlabInv
<1>2. stack \in Seq(Frames) /\ Top = stack[1] /\ Len(stack) \in Nat
  BY <1>1 DEF Calls, Top
<1>3. SlabsApart(sl, heap)
  BY <1>1 DEF SlabsApart
<1>4. GrowthApart(sl, stack, heap)
  BY <1>1, GrowthSame
<1>5. \A b : MarkedIn(slabs, b) => MarkedIn(sl, b)
  BY MarkedMore
<1>6. Calls(stack, ls)
  BY <1>1, <1>2 DEF Calls
<1>7. CASE /\ Len(stack) = 1
           /\ held' = held \cup {[addr |-> a, how |-> want]}
           /\ stack' = <<>>
           /\ want' = NULL
           /\ lists' = ls /\ slabs' = sl
           /\ UNCHANGED <<heap, own, stale, panicked>>
  <2>1. Objects(sl, held \cup {[addr |-> a, how |-> want]}, own)
    BY <1>1, <1>5, ObjectsHeld
  <2>2. Calls(stack', ls) /\ GrowthApart(sl, stack', heap)
    <3>1. stack' \in Seq(Frames) /\ 2 .. Len(stack') = {}
      BY <1>7
    <3>. QED BY <1>7, <3>1 DEF Calls, GrowthApart
  <2>. QED BY <1>3, <1>7, <2>1, <2>2 DEF SlabInv
<1>8. ASSUME Len(stack) > 1
      PROVE  /\ stack[2] \in Frames /\ stack[2].cache \in Caches /\ stack[2].slab \in Nat
             /\ stack[2].slab + Pages[stack[2].cache] <= heap
             /\ \A t \in DOMAIN sl : Apart(stack[2].slab, stack[2].cache, t, sl[t].cache)
  <2>1. 2 \in 2 .. Len(stack) /\ 2 \in 1 .. Len(stack)
    BY <1>2, <1>8
  <2>2. stack[2] \in Frames
    BY <1>2, <2>1
  <2>. QED BY <1>1, <1>4, <2>1, <2>2 DEF Frames, Calls, GrowthApart
<1>9. ASSUME Len(stack) > 1, stack[2].pc = "desc", own' = own \cup {a}, lists' = ls, slabs' = sl,
             UNCHANGED <<heap, held>>,
             \/ UNCHANGED stack
             \/ \E c \in Caches :
                  stack' = <<Call(c, ls), [stack[2] EXCEPT !.pc = "used"]>> \o SubSeq(stack, 3, Len(stack))
      PROVE  SlabInv'
  <2>1. Objects(sl, held, own \cup {a})
    BY <1>1, <1>5, ObjectsOwn
  <2>2. CASE UNCHANGED stack
    BY <1>3, <1>4, <1>6, <1>9, <2>1, <2>2 DEF SlabInv
  <2>3. ASSUME NEW c \in Caches,
               stack' = <<Call(c, ls), [stack[2] EXCEPT !.pc = "used"]>> \o SubSeq(stack, 3, Len(stack))
        PROVE  Calls(stack', ls) /\ GrowthApart(sl, stack', heap)
    <3>. DEFINE x == Call(c, ls)
                y == [stack[2] EXCEPT !.pc = "used"]
    <3>1. x \in Frames /\ Walk(x, ls)
      BY CallStarts
    <3>2. y \in Frames /\ y.pc = "used" /\ y.slab = stack[2].slab /\ y.cache = stack[2].cache
      BY <1>8, <1>9 DEF Frames
    <3>. HIDE DEF x, y
    <3>3. stack' = <<x, y>> \o SubSeq(stack, 3, Len(stack))
      BY <2>3 DEF x, y
    <3>4. /\ stack' \in Seq(Frames) /\ Len(stack') = Len(stack) /\ stack'[1] = x /\ stack'[2] = y
          /\ \A k \in 3 .. Len(stack') : stack'[k] = stack[k]
      BY <1>2, <1>9, <3>1, <3>2, <3>3, SameDepth
    <3>5. \A k \in 2 .. Len(stack') : k = 2 \/ k \in 3 .. Len(stack')
      BY <1>2, <3>4
    <3>6. \A k \in 2 .. Len(stack') : stack'[k].slab = stack[k].slab /\ stack'[k].cache = stack[k].cache
      BY <3>2, <3>4, <3>5
    <3>7. \A k \in 2 .. Len(stack') : stack'[k].pc \in {"desc", "used"} /\ stack'[k].slab \in Nat
      <4>. SUFFICES ASSUME NEW k \in 2 .. Len(stack')
           PROVE stack'[k].pc \in {"desc", "used"} /\ stack'[k].slab \in Nat
        OBVIOUS
      <4>1. CASE k = 2
        BY <1>8, <1>9, <3>2, <3>4, <4>1
      <4>2. CASE k \in 3 .. Len(stack')
        <5>1. k \in 2 .. Len(stack) /\ stack'[k] = stack[k]
          BY <3>4, <4>2
        <5>. QED BY <1>1, <5>1 DEF Calls
      <4>. QED BY <3>5, <4>1, <4>2
    <3>8. GrowthApart(sl, stack', heap)
      BY <1>4, <3>4, <3>6, GrowthSame
    <3>9. Calls(stack', ls)
      BY <3>1, <3>4, <3>7 DEF Calls
    <3>. QED BY <3>8, <3>9
  <2>. QED BY <1>3, <1>9, <2>1, <2>2, <2>3 DEF SlabInv
<1>10. ASSUME Len(stack) > 1, stack[2].pc = "used", own' = own \cup {a}, UNCHANGED <<heap, held>>,
              NEW bits \in SUBSET Nat,
              slabs' = NewSlab(sl, stack[2].slab, stack[2].cache, bits),
              lists' = [ls EXCEPT ![stack[2].cache].free = <<stack[2].slab>> \o @],
              stack' = <<Call(stack[2].cache, lists')>> \o SubSeq(stack, 3, Len(stack))
       PROVE  SlabInv'
  <2>. PICK s, c : s = stack[2].slab /\ c = stack[2].cache
    OBVIOUS
  <2>1. /\ s \in Nat /\ c \in Caches /\ s + Pages[c] <= heap
        /\ \A t \in DOMAIN sl : Apart(s, c, t, sl[t].cache)
    BY <1>8, <1>10
  <2>2. /\ slabs' = NewSlab(sl, s, c, bits) /\ lists' = FreeFirst(ls, c, s)
        /\ stack' = <<Call(c, lists')>> \o SubSeq(stack, 3, Len(stack))
    BY <1>10 DEF FreeFirst
  <2>3. /\ s \notin DOMAIN sl /\ DOMAIN slabs' = DOMAIN sl \cup {s}
        /\ slabs'[s].cache = c /\ \A t \in DOMAIN sl : slabs'[t] = sl[t]
        /\ SlabsTyped(slabs') /\ SlabsApart(slabs', heap) /\ Linked(lists', slabs')
        /\ \A b : MarkedIn(sl, b) => MarkedIn(slabs', b)
    <3>1. Room(sl, s, c, heap)
      BY <2>1 DEF Room
    <3>2. MayGrow(sl, heap, ls, s, c, bits)
      BY <1>3, <2>1, <3>1 DEF MayGrow
    <3>3. Grown(sl, heap, s, c, lists', slabs')
      BY <2>2, <3>2, GrownSlabs
    <3>. QED BY <3>3 DEF Grown
  <2>4. Objects(slabs', held, own \cup {a})
    BY <1>1, <1>5, <2>3, ObjectsOwn
  <2>5. Call(c, lists') \in Frames /\ Walk(Call(c, lists'), lists')
    BY <2>1, <2>3, CallStarts
  <2>6. /\ stack' \in Seq(Frames) /\ Len(stack') = Len(stack) - 1 /\ stack'[1] = Call(c, lists')
        /\ \A k \in 2 .. Len(stack') : stack'[k] = stack[k + 1] /\ k + 1 \in 3 .. Len(stack)
    <3>. DEFINE x == Call(c, lists')
    <3>. HIDE DEF x
    <3>1. x \in Frames /\ stack' = <<x>> \o SubSeq(stack, 3, Len(stack))
      BY <2>2, <2>5 DEF x
    <3>2. /\ stack' \in Seq(Frames) /\ Len(stack') = Len(stack) - 1 /\ stack'[1] = x
          /\ \A k \in 2 .. Len(stack') : stack'[k] = stack[k + 1] /\ k + 1 \in 3 .. Len(stack)
      BY <1>2, <1>10, <3>1, OneLess
    <3>. QED BY <3>2 DEF x
  <2>7. \A k \in 3 .. Len(stack) : k \in 2 .. Len(stack) /\ k # 2
    BY <1>2
  <2>8. Calls(stack', lists')
    BY <1>1, <2>5, <2>6, <2>7 DEF Calls
  <2>9. GrowthApart(slabs', stack', heap)
    <3>0. PICK f : f = [k \in 2 .. Len(stack') |-> k + 1]
      OBVIOUS
    <3>1. /\ f \in [2 .. Len(stack') -> 2 .. Len(stack)]
          /\ \A k \in 2 .. Len(stack') : f[k] = k + 1 /\ f[k] \in 2 .. Len(stack) /\ f[k] # 2
      BY <2>6, <2>7, <3>0
    <3>2. \A k, j \in 2 .. Len(stack') : f[k] = f[j] => k = j
      BY <3>1
    <3>3. \A k \in 2 .. Len(stack') : stack'[k].slab = stack[f[k]].slab /\ stack'[k].cache = stack[f[k]].cache
      BY <2>6, <3>1
    <3>4. \A k \in 2 .. Len(stack') : Apart(stack'[k].slab, stack'[k].cache, s, slabs'[s].cache)
      <4>. SUFFICES ASSUME NEW k \in 2 .. Len(stack')
           PROVE Apart(stack'[k].slab, stack'[k].cache, s, slabs'[s].cache)
        OBVIOUS
      <4>1. f[k] \in 2 .. Len(stack) /\ f[k] # 2 /\ 2 \in 2 .. Len(stack)
        BY <1>2, <1>10, <3>1
      <4>2. Apart(stack[f[k]].slab, stack[f[k]].cache, stack[2].slab, stack[2].cache)
        BY <1>4, <4>1 DEF GrowthApart
      <4>. QED BY <2>3, <3>3, <4>2
    <3>5. \A t \in DOMAIN slabs' :
             \/ t \in DOMAIN sl /\ slabs'[t].cache = sl[t].cache
             \/ \A k \in 2 .. Len(stack') : Apart(stack'[k].slab, stack'[k].cache, t, slabs'[t].cache)
      BY <2>3, <3>4
    <3>. QED BY <1>4, <3>1, <3>2, <3>3, <3>5, GrowthKept
  <2>. QED BY <1>10, <2>3, <2>4, <2>8, <2>9 DEF SlabInv
<1>11. \A c \in Caches : Bits[c] \subseteq Nat
  BY DEF Bits
<1>12. CASE Len(stack) = 1
  BY <1>7, <1>12 DEF Return
<1>13. CASE Len(stack) > 1 /\ stack[2].pc = "desc"
  <2>. DEFINE array == BestFit(ArrayBytes[stack[2].cache])
  <2>0. Len(stack) # 1 /\ stack[2].pc # "used"
    BY <1>13
  <2>1. /\ own' = own \cup {a} /\ lists' = ls /\ slabs' = sl
        /\ UNCHANGED <<heap, held>>
        /\ IF array = NULL THEN panicked' = "could not kmalloc the used array" /\ UNCHANGED stack
           ELSE /\ stack' = <<Call(array, ls), [stack[2] EXCEPT !.pc = "used"]>> \o SubSeq(stack, 3, Len(stack))
                /\ UNCHANGED panicked
    BY <2>0, Zenon DEF Return
  <2>2. array \in Caches \cup {NULL}
    BY BestFitIn
  <2>. HIDE DEF array
  <2>3. CASE array = NULL
    BY <1>9, <1>13, <2>1, <2>3
  <2>4. CASE array # NULL
    BY <1>9, <1>13, <2>1, <2>2, <2>4
  <2>. QED BY <2>3, <2>4
<1>14. CASE Len(stack) > 1 /\ stack[2].pc = "used"
  <2>1. /\ own' = own \cup {a} /\ UNCHANGED <<heap, held>>
        /\ \E bits \in IF a \in stale THEN SUBSET Bits[stack[2].cache] ELSE {{}} :
              slabs' = NewSlab(sl, stack[2].slab, stack[2].cache, bits)
        /\ lists' = [ls EXCEPT ![stack[2].cache].free = <<stack[2].slab>> \o @]
        /\ stack' = <<Call(stack[2].cache, lists')>> \o SubSeq(stack, 3, Len(stack))
    BY <1>14 DEF Return
  <2>2. PICK bits \in SUBSET Nat : slabs' = NewSlab(sl, stack[2].slab, stack[2].cache, bits)
    BY <1>8, <1>11, <1>14, <2>1
  <2>. QED BY <1>10, <1>14, <2>1, <2>2
<1>. QED BY <1>2, <1>12, <1>13, <1>14 DEF Return

\* Bits are set: the lists stay as they are.
LEMMA LinkedMore ==
    ASSUME NEW ls, NEW sl, Linked(ls, sl), NEW tl, DOMAIN tl = DOMAIN sl,
           \A s \in DOMAIN sl : tl[s].cache = sl[s].cache /\ sl[s].used \subseteq tl[s].used
    PROVE  Linked(ls, tl)
<1>1. \A c \in Caches : SlabsOf(tl, c) = SlabsOf(sl, c)
  BY DEF SlabsOf
<1>2. ASSUME NEW c \in Caches, NEW s \in Range(ls[c].full) PROVE Exhausted(tl[s])
  <2>1. Exhausted(sl[s]) /\ s \in DOMAIN sl
    BY <1>2 DEF Linked, All, SlabsOf
  <2>2. tl[s].cache = sl[s].cache /\ sl[s].used \subseteq tl[s].used
    BY <2>1
  <2>. QED BY <2>1, <2>2 DEF Exhausted
<1>. QED BY <1>1, <1>2 DEF Linked

\* The slabs of the cache c have changed places.
LEMMA Relinked ==
    ASSUME NEW ls, NEW sl, Linked(ls, sl), NEW c \in Caches, NEW l, l \in Triples, Three(l),
           All(l) = All(ls[c]), NEW tl, DOMAIN tl = DOMAIN sl,
           \A s \in DOMAIN sl : tl[s].cache = sl[s].cache,
           \A s \in Range(l.full) : Exhausted(tl[s]),
           \A d \in Caches \ {c} : \A s \in Range(ls[d].full) : Exhausted(tl[s]),
           NEW ms, ms = [ls EXCEPT ![c] = l]
    PROVE  Linked(ms, tl)
<1>1. ls \in [Caches -> Triples]
  BY DEF Linked, Triples
<1>2. ms \in [Caches -> Triples] /\ ms[c] = l /\ \A d \in Caches \ {c} : ms[d] = ls[d]
  BY <1>1
<1>3. \A d \in Caches : SlabsOf(tl, d) = SlabsOf(sl, d)
  BY DEF SlabsOf
<1>4. ASSUME NEW d \in Caches
      PROVE  /\ Three(ms[d]) /\ All(ms[d]) = SlabsOf(tl, d)
             /\ \A s \in Range(ms[d].full) : Exhausted(tl[s])
  <2>1. CASE d = c
    <3>1. All(ls[c]) = SlabsOf(sl, c)
      BY DEF Linked
    <3>. QED BY <1>2, <1>3, <2>1, <3>1
  <2>2. CASE d # c
    <3>1. Three(ls[d]) /\ All(ls[d]) = SlabsOf(sl, d)
      BY DEF Linked
    <3>. QED BY <1>2, <1>3, <2>2, <3>1
  <2>. QED BY <2>1, <2>2
<1>. QED BY <1>2, <1>4 DEF Linked, Triples

\* A slab on a list of c is a slab of c.
LEMMA OnList ==
    ASSUME NEW ls, NEW sl, Linked(ls, sl), NEW c \in Caches, NEW s,
           s \in Range(ls[c].full) \cup Range(ls[c].partial) \cup Range(ls[c].free)
    PROVE  s \in DOMAIN sl /\ sl[s].cache = c
BY DEF Linked, All, SlabsOf

LEMMA TakeStep ==
    ASSUME SlabInv, stack # <<>>, NEW s \in DOMAIN slabs, Clear(s) # {}, NEW ls,
           Linked(ls, slabs), Walk(Top, ls), TakeObject(s, ls)
    PROVE  SlabInv'
<1>0. PICK i : i = Min(Clear(s))
  OBVIOUS
<1>1. SlabsTyped(slabs) /\ SlabsApart(slabs, heap)
  BY DEF SlabInv
<1>2. s \in Nat /\ slabs[s].cache \in Caches /\ slabs[s].used \subseteq Nat /\ slabs[s] \in Slabs
  BY <1>1, SlabFields DEF SlabsTyped
<1>3. Objs[slabs[s].cache] \in Int
  BY <1>2, Sizes
<1>4. i \in Clear(s)
  <2>1. Clear(s) \subseteq Nat
    BY DEF Clear
  <2>. QED BY <1>0, <2>1, MinIn
<1>5. i \in Nat /\ i < Objs[slabs[s].cache] /\ i \notin slabs[s].used
  BY <1>3, <1>4 DEF Clear, Cache
<1>6. PICK sl : sl = [slabs EXCEPT ![s].used = @ \cup {i}]
  OBVIOUS
<1>7. /\ DOMAIN sl = DOMAIN slabs
      /\ sl[s] = [slabs[s] EXCEPT !.used = slabs[s].used \cup {i}]
      /\ \A t \in DOMAIN slabs \ {s} : sl[t] = slabs[t]
  BY <1>6
<1>8. /\ sl[s] \in Slabs /\ sl[s].cache = slabs[s].cache /\ sl[s].used = slabs[s].used \cup {i}
  BY <1>2, <1>5, <1>7 DEF Slabs
<1>9. SlabsTyped(sl)
  BY <1>1, <1>7, <1>8 DEF SlabsTyped
<1>10. \A t \in DOMAIN slabs : sl[t].cache = slabs[t].cache /\ slabs[t].used \subseteq sl[t].used
  BY <1>7, <1>8
<1>11. Linked(ls, sl)
  BY <1>7, <1>10, LinkedMore
<1>12. PICK a : a = At(slabs[s].cache, s, i)
  OBVIOUS
<1>13. Addr(s, i) = a
  BY <1>12 DEF Addr, At, Start, Cache
<1>14. MarkedIn(sl, a)
  <2>1. s \in DOMAIN sl /\ i \in sl[s].used /\ i < Objs[sl[s].cache] /\ a = At(sl[s].cache, s, i)
    BY <1>5, <1>7, <1>8, <1>12
  <2>. QED BY <2>1 DEF MarkedIn
<1>15. ~ MarkedIn(slabs, a)
  <2>. SUFFICES ASSUME NEW t \in DOMAIN slabs, NEW j \in slabs[t].used,
                       j < Objs[slabs[t].cache], a = At(slabs[t].cache, t, j)
       PROVE FALSE
    BY DEF MarkedIn
  <2>1. j \in Nat
    BY <1>1, SlabFields
  <2>2. s = t /\ i = j
    BY <1>1, <1>5, <1>12, <2>1, Decode
  <2>. QED BY <1>5, <2>2
<1>16. Return(a, ls, sl)
  BY <1>0, <1>6, <1>13 DEF TakeObject
<1>. QED BY <1>7, <1>9, <1>10, <1>11, <1>14, <1>15, <1>16, ReturnStep

LEMMA TopFacts ==
    ASSUME SlabInv, stack # <<>>
    PROVE  /\ stack \in Seq(Frames) /\ Top = stack[1] /\ Top \in Frames /\ Len(stack) \in Nat \ {0}
           /\ Top.cache \in Caches /\ Walk(Top, lists) /\ Linked(lists, slabs)
<1>1. Calls(stack, lists) /\ Linked(lists, slabs)
  BY DEF SlabInv
<1>2. stack \in Seq(Frames) /\ Walk(stack[1], lists)
  BY <1>1 DEF Calls
<1>3. Top = stack[1] /\ Len(stack) \in Nat \ {0} /\ Top \in Frames
  BY <1>2 DEF Top
<1>. QED BY <1>1, <1>2, <1>3 DEF Frames

LEMMA ScanHitStep == SlabInv /\ ScanHit => SlabInv'
<1>. SUFFICES ASSUME SlabInv, ScanHit PROVE SlabInv'
  OBVIOUS
<1>1. /\ stack # <<>> /\ Top.pc = "scan" /\ Clear(Top.slab) # {} /\ TakeObject(Top.slab, lists)
  BY DEF ScanHit, Running
<1>2. Top.cache \in Caches /\ Walk(Top, lists) /\ Linked(lists, slabs)
  BY <1>1, TopFacts
<1>3. Top.slab \in DOMAIN slabs
  BY <1>1, <1>2, OnList DEF Walk
<1>. QED BY <1>1, <1>2, <1>3, TakeStep

LEMMA TakeFreeStep == SlabInv /\ TakeFree => SlabInv'
<1>. SUFFICES ASSUME SlabInv, TakeFree PROVE SlabInv'
  OBVIOUS
<1>0. stack # <<>> /\ Top.pc = "fresh"
  BY DEF TakeFree, Running
<1>1. Top.cache \in Caches /\ Walk(Top, lists) /\ Linked(lists, slabs)
  BY <1>0, TopFacts
<1>2. PICK c, s : c = Top.cache /\ s = Head(lists[c].free)
  OBVIOUS
<1>3. PICK ls : ls = [lists EXCEPT ![c].free = Tail(@), ![c].partial = <<s>> \o @]
  OBVIOUS
<1>4. /\ lists[c].free # <<>>
      /\ IF Clear(s) # {} THEN TakeObject(s, ls) ELSE Panic("could not get object from empty slab!")
  BY <1>2, <1>3 DEF TakeFree
<1>5. Three(lists[c]) /\ lists[c] \in Triples /\ lists \in [Caches -> Triples] /\ c \in Caches
  BY <1>1, <1>2 DEF Linked, Triples
<1>6. PICK l : l = [lists[c] EXCEPT !.free = Tail(lists[c].free), !.partial = <<s>> \o lists[c].partial]
  OBVIOUS
<1>7. ls = [lists EXCEPT ![c] = l]
  BY <1>3, <1>5, <1>6 DEF Triples
<1>8. /\ l \in Triples /\ Three(l) /\ All(l) = All(lists[c]) /\ l.full = lists[c].full
      /\ s \in Range(lists[c].free)
  BY <1>2, <1>4, <1>5, <1>6, FreshLists
<1>9. Linked(ls, slabs)
  <2>1. \A d \in Caches : \A t \in Range(lists[d].full) : Exhausted(slabs[t])
    BY <1>1 DEF Linked
  <2>. QED BY <1>1, <1>5, <1>7, <1>8, <2>1, Relinked
<1>10. s \in DOMAIN slabs
  BY <1>1, <1>5, <1>8, OnList
<1>11. Walk(Top, ls)
  BY <1>0 DEF Walk
<1>12. CASE Clear(s) # {}
  BY <1>0, <1>4, <1>9, <1>10, <1>11, <1>12, TakeStep
<1>13. CASE Clear(s) = {}
  BY <1>4, <1>13 DEF Panic, SlabInv
<1>. QED BY <1>12, <1>13

LEMMA ScanMissStep == SlabInv /\ ScanMiss => SlabInv'
<1>. SUFFICES ASSUME SlabInv, ScanMiss PROVE SlabInv'
  OBVIOUS
<1>0. stack # <<>> /\ Top.pc = "scan" /\ Clear(Top.slab) = {}
  BY DEF ScanMiss, Running
<1>1. /\ stack \in Seq(Frames) /\ Top = stack[1] /\ Top \in Frames /\ Len(stack) \in Nat \ {0}
      /\ Top.cache \in Caches /\ Walk(Top, lists) /\ Linked(lists, slabs)
  BY <1>0, TopFacts
<1>2. PICK c, s, full : c = Top.cache /\ s = Top.slab /\ full = lists[c].full
  OBVIOUS
<1>3. PICK x : x = [stack[1] EXCEPT !.pc = IF full = <<>> THEN "fresh" ELSE "scan",
                                    !.slab = IF full = <<>> THEN NULL ELSE Head(full)]
  OBVIOUS
<1>4. PICK l : l = ToFull(lists[c], s)
  OBVIOUS
<1>5. /\ lists' = [lists EXCEPT ![c] = l] /\ stack' = [stack EXCEPT ![1] = x]
      /\ UNCHANGED <<slabs, heap, held, own>>
  <2>1. lists' = [lists EXCEPT ![c] = l]
    BY <1>1, <1>2, <1>4 DEF ScanMiss, Linked
  <2>2. stack' = [stack EXCEPT ![1] = x]
    BY <1>1, <1>2, <1>3 DEF ScanMiss
  <2>. QED BY <2>1, <2>2 DEF ScanMiss
<1>6. Three(lists[c]) /\ lists \in [Caches -> Triples] /\ c \in Caches /\ full \in Seq(Nat)
  BY <1>1, <1>2 DEF Linked, Triples
<1>7. s \in Range(lists[c].full) \cup Range(lists[c].partial)
  BY <1>0, <1>1, <1>2 DEF Walk
<1>8. /\ l \in Triples /\ Three(l) /\ All(l) = All(lists[c])
      /\ Range(l.full) = Range(lists[c].full) \cup {s}
  BY <1>4, <1>6, <1>7, ToFullLists
<1>9. s \in DOMAIN slabs /\ slabs[s].cache = c
  BY <1>1, <1>6, <1>7, OnList
<1>10. Exhausted(slabs[s])
  BY <1>0, <1>2, <1>9 DEF Exhausted, Clear, Cache
<1>11. Linked(lists', slabs)
  <2>1. \A d \in Caches : \A t \in Range(lists[d].full) : Exhausted(slabs[t])
    BY <1>1 DEF Linked
  <2>2. \A t \in Range(l.full) : Exhausted(slabs[t])
    BY <1>6, <1>8, <1>10, <2>1
  <2>. QED BY <1>1, <1>5, <1>6, <1>8, <2>1, <2>2, Relinked
<1>12. lists'[c] = l
  BY <1>5, <1>6
<1>13. x \in Frames /\ x.cache = c /\ Walk(x, lists')
  <2>1. CASE full = <<>>
    <3>1. x = [Top EXCEPT !.pc = "fresh", !.slab = NULL]
      BY <1>1, <1>3, <2>1
    <3>. QED BY <1>1, <1>2, <3>1 DEF Frames, Walk
  <2>2. CASE full # <<>>
    <3>1. Head(full) \in Nat /\ Head(full) \in Range(lists[c].full)
      BY <1>2, <1>6, <2>2 DEF Range
    <3>2. x = [Top EXCEPT !.pc = "scan", !.slab = Head(full)]
      BY <1>1, <1>3, <2>2
    <3>3. x \in Frames /\ x.cache = c /\ x.pc = "scan" /\ x.slab = Head(full)
      BY <1>1, <1>2, <3>1, <3>2 DEF Frames
    <3>. QED BY <1>8, <1>12, <3>1, <3>3 DEF Walk
  <2>. QED BY <2>1, <2>2
<1>14. /\ stack' \in Seq(Frames) /\ Len(stack') = Len(stack) /\ stack'[1] = x
       /\ \A k \in 2 .. Len(stack') : stack'[k] = stack[k]
  BY <1>1, <1>5, <1>13
<1>15. Calls(stack', lists')
  BY <1>13, <1>14 DEF Calls, SlabInv
<1>16. GrowthApart(slabs, stack', heap)
  <2>1. GrowthApart(slabs, stack, heap)
    BY DEF SlabInv
  <2>. QED BY <1>14, <2>1, GrowthSame
<1>. QED BY <1>5, <1>11, <1>15, <1>16 DEF SlabInv

\* The heap has grown.
LEMMA HigherHeap ==
    ASSUME NEW sl, NEW st, NEW ls, NEW h, SlabsTyped(sl), SlabsApart(sl, h), Calls(st, ls),
           GrowthApart(sl, st, h), NEW n \in Nat
    PROVE  SlabsApart(sl, h + n) /\ GrowthApart(sl, st, h + n)
<1>1. h \in Nat /\ h + n \in Nat
  BY DEF SlabsApart
<1>2. ASSUME NEW s \in Nat, NEW c \in Caches, s + Pages[c] <= h PROVE s + Pages[c] <= h + n
  <2>1. Pages[c] \in Nat
    BY Sizes
  <2>. QED BY <1>1, <1>2, <2>1
<1>3. \A s \in DOMAIN sl : s + Pages[sl[s].cache] <= h + n
  BY <1>2, SlabFields DEF SlabsApart
<1>4. \A k \in 2 .. Len(st) : st[k].slab \in Nat /\ st[k].cache \in Caches
  <2>. SUFFICES ASSUME NEW k \in 2 .. Len(st) PROVE st[k].slab \in Nat /\ st[k].cache \in Caches
    OBVIOUS
  <2>1. st \in Seq(Frames) /\ k \in 1 .. Len(st)
    BY DEF Calls
  <2>2. st[k] \in Frames
    BY <2>1
  <2>. QED BY <2>2 DEF Calls, Frames
<1>5. \A k \in 2 .. Len(st) : st[k].slab + Pages[st[k].cache] <= h + n
  BY <1>2, <1>4 DEF GrowthApart
<1>. QED BY <1>1, <1>3, <1>5 DEF SlabsApart, GrowthApart

LEMMA GrowStep == SlabInv /\ Grow => SlabInv'
<1>. SUFFICES ASSUME SlabInv, Grow PROVE SlabInv'
  OBVIOUS
<1>0. stack # <<>>
  BY DEF Grow, Running
<1>1. /\ stack \in Seq(Frames) /\ Top = stack[1] /\ Top \in Frames /\ Len(stack) \in Nat \ {0}
      /\ Top.cache \in Caches /\ Walk(Top, lists) /\ Linked(lists, slabs)
  BY <1>0, TopFacts
<1>2. PICK c, h : c = Top.cache /\ h = heap + Pages[c]
  OBVIOUS
<1>3. /\ SlabsTyped(slabs) /\ SlabsApart(slabs, heap) /\ GrowthApart(slabs, stack, heap)
      /\ Calls(stack, lists) /\ Objects(slabs, held, own)
  BY DEF SlabInv
<1>4. c \in Caches /\ Pages[c] \in Nat \ {0} /\ heap \in Nat /\ h \in Nat
  BY <1>1, <1>2, <1>3, Sizes DEF SlabsApart
<1>5. SlabsApart(slabs, h) /\ GrowthApart(slabs, stack, h)
  BY <1>2, <1>3, <1>4, HigherHeap
<1>6. lists[c].free = <<>> /\ heap' = h /\ UNCHANGED <<held, own>>
  BY <1>2 DEF Grow
<1>7. \A t \in DOMAIN slabs : Apart(heap, c, t, slabs[t].cache)
  BY <1>3 DEF SlabsApart, Apart
<1>8. \A k \in 2 .. Len(stack) : Apart(stack[k].slab, stack[k].cache, heap, c)
  BY <1>3 DEF GrowthApart, Apart
<1>9. CASE ~ Off(c)
  <2>1. /\ slabs' = NewSlab(slabs, heap, c, {}) /\ lists' = [lists EXCEPT ![c].free = <<heap>>]
        /\ stack' = <<Call(c, lists)>> \o Tail(stack)
    BY <1>2, <1>9 DEF Grow
  <2>2. lists' = FreeFirst(lists, c, heap)
    <3>1. <<heap>> \o <<>> = <<heap>>
      OBVIOUS
    <3>. QED BY <1>4, <1>6, <2>1, <3>1 DEF FreeFirst
  <2>3. Grown(slabs, h, heap, c, lists', slabs')
    <3>1. Room(slabs, heap, c, h)
      BY <1>2, <1>4, <1>7 DEF Room
    <3>2. MayGrow(slabs, h, lists, heap, c, {})
      BY <1>1, <1>3, <1>4, <1>5, <3>1 DEF MayGrow
    <3>3. Grown(slabs, h, heap, c, FreeFirst(lists, c, heap), NewSlab(slabs, heap, c, {}))
      <4>. PICK bits : bits = {}
        OBVIOUS
      <4>. QED BY <3>2, GrownSlabs
    <3>4. slabs' = NewSlab(slabs, heap, c, {})
      BY <2>1
    <3>. QED BY <2>2, <3>3, <3>4
  <2>4. Call(c, lists) \in Frames /\ Walk(Call(c, lists), lists)
    BY <1>1, <1>4, CallStarts
  <2>5. lists'[c].full = lists[c].full /\ lists'[c].partial = lists[c].partial
    BY <1>1, <1>4, <2>1 DEF Linked
  <2>6. Walk(Call(c, lists), lists')
    <3>1. Call(c, lists).cache = c
      BY DEF Call
    <3>. QED BY <2>4, <2>5, <3>1 DEF Walk
  <2>7. /\ stack' \in Seq(Frames) /\ Len(stack') = Len(stack) /\ stack'[1] = Call(c, lists)
        /\ \A k \in 2 .. Len(stack') : stack'[k] = stack[k]
    BY <1>0, <1>1, <2>1, <2>4, NewTop
  <2>8. Calls(stack', lists')
    BY <1>3, <2>6, <2>7 DEF Calls
  <2>9. GrowthApart(slabs', stack', h)
    <3>0. PICK f : f = [k \in 2 .. Len(stack') |-> k]
      OBVIOUS
    <3>1. /\ f \in [2 .. Len(stack') -> 2 .. Len(stack)]
          /\ \A k \in 2 .. Len(stack') : f[k] = k
      BY <2>7, <3>0
    <3>2. \A k, j \in 2 .. Len(stack') : f[k] = f[j] => k = j
      BY <3>1
    <3>3. \A k \in 2 .. Len(stack') : stack'[k].slab = stack[f[k]].slab /\ stack'[k].cache = stack[f[k]].cache
      BY <2>7, <3>1
    <3>4. \A t \in DOMAIN slabs' :
             \/ t \in DOMAIN slabs /\ slabs'[t].cache = slabs[t].cache
             \/ \A k \in 2 .. Len(stack') : Apart(stack'[k].slab, stack'[k].cache, t, slabs'[t].cache)
      <4>. SUFFICES ASSUME NEW t \in DOMAIN slabs', t \notin DOMAIN slabs,
                           NEW k \in 2 .. Len(stack')
           PROVE  Apart(stack'[k].slab, stack'[k].cache, t, slabs'[t].cache)
        BY <2>3 DEF Grown
      <4>1. t = heap /\ slabs'[t].cache = c
        BY <2>3 DEF Grown
      <4>. QED BY <1>8, <2>7, <4>1
    <3>. QED BY <1>5, <3>1, <3>2, <3>3, <3>4, GrowthKept
  <2>10. Objects(slabs', held, own)
    BY <1>3, <2>3, ObjectsKept DEF Grown
  <2>. QED BY <1>6, <2>3, <2>8, <2>9, <2>10 DEF SlabInv, Grown
<1>10. ASSUME UNCHANGED <<slabs, lists, stack>> PROVE SlabInv'
  BY <1>1, <1>3, <1>5, <1>6, <1>10 DEF SlabInv
<1>11. ASSUME UNCHANGED <<slabs, lists>>, NEW d \in Caches,
              stack' = <<Call(d, lists), [Top EXCEPT !.pc = "desc", !.slab = heap]>> \o Tail(stack)
       PROVE  SlabInv'
  <2>. DEFINE x == Call(d, lists)
              y == [Top EXCEPT !.pc = "desc", !.slab = heap]
  <2>1. x \in Frames /\ Walk(x, lists)
    BY <1>1, CallStarts
  <2>2. y \in Frames /\ y.pc = "desc" /\ y.slab = heap /\ y.cache = c
    BY <1>1, <1>2, <1>4 DEF Frames
  <2>. HIDE DEF x, y
  <2>3. stack' = <<x, y>> \o Tail(stack)
    BY <1>11 DEF x, y
  <2>4. /\ stack' \in Seq(Frames) /\ Len(stack') = Len(stack) + 1 /\ stack'[1] = x /\ stack'[2] = y
        /\ \A k \in 3 .. Len(stack') : stack'[k] = stack[k - 1] /\ k - 1 \in 2 .. Len(stack)
    BY <1>0, <1>1, <2>1, <2>2, <2>3, OneMore
  <2>5. \A k \in 2 .. Len(stack') : k = 2 \/ k \in 3 .. Len(stack')
    BY <1>1, <2>4
  <2>6. Calls(stack', lists)
    <3>1. ASSUME NEW k \in 2 .. Len(stack')
          PROVE stack'[k].pc \in {"desc", "used"} /\ stack'[k].slab \in Nat
      <4>1. CASE k = 2
        BY <1>4, <2>2, <2>4, <4>1
      <4>2. CASE k \in 3 .. Len(stack')
        BY <1>3, <2>4, <4>2 DEF Calls
      <4>. QED BY <2>5, <4>1, <4>2
    <3>. QED BY <2>1, <2>4, <3>1 DEF Calls
  <2>7. GrowthApart(slabs, stack', h)
    <3>1. ASSUME NEW k \in 3 .. Len(stack')
          PROVE  /\ stack'[k].slab + Pages[stack'[k].cache] <= h
                 /\ \A t \in DOMAIN slabs : Apart(stack'[k].slab, stack'[k].cache, t, slabs[t].cache)
                 /\ Apart(stack'[k].slab, stack'[k].cache, heap, c)
      BY <1>5, <1>8, <2>4 DEF GrowthApart
    <3>2. ASSUME NEW k \in 3 .. Len(stack'), NEW j \in 3 .. Len(stack'), j # k
          PROVE  Apart(stack'[k].slab, stack'[k].cache, stack'[j].slab, stack'[j].cache)
      <4>1. k - 1 \in 2 .. Len(stack) /\ j - 1 \in 2 .. Len(stack) /\ j - 1 # k - 1
        BY <2>4, <3>2
      <4>2. stack'[k] = stack[k - 1] /\ stack'[j] = stack[j - 1]
        BY <2>4
      <4>3. ASSUME NEW m \in 2 .. Len(stack), NEW n \in 2 .. Len(stack), m # n
            PROVE  Apart(stack[n].slab, stack[n].cache, stack[m].slab, stack[m].cache)
        BY <1>5, <4>3 DEF GrowthApart
      <4>. QED BY <4>1, <4>2, <4>3
    <3>3. stack'[2].slab = heap /\ stack'[2].cache = c
      BY <2>2, <2>4
    <3>4. heap + Pages[c] <= h
      BY <1>2, <1>4
    <3>5. \A k \in 3 .. Len(stack') : Apart(heap, c, stack'[k].slab, stack'[k].cache)
      BY <3>1 DEF Apart
    <3>. SUFFICES ASSUME NEW k \in 2 .. Len(stack')
         PROVE  /\ stack'[k].slab + Pages[stack'[k].cache] <= h
                /\ \A t \in DOMAIN slabs : Apart(stack'[k].slab, stack'[k].cache, t, slabs[t].cache)
                /\ \A j \in 2 .. Len(stack') :
                     j # k => Apart(stack'[k].slab, stack'[k].cache, stack'[j].slab, stack'[j].cache)
      BY DEF GrowthApart
    <3>6. CASE k = 2
      BY <1>7, <2>5, <3>3, <3>4, <3>5, <3>6
    <3>7. CASE k \in 3 .. Len(stack')
      BY <2>5, <3>1, <3>2, <3>3, <3>7
    <3>. QED BY <2>5, <3>6, <3>7
  <2>. QED BY <1>1, <1>3, <1>5, <1>6, <1>11, <2>6, <2>7 DEF SlabInv
<1>12. CASE Off(c)
  <2>. DEFINE desc == IF Size[c] < Page THEN slab_cache ELSE BestFit(DescSize)
  <2>1. /\ UNCHANGED <<slabs, lists>>
        /\ \/ UNCHANGED stack
           \/ /\ desc # NULL
              /\ stack' = <<Call(desc, lists), [Top EXCEPT !.pc = "desc", !.slab = heap]>> \o Tail(stack)
    BY <1>2, <1>12 DEF Grow
  <2>2. desc \in Caches \cup {NULL}
    BY BestFitIn, CachesAssumption
  <2>. HIDE DEF desc
  <2>. QED BY <1>10, <1>11, <2>1, <2>2
<1>. QED BY <1>9, <1>12

LEMMA BeginStep ==
    ASSUME SlabInv, NEW c \in Caches, NEW what, Begin(c, what)
    PROVE  SlabInv'
<1>1. /\ stack' = <<Call(c, lists)>> /\ UNCHANGED <<lists, slabs, heap, held, own>>
  BY DEF Begin
<1>2. Call(c, lists) \in Frames /\ Walk(Call(c, lists), lists)
  BY CallStarts DEF SlabInv
<1>3. Calls(stack', lists) /\ GrowthApart(slabs, stack', heap)
  <2>. PICK x : x = Call(c, lists)
    OBVIOUS
  <2>1. x \in Frames /\ Walk(x, lists) /\ stack' = <<x>>
    BY <1>1, <1>2
  <2>2. stack' \in Seq(Frames) /\ stack'[1] = x /\ 2 .. Len(stack') = {}
    BY <2>1
  <2>. QED BY <2>1, <2>2 DEF Calls, GrowthApart
<1>. QED BY <1>1, <1>3 DEF SlabInv

\* A free clears at most the bit of the object given back: the other holders keep theirs.
LEMMA FreeStep ==
    ASSUME SlabInv, NEW h \in held, NEW cs \in SUBSET Caches, FreeObject(h, cs)
    PROVE  SlabInv'
<1>1. /\ SlabsTyped(slabs) /\ Linked(lists, slabs) /\ SlabsApart(slabs, heap)
      /\ Objects(slabs, held, own)
  BY DEF SlabInv
<1>2. stack = <<>> /\ held' = held \ {h} /\ UNCHANGED <<heap, stack, own>>
  BY DEF FreeObject, Idle
<1>3. ASSUME NEW ls PROVE Calls(<<>>, ls)
  <2>1. <<>> \in Seq(Frames) /\ 2 .. Len(<<>>) = {}
    OBVIOUS
  <2>. QED BY <2>1 DEF Calls
<1>4. ASSUME NEW sl PROVE GrowthApart(sl, <<>>, heap)
  <2>1. 2 .. Len(<<>>) = {}
    OBVIOUS
  <2>. QED BY <2>1 DEF GrowthApart
<1>5. PICK a : a = h.addr
  OBVIOUS
<1>6. PICK hits : hits = {c \in cs : Claimants(c, a) # {}}
  OBVIOUS
<1>7. CASE hits = {}
  <2>1. UNCHANGED <<lists, slabs>>
    BY <1>5, <1>6, <1>7 DEF FreeObject
  <2>2. Objects(slabs, held \ {h}, own)
    BY <1>1 DEF Objects
  <2>. QED BY <1>1, <1>2, <1>3, <1>4, <2>1, <2>2 DEF SlabInv
<1>8. CASE hits # {}
  <2>1. PICK c : c = First(Order, hits)
    OBVIOUS
  <2>2. c \in Caches /\ c \in hits
    <3>1. Order \in Seq(Caches) /\ Range(Order) = Caches
      BY CachesAssumption DEF Caches
    <3>2. Range(Order) \cap hits # {}
      BY <1>6, <1>8, <3>1
    <3>. QED BY <2>1, <3>1, <3>2, FirstIn
  <2>3. PICK s : s = First(Searched(c), Claimants(c, a))
    OBVIOUS
  <2>4. Searched(c) \in Seq(Nat) /\ Range(Searched(c)) = Range(lists[c].full) \cup Range(lists[c].partial)
    <3>1. lists[c].full \in Seq(Nat) /\ lists[c].partial \in Seq(Nat)
      BY <1>1, <2>2, LinkedLists
    <3>. QED BY <3>1, JoinLists DEF Searched
  <2>5. s \in Range(Searched(c)) /\ Claims(s, a)
    <3>1. Range(Searched(c)) \cap Claimants(c, a) # {}
      BY <1>6, <2>2 DEF Claimants
    <3>2. s \in Range(Searched(c)) \cap Claimants(c, a)
      BY <2>3, <2>4, <3>1, FirstIn
    <3>. QED BY <3>2 DEF Claimants
  <2>6. s \in DOMAIN slabs /\ slabs[s].cache = c
    BY <1>1, <2>2, <2>4, <2>5, OnList
  <2>7. PICK i, used : i = Index(s, a) /\ used = slabs[s].used \ {i}
    OBVIOUS
  <2>8. /\ slabs' = [slabs EXCEPT ![s].used = used]
        /\ \E free \in IsSlabFree(c, used) : lists' = [lists EXCEPT ![c] = AfterFree(@, s, free)]
    <3>. DEFINE H == {d \in cs : Claimants(d, h.addr) # {}}
                C == First(Order, H)
                S == First(Searched(C), Claimants(C, h.addr))
                U == ClearBit(slabs[S].used, Index(S, h.addr))
    <3>1. IF H = {} THEN UNCHANGED <<lists, slabs>>
          ELSE /\ slabs' = [slabs EXCEPT ![S].used = U]
               /\ \E free \in IsSlabFree(C, U) : lists' = [lists EXCEPT ![C] = AfterFree(@, S, free)]
      BY DEF FreeObject
    <3>2. H = hits
      BY <1>5, <1>6
    <3>. HIDE DEF H
    <3>3. C = c
      BY <2>1, <3>2
    <3>. HIDE DEF C
    <3>4. S = s
      BY <1>5, <2>3, <3>3
    <3>. HIDE DEF S
    <3>5. U = used
      BY <1>5, <2>7, <3>4 DEF ClearBit
    <3>. HIDE DEF U
    <3>. QED BY <1>8, <3>1, <3>2, <3>3, <3>4, <3>5
  <2>9. PICK free \in BOOLEAN : lists' = [lists EXCEPT ![c] = AfterFree(@, s, free)]
    BY <2>8 DEF IsSlabFree
  <2>10. s \in Nat /\ slabs[s] \in Slabs /\ slabs[s].used \subseteq Nat
    BY <1>1, <2>6, SlabFields DEF SlabsTyped
  <2>11. /\ DOMAIN slabs' = DOMAIN slabs /\ slabs'[s] = [slabs[s] EXCEPT !.used = used]
         /\ \A t \in DOMAIN slabs \ {s} : slabs'[t] = slabs[t]
    BY <2>6, <2>8
  <2>12. slabs'[s] \in Slabs /\ slabs'[s].cache = c /\ slabs'[s].used = slabs[s].used \ {i}
    BY <2>6, <2>7, <2>10, <2>11 DEF Slabs
  <2>13. \A t \in DOMAIN slabs : slabs'[t].cache = slabs[t].cache
    BY <2>6, <2>11, <2>12
  <2>14. SlabsTyped(slabs')
    BY <1>1, <2>11, <2>12 DEF SlabsTyped
  <2>15. SlabsApart(slabs', heap)
    BY <1>1, <2>11, <2>13 DEF SlabsApart
  <2>16. Linked(lists', slabs')
    <3>1. PICK l : l = AfterFree(lists[c], s, free)
      OBVIOUS
    <3>2. Three(lists[c]) /\ lists \in [Caches -> Triples]
      BY <1>1, <2>2 DEF Linked, Triples
    <3>3. /\ l \in Triples /\ Three(l) /\ All(l) = All(lists[c])
          /\ Range(l.full) = Range(lists[c].full) \ {s}
      BY <2>4, <2>5, <3>1, <3>2, AfterFreeLists
    <3>4. lists' = [lists EXCEPT ![c] = l]
      BY <2>2, <2>9, <3>1, <3>2
    <3>5. ASSUME NEW d \in Caches, NEW t \in Range(lists[d].full), t # s PROVE Exhausted(slabs'[t])
      <4>1. Exhausted(slabs[t]) /\ t \in DOMAIN slabs
        BY <1>1, <3>5, OnList DEF Linked
      <4>. QED BY <2>11, <3>5, <4>1
    <3>6. \A t \in Range(l.full) : Exhausted(slabs'[t])
      BY <2>2, <3>3, <3>5
    <3>7. \A d \in Caches \ {c} : \A t \in Range(lists[d].full) : Exhausted(slabs'[t])
      <4>. SUFFICES ASSUME NEW d \in Caches \ {c}, NEW t \in Range(lists[d].full) PROVE Exhausted(slabs'[t])
        OBVIOUS
      <4>1. slabs[t].cache = d
        BY <1>1, OnList
      <4>. QED BY <2>6, <3>5, <4>1
    <3>. QED BY <1>1, <2>2, <2>11, <2>13, <3>3, <3>4, <3>6, <3>7, Relinked
  <2>17. PICK u, j : u \in DOMAIN slabs /\
           j \in slabs[u].used /\ j < Objs[slabs[u].cache] /\ a = At(slabs[u].cache, u, j)
    BY <1>1, <1>5 DEF Objects, MarkedIn
  <2>18. i = Objs[c] \/ (s = u /\ i = j)
    <3>1. j \in Nat
      BY <1>1, <2>17, SlabFields
    <3>. QED BY <1>1, <2>5, <2>6, <2>7, <2>17, <3>1, ClaimedIndex DEF Cache
  <2>19. ASSUME NEW b, MarkedIn(slabs, b), b # a PROVE MarkedIn(slabs', b)
    <3>1. PICK t, k : t \in DOMAIN slabs /\
            k \in slabs[t].used /\ k < Objs[slabs[t].cache] /\ b = At(slabs[t].cache, t, k)
      BY <2>19 DEF MarkedIn
    <3>2. k \in Nat /\ Objs[c] \in Int
      BY <1>1, <2>2, <3>1, SlabFields, Sizes
    <3>3. ~ (t = s /\ k = i)
      <4>. SUFFICES ASSUME t = s, k = i PROVE FALSE
        OBVIOUS
      <4>1. CASE i = Objs[c]
        BY <2>6, <3>1, <3>2, <4>1
      <4>2. CASE s = u /\ i = j
        BY <2>17, <2>19, <3>1, <4>2
      <4>. QED BY <2>18, <4>1, <4>2
    <3>4. t \in DOMAIN slabs' /\ k \in slabs'[t].used /\ slabs'[t].cache = slabs[t].cache
      BY <2>11, <2>12, <2>13, <3>1, <3>3
    <3>. QED BY <3>1, <3>4 DEF MarkedIn
  <2>20. Objects(slabs', held \ {h}, own)
    <3>1. a \notin own /\ \A g \in held \ {h} : g.addr # a
      BY <1>1, <1>5 DEF Objects
    <3>. QED BY <1>1, <2>19, <3>1 DEF Objects
  <2>. QED BY <1>2, <1>3, <1>4, <2>14, <2>15, <2>16, <2>20 DEF SlabInv
<1>. QED BY <1>7, <1>8

LEMMA SetToSeqFacts ==
    ASSUME NEW S \in SUBSET Nat, IsFiniteSet(S)
    PROVE  SetToSeq(S) \in Seq(Nat) /\ IsInjective(SetToSeq(S)) /\ Range(SetToSeq(S)) = S
<1>. DEFINE n == Cardinality(S)
            g == SetToSeq(S)
<1>1. n \in Nat /\ ExistsBijection(1 .. n, S)
  BY FS_CardinalityType
<1>2. \E f \in [1 .. n -> S] : IsInjective(f)
  BY <1>1 DEF ExistsBijection, Bijection, Injection
<1>3. g \in [1 .. n -> S] /\ IsInjective(g)
  BY <1>2 DEF SetToSeq
<1>. HIDE DEF g
<1>4. g \in Injection(1 .. n, S)
  BY <1>3 DEF Injection
<1>5. Cardinality(1 .. n) = n
  <2>. HIDE DEF n
  <2>. QED BY <1>1, FS_Interval
<1>6. g \in Surjection(1 .. n, S)
  BY <1>4, <1>5, FS_Injection
<1>7. Range(g) = S
  BY <1>3, <1>6 DEF Surjection, Range
<1>8. g \in Seq(Nat)
  <2>1. g \in [1 .. n -> Nat]
    BY <1>3
  <2>. HIDE DEF n
  <2>. QED BY <1>1, <2>1
<1>. QED BY <1>3, <1>7, <1>8 DEF g

LEMMA InitInv == Init => SlabInv
<1>. SUFFICES ASSUME Init PROVE SlabInv
  OBVIOUS
<1>1. /\ slabs = [s \in 0 .. (Len(Boot) - 1) |-> Boot[s + 1]]
      /\ lists = [c \in Caches |->
            [full |-> <<>>, partial |-> <<>>, free |-> SetToSeq({s \in DOMAIN slabs : Cache(s) = c})]]
      /\ heap = Len(Boot) /\ stack = <<>> /\ held = {}
      /\ own = UNION {{Addr(s, i) : i \in slabs[s].used} : s \in DOMAIN slabs}
  BY DEF Init
<1>2. Boot \in Seq(Slabs) /\ Len(Boot) \in Nat
  BY BootAssumption DEF Slabs
<1>3. PICK n : n = Len(Boot)
  OBVIOUS
<1>4. /\ n \in Nat /\ heap = n /\ DOMAIN slabs = 0 .. (n - 1)
      /\ \A s \in 0 .. (n - 1) : s + 1 \in DOMAIN Boot /\ slabs[s] = Boot[s + 1]
  BY <1>1, <1>2, <1>3
<1>5. \A b \in DOMAIN Boot : /\ Boot[b] \in Slabs /\ Pages[Boot[b].cache] = 1
                             /\ \A i \in Boot[b].used : i < Objs[Boot[b].cache]
  BY <1>2, BootAssumption
<1>6. ASSUME NEW s \in DOMAIN slabs
      PROVE  /\ s \in Nat /\ s + 1 <= n /\ slabs[s] \in Slabs /\ Pages[slabs[s].cache] = 1
             /\ \A i \in slabs[s].used : i < Objs[slabs[s].cache]
  <2>1. s \in 0 .. (n - 1) /\ s + 1 \in DOMAIN Boot /\ slabs[s] = Boot[s + 1]
    BY <1>4
  <2>2. s \in Nat /\ s + 1 <= n
    BY <1>4, <2>1
  <2>. QED BY <1>5, <2>1, <2>2
<1>7. SlabsTyped(slabs)
  BY <1>6 DEF SlabsTyped
<1>8. SlabsApart(slabs, heap)
  <2>1. \A s \in DOMAIN slabs : s + Pages[slabs[s].cache] <= n
    BY <1>6
  <2>2. ASSUME NEW s \in DOMAIN slabs, NEW t \in DOMAIN slabs, s # t
        PROVE  Apart(s, slabs[s].cache, t, slabs[t].cache)
    <3>1. s + 1 <= t \/ t + 1 <= s
      BY <1>6, <2>2
    <3>. QED BY <1>6, <3>1 DEF Apart
  <2>. QED BY <1>4, <2>1, <2>2 DEF SlabsApart
<1>9. ASSUME NEW c \in Caches
      PROVE  /\ lists[c] \in Triples /\ Three(lists[c]) /\ All(lists[c]) = SlabsOf(slabs, c)
             /\ Range(lists[c].full) = {}
  <2>1. PICK S : S = {s \in DOMAIN slabs : Cache(s) = c}
    OBVIOUS
  <2>2. lists[c] = [full |-> <<>>, partial |-> <<>>, free |-> SetToSeq(S)]
    BY <1>1, <2>1
  <2>3. S \in SUBSET Nat /\ S = SlabsOf(slabs, c)
    BY <1>6, <2>1 DEF SlabsOf, Cache
  <2>4. IsFiniteSet(S)
    <3>1. \A s \in S : s <= n
      BY <1>4, <1>6, <2>1
    <3>. QED BY <1>4, <2>3, <3>1, FS_BoundedSetOfNaturals
  <2>5. PICK q : q = SetToSeq(S)
    OBVIOUS
  <2>6. q \in Seq(Nat) /\ IsInjective(q) /\ Range(q) = S
    BY <2>3, <2>4, <2>5, SetToSeqFacts
  <2>7. <<>> \in Seq(Nat) /\ IsInjective(<<>>) /\ Range(<<>>) = {}
    BY DEF IsInjective, Range
  <2>8. lists[c] \in Triples /\ lists[c].full = <<>> /\ lists[c].partial = <<>> /\ lists[c].free = q
    BY <2>2, <2>5, <2>6, <2>7 DEF Triples
  <2>. QED BY <2>3, <2>6, <2>7, <2>8 DEF Three, All, Triples
<1>10. Linked(lists, slabs)
  <2>1. lists \in [Caches -> Triples]
    <3>1. lists = [c \in Caches |-> lists[c]]
      BY <1>1
    <3>. QED BY <1>9, <3>1
  <2>. QED BY <1>9, <2>1 DEF Linked, Triples
<1>11. Calls(stack, lists) /\ GrowthApart(slabs, stack, heap)
  <2>1. stack \in Seq(Frames) /\ 2 .. Len(stack) = {} /\ stack = <<>>
    BY <1>1
  <2>. QED BY <2>1 DEF Calls, GrowthApart
<1>12. Objects(slabs, held, own)
  <2>1. ASSUME NEW a \in own PROVE MarkedIn(slabs, a)
    <3>1. PICK s, i : s \in DOMAIN slabs /\ i \in slabs[s].used /\ a = Addr(s, i)
      BY <1>1, <2>1
    <3>2. a = At(slabs[s].cache, s, i)
      BY <3>1 DEF Addr, At, Start, Cache
    <3>. QED BY <1>6, <3>1, <3>2 DEF MarkedIn
  <2>. QED BY <1>1, <2>1 DEF Objects
<1>. QED BY <1>7, <1>8, <1>10, <1>11, <1>12 DEF SlabInv

LEMMA NextInv == SlabInv /\ [Next]_vars => SlabInv'
<1>. SUFFICES ASSUME SlabInv, [Next]_vars PROVE SlabInv'
  OBVIOUS
<1>1. ASSUME NEW c \in Caches, Request(c) PROVE SlabInv'
  BY <1>1, BeginStep DEF Request
<1>2. ASSUME NEW n \in Requests, Kmalloc(n) PROVE SlabInv'
  <2>1. BestFit(n) \in Caches /\ Begin(BestFit(n), n)
    BY <1>2, BestFitIn DEF Kmalloc
  <2>. QED BY <2>1, BeginStep
<1>3. CASE ScanHit
  BY <1>3, ScanHitStep
<1>4. CASE ScanMiss
  BY <1>4, ScanMissStep
<1>5. CASE TakeFree
  BY <1>5, TakeFreeStep
<1>6. CASE Grow
  BY <1>6, GrowStep
<1>7. CASE GrowPanic
  BY <1>7 DEF GrowPanic, Panic, SlabInv
<1>8. ASSUME NEW h \in held, FreeTyped(h) PROVE SlabInv'
  <2>1. {h.how} \in SUBSET Caches /\ FreeObject(h, {h.how})
    BY <1>8, CachesAssumption DEF FreeTyped
  <2>. QED BY <2>1, FreeStep
<1>9. ASSUME NEW h \in held, Kfree(h) PROVE SlabInv'
  <2>1. Caches \ NoMalloc \in SUBSET Caches /\ FreeObject(h, Caches \ NoMalloc)
    BY <1>9 DEF Kfree
  <2>. QED BY <2>1, FreeStep
<1>10. ASSUME NEW h \in held, KfreeHint(h) PROVE SlabInv'
  <2>. PICK cs : cs = {c \in Caches : Size[c] >= h.how}
    OBVIOUS
  <2>1. cs \in SUBSET Caches /\ FreeObject(h, cs)
    BY <1>10 DEF KfreeHint
  <2>. QED BY <2>1, FreeStep
<1>11. CASE UNCHANGED vars
  BY <1>11 DEF vars, SlabInv
<1>. QED BY <1>1, <1>2, <1>3, <1>4, <1>5, <1>6, <1>7, <1>8, <1>9, <1>10, <1>11 DEF Next, Alloc

LEMMA Invariance == Spec => []SlabInv
<1>. QED BY InitInv, NextInv, PTL DEF Spec
-----------------------------------------------------------------------------
(***************************************************************************)
(* The properties.                                                         *)
(***************************************************************************)
LEMMA OneListHolds == SlabInv => OneList
<1>. SUFFICES ASSUME SlabInv, NEW c \in Caches
     PROVE  /\ IsInjective(Listed(c))
            /\ Range(Listed(c)) = {s \in DOMAIN slabs : Cache(s) = c}
            /\ \A s \in Range(lists[c].full) : Clear(s) = {}
  BY DEF OneList
<1>1. Linked(lists, slabs)
  BY DEF SlabInv
<1>2. PICK f, p, e : f = lists[c].full /\ p = lists[c].partial /\ e = lists[c].free
  OBVIOUS
<1>3. f \in Seq(Nat) /\ p \in Seq(Nat) /\ e \in Seq(Nat)
  BY <1>1, <1>2, LinkedLists
<1>4. /\ IsInjective(f) /\ IsInjective(p) /\ IsInjective(e)
      /\ Range(f) \cap Range(p) = {} /\ Range(f) \cap Range(e) = {} /\ Range(p) \cap Range(e) = {}
      /\ Range(f) \cup Range(p) \cup Range(e) = SlabsOf(slabs, c)
  BY <1>1, <1>2 DEF Linked, Three, All
<1>5. f \o p \in Seq(Nat) /\ Range(f \o p) = Range(f) \cup Range(p) /\ IsInjective(f \o p)
  BY <1>3, <1>4, JoinLists
<1>6. PICK q : q = f \o p
  OBVIOUS
<1>7. Range(q \o e) = Range(q) \cup Range(e) /\ IsInjective(q \o e)
  <2>1. q \in Seq(Nat) /\ Range(q) \cap Range(e) = {} /\ IsInjective(q)
    BY <1>4, <1>5, <1>6
  <2>. QED BY <1>3, <1>4, <2>1, JoinLists
<1>8. Listed(c) = q \o e
  BY <1>2, <1>6 DEF Listed
<1>9. ASSUME NEW s \in Range(lists[c].full) PROVE Clear(s) = {}
  BY <1>1, <1>9 DEF Linked, Exhausted, Clear, Cache
<1>. QED BY <1>4, <1>5, <1>6, <1>7, <1>8, <1>9 DEF SlabsOf, Cache

LEMMA LiveIn == SlabInv => \A a \in Live : MarkedIn(slabs, a)
BY DEF SlabInv, Objects, Live

LEMMA LiveMarkedHolds == SlabInv => LiveMarked
<1>. SUFFICES ASSUME SlabInv, NEW a \in Live PROVE Marked(a)
  BY DEF LiveMarked
<1>1. PICK s, i : /\ s \in DOMAIN slabs /\ i \in slabs[s].used /\ i < Objs[slabs[s].cache]
                  /\ a = At(slabs[s].cache, s, i)
  BY LiveIn DEF MarkedIn
<1>2. a = Addr(s, i)
  BY <1>1 DEF At, Addr, Start, Cache
<1>. QED BY <1>1, <1>2 DEF Marked, Cache

\* The slab an address lies in is found again.
LEMMA ExtentIs ==
    ASSUME SlabInv, NEW s \in DOMAIN slabs, NEW i \in Nat, i < Objs[slabs[s].cache], NEW a,
           a = At(slabs[s].cache, s, i)
    PROVE  Extent(a) = a .. (a + Size[slabs[s].cache] - 1)
<1>. DEFINE P(t) == t * Page <= a /\ a < (t + Pages[Cache(t)]) * Page
<1>1. SlabsTyped(slabs) /\ SlabsApart(slabs, heap)
  BY DEF SlabInv
<1>2. PICK c : c = slabs[s].cache
  OBVIOUS
<1>3. s \in Nat /\ c \in Caches
  BY <1>1, <1>2, SlabFields
<1>4. /\ a \in Nat /\ s * Page \in Nat /\ s * Page + Header[c] <= a
      /\ a + Size[c] <= (s + Pages[c]) * Page /\ (s + Pages[c]) * Page \in Nat
  BY <1>2, <1>3, Inside
<1>5. Header[c] \in Nat /\ Size[c] \in Nat \ {0} /\ Page \in Nat \ {0} /\ Pages[c] \in Nat \ {0}
  BY <1>3, Sizes
<1>6. P(s)
  BY <1>2, <1>4, <1>5 DEF Cache
<1>7. ASSUME NEW t \in DOMAIN slabs, P(t), t # s PROVE FALSE
  <2>1. PICK d : d = slabs[t].cache
    OBVIOUS
  <2>2. t \in Nat /\ d \in Caches
    BY <1>1, <2>1, SlabFields
  <2>3. Pages[d] \in Nat \ {0}
    BY <2>2, Sizes
  <2>4. t * Page <= a /\ a < (t + Pages[d]) * Page
    BY <1>7, <2>1 DEF Cache
  <2>5. t * Page \in Nat /\ (t + Pages[d]) * Page \in Nat
    BY <1>5, <2>2, <2>3
  <2>6. CASE s + Pages[c] <= t
    <3>1. (s + Pages[c]) * Page <= t * Page
      BY <1>3, <1>5, <2>2, <2>6, Times
    <3>. QED BY <1>4, <1>5, <2>4, <2>5, <3>1
  <2>7. CASE t + Pages[d] <= s
    <3>1. (t + Pages[d]) * Page <= s * Page
      BY <1>3, <1>5, <2>2, <2>3, <2>7, Times
    <3>. QED BY <1>4, <1>5, <2>4, <2>5, <3>1
  <2>8. Apart(s, c, t, d)
    BY <1>1, <1>2, <1>7, <2>1 DEF SlabsApart
  <2>. QED BY <2>6, <2>7, <2>8 DEF Apart
<1>8. PICK u : u = CHOOSE t \in DOMAIN slabs : P(t)
  OBVIOUS
<1>9. u \in DOMAIN slabs /\ P(u)
  BY <1>6, <1>8
<1>10. u = s
  BY <1>7, <1>9
<1>11. Extent(a) = a .. (a + Size[Cache(u)] - 1)
  BY <1>8 DEF Extent
<1>. QED BY <1>10, <1>11 DEF Cache

LEMMA NoOverlapHolds == SlabInv => NoOverlap
<1>. SUFFICES ASSUME SlabInv, NEW a \in Live
     PROVE  /\ \E s \in DOMAIN slabs :
                  Extent(a) \subseteq Start(s) .. ((s + Pages[Cache(s)]) * Page - 1)
            /\ \A b \in Live \ {a} : Extent(a) \cap Extent(b) = {}
  BY DEF NoOverlap
<1>0. SlabsTyped(slabs) /\ SlabsApart(slabs, heap)
  BY DEF SlabInv
<1>1. PICK s, i : /\ s \in DOMAIN slabs /\ i \in slabs[s].used /\ i < Objs[slabs[s].cache]
                  /\ a = At(slabs[s].cache, s, i)
  BY LiveIn DEF MarkedIn
<1>2. PICK c : c = slabs[s].cache
  OBVIOUS
<1>3. s \in Nat /\ c \in Caches /\ i \in Nat
  BY <1>0, <1>1, <1>2, SlabFields
<1>4. Extent(a) = a .. (a + Size[c] - 1)
  BY <1>1, <1>2, <1>3, ExtentIs
<1>5. /\ a \in Nat /\ s * Page \in Nat /\ s * Page + Header[c] <= a
      /\ a + Size[c] <= (s + Pages[c]) * Page /\ (s + Pages[c]) * Page \in Nat
  BY <1>1, <1>2, <1>3, Inside
<1>6. Header[c] \in Nat /\ Size[c] \in Nat \ {0}
  BY <1>3, Sizes
<1>7. Extent(a) \subseteq Start(s) .. ((s + Pages[Cache(s)]) * Page - 1)
  <2>1. PICK lo, hi : lo = s * Page + Header[c] /\ hi = (s + Pages[c]) * Page
    OBVIOUS
  <2>2. lo \in Nat /\ hi \in Nat /\ lo <= a /\ a + Size[c] <= hi
    BY <1>5, <1>6, <2>1
  <2>3. a .. (a + Size[c] - 1) \subseteq lo .. (hi - 1)
    BY <1>5, <1>6, <2>2
  <2>4. Start(s) = lo /\ (s + Pages[Cache(s)]) * Page = hi
    BY <1>2, <2>1 DEF Start, Cache
  <2>. QED BY <1>4, <2>3, <2>4
<1>8. ASSUME NEW b \in Live, b # a PROVE Extent(a) \cap Extent(b) = {}
  <2>1. PICK t, j : /\ t \in DOMAIN slabs /\ j \in slabs[t].used /\ j < Objs[slabs[t].cache]
                    /\ b = At(slabs[t].cache, t, j)
    BY LiveIn DEF MarkedIn
  <2>2. PICK d : d = slabs[t].cache
    OBVIOUS
  <2>3. t \in Nat /\ d \in Caches /\ j \in Nat
    BY <1>0, <2>1, <2>2, SlabFields
  <2>4. Extent(b) = b .. (b + Size[d] - 1)
    BY <2>1, <2>2, <2>3, ExtentIs
  <2>5. b \in Nat /\ Size[d] \in Nat \ {0}
    BY <2>1, <2>2, <2>3, Inside, Sizes
  <2>6. (s = t /\ c = d /\ i # j) \/ Apart(s, c, t, d)
    <3>1. CASE s = t
      BY <1>1, <1>2, <1>8, <2>1, <2>2, <3>1
    <3>2. CASE s # t
      BY <1>0, <1>1, <1>2, <2>1, <2>2, <3>2 DEF SlabsApart
    <3>. QED BY <3>1, <3>2
  <2>7. a + Size[c] <= b \/ b + Size[d] <= a
    BY <1>1, <1>2, <1>3, <2>1, <2>2, <2>3, <2>6, ObjectsApart
  <2>8. a .. (a + Size[c] - 1) \cap b .. (b + Size[d] - 1) = {}
    BY <1>5, <1>6, <2>5, <2>7
  <2>. QED BY <1>4, <2>4, <2>8
<1>. QED BY <1>1, <1>7, <1>8

\* No step of alloc_object_from_cache, growCache or free_object_from_cache loses a slab
\* or links it into two lists, and none leaves a slab with a free object on the full
\* list: for every list of caches and every order of requests and frees.
THEOREM OneListCorrect == Spec => []OneList
BY Invariance, OneListHolds, PTL

\* The bit of every object in use is set, also after the frees that reach beyond the
\* last object of a slab (slab.c:594): no object is given out twice.
THEOREM LiveMarkedCorrect == Spec => []LiveMarked
BY Invariance, LiveMarkedHolds, PTL

\* The objects in use, the allocator's own among them, lie inside their slabs behind
\* descriptor and used array and share no memory, whichever sizes the caches have and
\* however deep growCache is nested.
THEOREM NoOverlapCorrect == Spec => []NoOverlap
BY Invariance, NoOverlapHolds, PTL
=============================================================================
