-------------------------- MODULE VirtualMM_proofs --------------------------
(***************************************************************************)
(* Proofs about VirtualMM: for any number of address spaces, sections and  *)
(* tables the kernel is mapped the same way everywhere, no coarse page     *)
(* table is shared or lost, and the tables implement AddressSpaces.        *)
(***************************************************************************)
EXTENDS VirtualMM, SequenceTheorems, TLAPS

USE CptsAssumption, SetsAssumption

All == Spaces \union {Kernel}

Structs == [tt : [Sections -> 0 .. NCpts], cptds : Seq(Sections), cpts : Seq(Cpts)]
Tables == [Slots -> Pages \union {NoPage}]

Typed ==
    /\ space \in [All -> Structs]
    /\ live \subseteq made /\ made \subseteq Spaces
    /\ mem \in [Cpts -> Tables]
    /\ cpts \subseteq Cpts
    /\ active \in Existing
    /\ ~ booted => made = {}

\* The sections a space lists itself.
Own(s) == IF s = Kernel THEN KernelSections ELSE UserSections

\* The lists cptds and cpts name the tables of the sections own, each once: they are in
\* step with each other and with the translation table tt.
Matched(tt, cptds, cs, own) ==
    /\ cptds \in Seq(own) /\ cs \in Seq(Cpts) /\ Len(cptds) = Len(cs)
    /\ tt \in [Sections -> 0 .. NCpts]
    /\ IsInjective(cptds)
    /\ \A i \in 1 .. Len(cptds) : tt[cptds[i]] = cs[i]
    /\ \A sec \in own : tt[sec] # 0 => Listed(cptds, sec)
    /\ \A a, b \in own : tt[a] = tt[b] /\ tt[a] # 0 => a = b

Tidy(as, own) == Matched(as.tt, as.cptds, as.cpts, own)

\* The translation table of a struct, and whether its lists name a section.
Tt(as) == as.tt
Has(as, sec) == Listed(as.cptds, sec)

\* The descriptor of section sec set to the table c.
TtWith(tt, sec, c) == [tt EXCEPT ![sec] = c]

\* The sections of the others: the kernel has none of the user, a space has the kernel's.
Foreign ==
    /\ \A sec \in UserSections : Tt(space[Kernel])[sec] = 0
    /\ \A s \in live, sec \in KernelSections : Tt(space[s])[sec] = Tt(space[Kernel])[sec]

Apart ==
    /\ cpts = UNION {TablesOf(space[s]) : s \in Existing}
    /\ \A s, t \in Existing : s # t => TablesOf(space[s]) \intersect TablesOf(space[t]) = {}

SpaceInv == Typed /\ (\A s \in Existing : Tidy(space[s], Own(s))) /\ Foreign /\ Apart

-----------------------------------------------------------------------------
(***************************************************************************)
(* Linked lists: adding in front, removing an entry, searching.            *)
(***************************************************************************)
LEMMA RangeOf ==
    ASSUME NEW S, NEW s \in Seq(S)
    PROVE  Range(s) = {s[i] : i \in 1 .. Len(s)}
BY DEF Range

LEMMA PrependIs ==
    ASSUME NEW S, NEW s \in Seq(S), NEW e \in S
    PROVE  /\ <<e>> \o s \in Seq(S)
           /\ Len(<<e>> \o s) = Len(s) + 1
           /\ \A i \in 1 .. (Len(s) + 1) : (<<e>> \o s)[i] = IF i = 1 THEN e ELSE s[i - 1]
           /\ Range(<<e>> \o s) = {e} \union Range(s)
<1> DEFINE q == <<e>>
           t == q \o s
<1>1. q \in Seq(S) /\ Len(q) = 1 /\ q[1] = e
  OBVIOUS
<1> HIDE DEF q
<1>2. /\ t \in Seq(S) /\ Len(t) = Len(q) + Len(s)
      /\ \A i \in 1 .. Len(q) + Len(s) : t[i] = IF i <= Len(q) THEN q[i] ELSE s[i - Len(q)]
  BY <1>1, ConcatProperties
<1> HIDE DEF t
<1>3. /\ t \in Seq(S) /\ Len(t) = Len(s) + 1 /\ Len(s) \in Nat
      /\ \A i \in 1 .. (Len(s) + 1) : t[i] = IF i = 1 THEN e ELSE s[i - 1]
  BY <1>1, <1>2
<1>4. Range(t) = {e} \union Range(s)
  <2>1. Range(t) = {t[i] : i \in 1 .. (Len(s) + 1)} /\ Range(s) = {s[i] : i \in 1 .. Len(s)}
    BY <1>3, RangeOf
  <2>2. ASSUME NEW i \in 1 .. Len(s) PROVE s[i] = t[i + 1] /\ i + 1 \in 1 .. (Len(s) + 1)
    BY <1>3
  <2>3. ASSUME NEW i \in 1 .. (Len(s) + 1)
        PROVE  t[i] = e \/ (i - 1 \in 1 .. Len(s) /\ t[i] = s[i - 1])
    BY <1>3
  <2>4. e = t[1] /\ 1 \in 1 .. (Len(s) + 1)
    BY <1>3
  <2>5. ASSUME NEW x \in Range(t) PROVE x \in {e} \union Range(s)
    <3>1. PICK i \in 1 .. (Len(s) + 1) : x = t[i]
      BY <2>1
    <3>2. QED
      BY <2>1, <2>3, <3>1
  <2>6. ASSUME NEW x \in {e} \union Range(s) PROVE x \in Range(t)
    BY <2>1, <2>2, <2>4
  <2>7. QED
    BY <2>5, <2>6
<1>5. QED
  BY <1>3, <1>4 DEF t, q

LEMMA RemoveAtIs ==
    ASSUME NEW S, NEW s \in Seq(S), NEW i \in 1 .. Len(s)
    PROVE  /\ RemoveAt(s, i) \in Seq(S)
           /\ Len(RemoveAt(s, i)) = Len(s) - 1
           /\ \A j \in 1 .. (Len(s) - 1) : RemoveAt(s, i)[j] = IF j < i THEN s[j] ELSE s[j + 1]
<1> DEFINE a == SubSeq(s, 1, i - 1)
           b == SubSeq(s, i + 1, Len(s))
           t == a \o b
<1>1. /\ a \in Seq(S) /\ Len(a) = i - 1 /\ \A j \in 1 .. (i - 1) : a[j] = s[j]
  OBVIOUS
<1>2. /\ b \in Seq(S) /\ Len(b) = Len(s) - i /\ \A j \in 1 .. (Len(s) - i) : b[j] = s[i + j]
  OBVIOUS
<1>3. RemoveAt(s, i) = t
  BY DEF RemoveAt
<1> HIDE DEF a, b
<1>4. /\ t \in Seq(S) /\ Len(t) = Len(a) + Len(b)
      /\ \A j \in 1 .. Len(a) + Len(b) : t[j] = IF j <= Len(a) THEN a[j] ELSE b[j - Len(a)]
  BY <1>1, <1>2, ConcatProperties
<1> HIDE DEF t
<1>5. Len(s) \in Nat /\ Len(t) = Len(s) - 1
  BY <1>1, <1>2, <1>4
<1>6. ASSUME NEW j \in 1 .. (Len(s) - 1)
      PROVE  t[j] = IF j < i THEN s[j] ELSE s[j + 1]
  <2>1. CASE j < i
    BY <1>1, <1>2, <1>4, <1>5, <2>1
  <2>2. CASE ~ (j < i)
    <3>1. j - Len(a) \in 1 .. (Len(s) - i) /\ j \in 1 .. Len(a) + Len(b) /\ ~ (j <= Len(a))
      BY <1>1, <1>2, <1>5, <2>2
    <3>2. t[j] = b[j - Len(a)] /\ b[j - Len(a)] = s[i + (j - Len(a))]
      BY <1>2, <1>4, <3>1
    <3>3. i + (j - Len(a)) = j + 1
      BY <1>1, <1>5
    <3>4. QED
      BY <2>2, <3>2, <3>3
  <2>3. QED
    BY <2>1, <2>2
<1>7. QED
  BY <1>3, <1>4, <1>5, <1>6

\* Every section but the removed one is still listed.
LEMMA RemoveAtKeeps ==
    ASSUME NEW S, NEW s \in Seq(S), NEW i \in 1 .. Len(s), NEW j \in 1 .. Len(s), j # i
    PROVE  \E k \in 1 .. (Len(s) - 1) : RemoveAt(s, i)[k] = s[j]
<1>1. Len(s) \in Nat
  OBVIOUS
<1>2. CASE j < i
  <2>1. j \in 1 .. (Len(s) - 1)
    BY <1>1, <1>2
  <2>2. RemoveAt(s, i)[j] = s[j]
    BY <1>2, <2>1, RemoveAtIs
  <2>3. QED
    BY <2>1, <2>2
<1>3. CASE j > i
  <2>1. j - 1 \in 1 .. (Len(s) - 1) /\ ~ (j - 1 < i) /\ (j - 1) + 1 = j
    BY <1>1, <1>3
  <2>2. RemoveAt(s, i)[j - 1] = s[(j - 1) + 1]
    BY <2>1, RemoveAtIs
  <2>3. QED
    BY <2>1, <2>2
<1>4. QED
  BY <1>1, <1>2, <1>3

-----------------------------------------------------------------------------
(***************************************************************************)
(* A tidy struct.                                                          *)
(***************************************************************************)

\* searchLinkedListEntry and getLinkedListEntry find the table of a listed section.
LEMMA MatchedIndex ==
    ASSUME NEW own \in SUBSET Sections, NEW tt, NEW ds, NEW cs, Matched(tt, ds, cs, own),
           NEW sec, Listed(ds, sec)
    PROVE  /\ sec \in own /\ tt[sec] \in Cpts
           /\ \E k \in 1 .. Len(ds) : Index(ds, sec) = k /\ ds[k] = sec /\ cs[k] = tt[sec]
<1>1. /\ ds \in Seq(own) /\ cs \in Seq(Cpts) /\ Len(ds) = Len(cs) /\ IsInjective(ds)
      /\ \A i \in 1 .. Len(ds) : tt[ds[i]] = cs[i]
  BY DEF Matched
<1>2. PICK i \in 1 .. Len(ds) : ds[i] = sec
  BY DEF Listed, Contains
<1>3. DOMAIN ds = 1 .. Len(ds) /\ Len(ds) \in Nat
  BY <1>1
<1>4. \A j \in 1 .. i - 1 : ds[j] # sec
  BY <1>1, <1>2, <1>3 DEF IsInjective
<1>5. Index(ds, sec) \in 1 .. Len(ds) /\ ds[Index(ds, sec)] = sec
  BY <1>2, <1>3, <1>4 DEF Index
<1>6. cs[Index(ds, sec)] = tt[sec]
  BY <1>1, <1>5
<1>7. \A k \in 1 .. Len(ds) : cs[k] \in Cpts /\ ds[k] \in own
  BY <1>1
<1>8. QED
  BY <1>5, <1>6, <1>7

LEMMA MatchedTables ==
    ASSUME NEW own \in SUBSET Sections, NEW tt, NEW ds, NEW cs, Matched(tt, ds, cs, own)
    PROVE  /\ \A c \in Range(cs) : c \in Cpts /\ \E sec \in own : c = tt[sec]
           /\ \A sec \in own : tt[sec] # 0 => tt[sec] \in Range(cs)
<1>1. /\ ds \in Seq(own) /\ cs \in Seq(Cpts) /\ Len(ds) = Len(cs)
      /\ \A i \in 1 .. Len(ds) : tt[ds[i]] = cs[i]
      /\ \A sec \in own : tt[sec] # 0 => Listed(ds, sec)
  BY DEF Matched
<1>2. Range(cs) = {cs[i] : i \in 1 .. Len(cs)}
  BY <1>1, RangeOf
<1>3. \A i \in 1 .. Len(cs) : ds[i] \in own /\ cs[i] \in Cpts
  BY <1>1
<1>4. ASSUME NEW sec \in own, tt[sec] # 0
      PROVE  tt[sec] \in Range(cs)
  <2>1. Listed(ds, sec)
    BY <1>1, <1>4
  <2>2. \E k \in 1 .. Len(ds) : cs[k] = tt[sec]
    BY <2>1, MatchedIndex
  <2>3. QED
    BY <1>1, <1>2, <2>2
<1>5. ASSUME NEW c \in Range(cs)
      PROVE  c \in Cpts /\ \E sec \in own : c = tt[sec]
  <2>1. PICK i \in 1 .. Len(cs) : c = cs[i]
    BY <1>2
  <2>2. c = tt[ds[i]] /\ ds[i] \in own /\ c \in Cpts
    BY <1>1, <1>3, <2>1
  <2>3. QED
    BY <2>2
<1>6. QED
  BY <1>4, <1>5

\* addLinkedListEntry to both lists, for a section that has no table yet.
LEMMA MatchedAdd ==
    ASSUME NEW own \in SUBSET Sections, NEW tt, NEW ds, NEW cs, Matched(tt, ds, cs, own),
           NEW sec \in own, ~ Listed(ds, sec), NEW c \in Cpts, c \notin Range(cs)
    PROVE  Matched([tt EXCEPT ![sec] = c], <<sec>> \o ds, <<c>> \o cs, own)
<1> DEFINE ds2 == <<sec>> \o ds
           cs2 == <<c>> \o cs
           tt2 == [tt EXCEPT ![sec] = c]
<1>1. /\ ds \in Seq(own) /\ cs \in Seq(Cpts) /\ Len(ds) = Len(cs) /\ IsInjective(ds)
      /\ \A i \in 1 .. Len(ds) : tt[ds[i]] = cs[i]
      /\ tt \in [Sections -> 0 .. NCpts]
      /\ \A a \in own : tt[a] # 0 => Listed(ds, a)
      /\ \A a, b \in own : tt[a] = tt[b] /\ tt[a] # 0 => a = b
  BY DEF Matched
<1>2. /\ ds2 \in Seq(own) /\ Len(ds2) = Len(ds) + 1
      /\ \A i \in 1 .. (Len(ds) + 1) : ds2[i] = IF i = 1 THEN sec ELSE ds[i - 1]
  BY <1>1, PrependIs
<1>3. /\ cs2 \in Seq(Cpts) /\ Len(cs2) = Len(cs) + 1
      /\ \A i \in 1 .. (Len(cs) + 1) : cs2[i] = IF i = 1 THEN c ELSE cs[i - 1]
  BY <1>1, PrependIs
<1>4. /\ tt2 \in [Sections -> 0 .. NCpts] /\ tt2[sec] = c
      /\ \A a \in own : a # sec => tt2[a] = tt[a]
  BY <1>1 DEF Cpts
<1> HIDE DEF ds2, cs2, tt2
<1>5. Len(ds) \in Nat /\ DOMAIN ds = 1 .. Len(ds) /\ DOMAIN ds2 = 1 .. (Len(ds) + 1)
      /\ \A i \in 1 .. Len(ds) : ds[i] \in own /\ ds[i] # sec
  BY <1>1, <1>2 DEF Listed, Contains
<1>6. IsInjective(ds2)
  <2> SUFFICES ASSUME NEW i \in 1 .. (Len(ds) + 1), NEW j \in 1 .. (Len(ds) + 1),
                      ds2[i] = ds2[j]
               PROVE  i = j
    BY <1>5 DEF IsInjective
  <2>1. i # 1 => i - 1 \in 1 .. Len(ds) /\ ds2[i] = ds[i - 1]
    BY <1>2, <1>5
  <2>2. j # 1 => j - 1 \in 1 .. Len(ds) /\ ds2[j] = ds[j - 1]
    BY <1>2, <1>5
  <2>3. CASE i = 1 \/ j = 1
    <3>1. i = 1 => ds2[i] = sec
      BY <1>2, <1>5
    <3>2. j = 1 => ds2[j] = sec
      BY <1>2, <1>5
    <3>3. i # 1 => ds2[i] # sec
      BY <1>5, <2>1
    <3>4. j # 1 => ds2[j] # sec
      BY <1>5, <2>2
    <3>5. QED
      BY <2>3, <3>1, <3>2, <3>3, <3>4
  <2>4. CASE i # 1 /\ j # 1
    <3>1. i - 1 \in DOMAIN ds /\ j - 1 \in DOMAIN ds /\ ds[i - 1] = ds[j - 1]
      BY <1>5, <2>1, <2>2, <2>4
    <3>2. i - 1 = j - 1
      BY <1>1, <3>1 DEF IsInjective
    <3>3. QED
      BY <1>5, <3>2
  <2>5. QED
    BY <2>3, <2>4
<1>7. \A i \in 1 .. Len(ds2) : tt2[ds2[i]] = cs2[i]
  <2> SUFFICES ASSUME NEW i \in 1 .. (Len(ds) + 1) PROVE tt2[ds2[i]] = cs2[i]
    BY <1>2
  <2>1. CASE i = 1
    BY <1>1, <1>2, <1>3, <1>4, <2>1
  <2>2. CASE i # 1
    <3>1. i - 1 \in 1 .. Len(ds) /\ ds2[i] = ds[i - 1] /\ cs2[i] = cs[i - 1]
      BY <1>1, <1>2, <1>3, <1>5, <2>2
    <3>2. QED
      BY <1>1, <1>4, <1>5, <3>1
  <2>3. QED
    BY <2>1, <2>2
<1>8. ASSUME NEW a \in own, tt2[a] # 0 PROVE Listed(ds2, a)
  <2>1. CASE a = sec
    BY <1>2, <1>5, <2>1 DEF Listed, Contains
  <2>2. CASE a # sec
    <3>1. PICK i \in 1 .. Len(ds) : ds[i] = a
      BY <1>1, <1>4, <1>8, <2>2 DEF Listed, Contains
    <3>2. i + 1 \in 1 .. (Len(ds) + 1) /\ i + 1 # 1 /\ (i + 1) - 1 = i
      BY <1>5
    <3>3. ds2[i + 1] = a
      BY <1>2, <3>1, <3>2
    <3>4. QED
      BY <1>2, <3>2, <3>3 DEF Listed, Contains
  <2>3. QED
    BY <2>1, <2>2
<1>9. \A a \in own : tt[a] # 0 => tt[a] # c
  BY MatchedTables
<1>10. \A a, b \in own : tt2[a] = tt2[b] /\ tt2[a] # 0 => a = b
  BY <1>1, <1>4, <1>9
<1>11. Matched(tt2, ds2, cs2, own)
  BY <1>1, <1>2, <1>3, <1>4, <1>6, <1>7, <1>8, <1>10 DEF Matched
<1>12. QED
  BY <1>11 DEF tt2, ds2, cs2

\* migrateKernelCPT drops the entries of a section in both lists.
LEMMA MatchedRemove ==
    ASSUME NEW own \in SUBSET Sections, NEW tt, NEW ds, NEW cs, Matched(tt, ds, cs, own),
           NEW sec, Listed(ds, sec)
    PROVE  /\ Matched([tt EXCEPT ![sec] = 0], RemoveAt(ds, Index(ds, sec)),
                      RemoveAt(cs, Index(ds, sec)), own)
           /\ ~ Listed(RemoveAt(ds, Index(ds, sec)), sec)
<1> DEFINE k == Index(ds, sec)
           ds2 == RemoveAt(ds, k)
           cs2 == RemoveAt(cs, k)
           tt2 == [tt EXCEPT ![sec] = 0]
<1>1. /\ ds \in Seq(own) /\ cs \in Seq(Cpts) /\ Len(ds) = Len(cs) /\ IsInjective(ds)
      /\ \A i \in 1 .. Len(ds) : tt[ds[i]] = cs[i]
      /\ tt \in [Sections -> 0 .. NCpts]
      /\ \A a \in own : tt[a] # 0 => Listed(ds, a)
      /\ \A a, b \in own : tt[a] = tt[b] /\ tt[a] # 0 => a = b
  BY DEF Matched
<1>2. k \in 1 .. Len(ds) /\ k \in 1 .. Len(cs) /\ ds[k] = sec /\ sec \in own
  <2> HIDE DEF k
  <2>1. sec \in own
    BY MatchedIndex
  <2>2. k \in 1 .. Len(ds) /\ ds[k] = sec
    <3>1. PICK j \in 1 .. Len(ds) : Index(ds, sec) = j /\ ds[j] = sec
      BY MatchedIndex
    <3>2. k = j
      BY <3>1 DEF k
    <3>3. QED
      BY <3>1, <3>2
  <2>3. QED
    BY <1>1, <2>1, <2>2
<1> HIDE DEF k
<1>3. /\ ds2 \in Seq(own) /\ Len(ds2) = Len(ds) - 1
      /\ \A i \in 1 .. (Len(ds) - 1) : ds2[i] = IF i < k THEN ds[i] ELSE ds[i + 1]
  BY <1>1, <1>2, RemoveAtIs
<1>4. /\ cs2 \in Seq(Cpts) /\ Len(cs2) = Len(cs) - 1
      /\ \A i \in 1 .. (Len(cs) - 1) : cs2[i] = IF i < k THEN cs[i] ELSE cs[i + 1]
  BY <1>1, <1>2, RemoveAtIs
<1>5. /\ tt2 \in [Sections -> 0 .. NCpts] /\ tt2[sec] = 0
      /\ \A a \in own : a # sec => tt2[a] = tt[a]
  BY <1>1, <1>2
<1>6. Len(ds) \in Nat /\ DOMAIN ds = 1 .. Len(ds)
  BY <1>1
<1>7. \A a \in own : a # sec /\ Listed(ds, a) => Listed(ds2, a)
  <2> SUFFICES ASSUME NEW a \in own, a # sec, Listed(ds, a) PROVE Listed(ds2, a)
    OBVIOUS
  <2>1. PICK j \in 1 .. Len(ds) : ds[j] = a
    BY DEF Listed, Contains
  <2>2. j # k
    BY <1>2, <2>1
  <2>3. \E i \in 1 .. (Len(ds) - 1) : ds2[i] = ds[j]
    BY <1>1, <1>2, <2>2, RemoveAtKeeps
  <2> HIDE DEF ds2
  <2>4. QED
    BY <1>3, <2>1, <2>3 DEF Listed, Contains
<1> HIDE DEF ds2, cs2, tt2
<1>8. ASSUME NEW i \in 1 .. (Len(ds) - 1)
      PROVE  \E j \in 1 .. Len(ds) : /\ j = (IF i < k THEN i ELSE i + 1) /\ j # k
                                     /\ ds2[i] = ds[j] /\ cs2[i] = cs[j]
  <2>1. CASE i < k
    <3>1. i \in 1 .. Len(ds) /\ i # k /\ ds2[i] = ds[i] /\ cs2[i] = cs[i]
      BY <1>1, <1>2, <1>3, <1>4, <1>6, <2>1
    <3>2. QED
      BY <2>1, <3>1
  <2>2. CASE ~ (i < k)
    <3>1. i + 1 \in 1 .. Len(ds) /\ i + 1 # k /\ ds2[i] = ds[i + 1] /\ cs2[i] = cs[i + 1]
      BY <1>1, <1>2, <1>3, <1>4, <1>6, <2>2
    <3>2. QED
      BY <2>2, <3>1
  <2>3. QED
    BY <2>1, <2>2
<1>9. \A i \in 1 .. (Len(ds) - 1) : ds2[i] # sec /\ ds2[i] \in own
  <2> SUFFICES ASSUME NEW i \in 1 .. (Len(ds) - 1) PROVE ds2[i] # sec /\ ds2[i] \in own
    OBVIOUS
  <2>1. PICK j \in 1 .. Len(ds) : j # k /\ ds2[i] = ds[j]
    BY <1>8
  <2>2. ds[j] \in own
    BY <1>1
  <2>3. QED
    BY <1>1, <1>2, <1>6, <2>1, <2>2 DEF IsInjective
<1>10. IsInjective(ds2)
  <2>1. DOMAIN ds2 = 1 .. (Len(ds) - 1)
    BY <1>3
  <2> SUFFICES ASSUME NEW i \in 1 .. (Len(ds) - 1), NEW j \in 1 .. (Len(ds) - 1),
                      ds2[i] = ds2[j]
               PROVE  i = j
    BY <2>1 DEF IsInjective
  <2>2. PICK a \in 1 .. Len(ds) : a = (IF i < k THEN i ELSE i + 1) /\ ds2[i] = ds[a]
    BY <1>8
  <2>3. PICK b \in 1 .. Len(ds) : b = (IF j < k THEN j ELSE j + 1) /\ ds2[j] = ds[b]
    BY <1>8
  <2>4. a = b
    BY <1>1, <1>6, <2>2, <2>3 DEF IsInjective
  <2>5. QED
    BY <1>2, <1>6, <2>2, <2>3, <2>4
<1>11. \A i \in 1 .. Len(ds2) : tt2[ds2[i]] = cs2[i]
  <2> SUFFICES ASSUME NEW i \in 1 .. (Len(ds) - 1) PROVE tt2[ds2[i]] = cs2[i]
    BY <1>3
  <2>1. PICK j \in 1 .. Len(ds) : ds2[i] = ds[j] /\ cs2[i] = cs[j]
    BY <1>8
  <2>2. QED
    BY <1>1, <1>5, <1>9, <2>1
<1>12. \A a \in own : tt2[a] # 0 => Listed(ds2, a)
  BY <1>1, <1>5, <1>7
<1>13. \A a, b \in own : tt2[a] = tt2[b] /\ tt2[a] # 0 => a = b
  BY <1>1, <1>5
<1>14. Matched(tt2, ds2, cs2, own)
  BY <1>1, <1>3, <1>4, <1>5, <1>10, <1>11, <1>12, <1>13 DEF Matched
<1>15. ~ Listed(ds2, sec)
  BY <1>3, <1>9 DEF Listed, Contains
<1>16. QED
  BY <1>14, <1>15 DEF tt2, ds2, cs2, k

LEMMA CptsNumbers == 0 \notin Cpts /\ Cpts \subseteq 0 .. NCpts /\ 0 \in 0 .. NCpts
BY DEF Cpts

LEMMA TtExcept ==
    ASSUME NEW tt \in [Sections -> 0 .. NCpts], NEW sec \in Sections, NEW c \in 0 .. NCpts
    PROVE  /\ TtWith(tt, sec, c) \in [Sections -> 0 .. NCpts]
           /\ TtWith(tt, sec, c)[sec] = c
           /\ \A a \in Sections : a # sec => TtWith(tt, sec, c)[a] = tt[a]
           /\ \A d \in 0 .. NCpts : TtWith(TtWith(tt, sec, d), sec, c) = TtWith(tt, sec, c)
BY DEF TtWith

\* A table of another's section does not matter to the lists.
LEMMA MatchedForeign ==
    ASSUME NEW own \in SUBSET Sections, NEW tt, NEW ds, NEW cs, Matched(tt, ds, cs, own),
           NEW sec \in Sections \ own, NEW c \in 0 .. NCpts
    PROVE  Matched([tt EXCEPT ![sec] = c], ds, cs, own)
<1>1. /\ ds \in Seq(own) /\ cs \in Seq(Cpts) /\ Len(ds) = Len(cs) /\ IsInjective(ds)
      /\ \A i \in 1 .. Len(ds) : tt[ds[i]] = cs[i]
      /\ tt \in [Sections -> 0 .. NCpts]
      /\ \A a \in own : tt[a] # 0 => Listed(ds, a)
      /\ \A a, b \in own : tt[a] = tt[b] /\ tt[a] # 0 => a = b
  BY DEF Matched
<1> DEFINE tt2 == [tt EXCEPT ![sec] = c]
<1>2. tt2 \in [Sections -> 0 .. NCpts] /\ \A a \in own : tt2[a] = tt[a]
  BY <1>1
<1> HIDE DEF tt2
<1>3. \A i \in 1 .. Len(ds) : ds[i] \in own
  BY <1>1
<1>4. Matched(tt2, ds, cs, own)
  BY <1>1, <1>2, <1>3 DEF Matched
<1>5. QED
  BY <1>4 DEF tt2

\* A tidy struct that gets the table c for the section sec.
LEMMA WithSectionTidy ==
    ASSUME NEW own \in SUBSET Sections, NEW as \in Structs, Tidy(as, own),
           NEW sec \in own, ~ Has(as, sec), NEW c \in Cpts, c \notin TablesOf(as)
    PROVE  /\ WithSection(as, sec, c) \in Structs
           /\ Tidy(WithSection(as, sec, c), own)
           /\ TablesOf(WithSection(as, sec, c)) = {c} \union TablesOf(as)
           /\ Tt(WithSection(as, sec, c)) = TtWith(Tt(as), sec, c)
<1> DEFINE w == WithSection(as, sec, c)
           tt2 == TtWith(as.tt, sec, c)
           ds2 == <<sec>> \o as.cptds
           cs2 == <<c>> \o as.cpts
<1>1. w = [tt |-> tt2, cptds |-> ds2, cpts |-> cs2]
  BY DEF WithSection, TtWith
<1>2. /\ as.cptds \in Seq(Sections) /\ as.cpts \in Seq(Cpts) /\ as.tt \in [Sections -> 0 .. NCpts]
  BY DEF Structs
<1>3. ds2 \in Seq(Sections) /\ cs2 \in Seq(Cpts) /\ Range(cs2) = {c} \union Range(as.cpts)
  BY <1>2, PrependIs
<1>4. tt2 \in [Sections -> 0 .. NCpts]
  BY <1>2, TtExcept, CptsNumbers
<1>5. Matched(tt2, ds2, cs2, own)
  <2>1. /\ Matched(as.tt, as.cptds, as.cpts, own) /\ c \notin Range(as.cpts)
        /\ ~ Listed(as.cptds, sec)
    BY DEF Tidy, TablesOf, Has
  <2>2. QED
    BY <2>1, MatchedAdd DEF TtWith
<1> HIDE DEF tt2, ds2, cs2
<1>6. w \in Structs /\ w.tt = tt2 /\ w.cptds = ds2 /\ w.cpts = cs2
  BY <1>1, <1>3, <1>4 DEF Structs
<1> HIDE DEF w
<1>7. Tidy(w, own) /\ TablesOf(w) = {c} \union TablesOf(as)
  BY <1>3, <1>5, <1>6 DEF Tidy, TablesOf
<1>8. QED
  BY <1>6, <1>7 DEF w, tt2, Tt

\* A tidy struct has exactly the tables its translation table names for its sections.
LEMMA TidyTables ==
    ASSUME NEW own \in SUBSET Sections, NEW as, Tidy(as, own)
    PROVE  /\ \A c \in TablesOf(as) : c \in Cpts /\ \E sec \in own : c = as.tt[sec]
           /\ \A sec \in own : as.tt[sec] # 0 => as.tt[sec] \in TablesOf(as)
BY MatchedTables DEF Tidy, TablesOf

\* The same when the section may have had a table before.
LEMMA MigrateTidy ==
    ASSUME NEW own \in SUBSET Sections, NEW as \in Structs, Tidy(as, own), NEW sec \in own,
           NEW c \in Cpts
    PROVE  /\ TablesOf(Without(as, sec)) = TablesOf(as) \ {Tt(as)[sec]}
           /\ c \notin TablesOf(as) \ {Tt(as)[sec]} =>
                /\ WithSection(Without(as, sec), sec, c) \in Structs
                /\ Tidy(WithSection(Without(as, sec), sec, c), own)
                /\ TablesOf(WithSection(Without(as, sec), sec, c))
                       = {c} \union (TablesOf(as) \ {Tt(as)[sec]})
                /\ Tt(WithSection(Without(as, sec), sec, c)) = TtWith(Tt(as), sec, c)
<1> DEFINE Stripped(x) == /\ Tidy(x, own) /\ ~ Has(x, sec)
                          /\ TablesOf(x) = TablesOf(as) \ {Tt(as)[sec]}
                          /\ TablesOf(x) = TablesOf(Without(as, sec))
                          /\ WithSection(x, sec, c) = WithSection(Without(as, sec), sec, c)
                          /\ TtWith(Tt(x), sec, c) = TtWith(Tt(as), sec, c)
<1>1. ASSUME ~ Has(as, sec) PROVE \E x \in Structs : Stripped(x)
  <2>1. Without(as, sec) = as
    BY <1>1 DEF Without, Has
  <2>2. Tt(as)[sec] = 0
    BY <1>1 DEF Tidy, Matched, Has, Tt
  <2>3. 0 \notin TablesOf(as)
    BY TidyTables, CptsNumbers
  <2>4. TablesOf(as) = TablesOf(as) \ {Tt(as)[sec]}
    BY <2>2, <2>3
  <2>5. Stripped(as)
    BY <1>1, <2>1, <2>4
  <2>6. QED
    BY <2>5
<1>2. ASSUME Has(as, sec) PROVE \E x \in Structs : Stripped(x)
  <2> DEFINE i == Index(as.cptds, sec)
             tt0 == TtWith(as.tt, sec, 0)
             ds0 == RemoveAt(as.cptds, i)
             cs0 == RemoveAt(as.cpts, i)
             old == Without(as, sec)
             as0 == [tt |-> tt0, cptds |-> ds0, cpts |-> cs0]
  <2>1. /\ as.cptds \in Seq(Sections) /\ as.cpts \in Seq(Cpts)
        /\ as.tt \in [Sections -> 0 .. NCpts] /\ sec \in Sections
    BY DEF Structs
  <2>2. Matched(as.tt, as.cptds, as.cpts, own)
    BY DEF Tidy
  <2>3. Matched(tt0, ds0, cs0, own) /\ ~ Listed(ds0, sec)
    BY <1>2, <2>2, MatchedRemove DEF TtWith, Has
  <2>4. tt0 \in [Sections -> 0 .. NCpts] /\ tt0[sec] = 0
        /\ \A a \in Sections : a # sec => tt0[a] = as.tt[a]
    <3> DEFINE f == as.tt
    <3>1. f \in [Sections -> 0 .. NCpts] /\ sec \in Sections
      BY <2>1
    <3> HIDE DEF f
    <3>2. TtWith(f, sec, 0) \in [Sections -> 0 .. NCpts]
      BY <3>1, TtExcept, CptsNumbers
    <3>3. TtWith(f, sec, 0)[sec] = 0
      BY <3>1, TtExcept, CptsNumbers
    <3>4. \A a \in Sections : a # sec => TtWith(f, sec, 0)[a] = f[a]
      BY <3>1, TtExcept, CptsNumbers
    <3>5. QED
      BY <3>2, <3>3, <3>4 DEF f
  <2>5. TtWith(tt0, sec, c) = TtWith(as.tt, sec, c)
    <3> DEFINE f == as.tt
    <3>1. f \in [Sections -> 0 .. NCpts] /\ sec \in Sections
      BY <2>1
    <3> HIDE DEF f
    <3>2. TtWith(TtWith(f, sec, 0), sec, c) = TtWith(f, sec, c)
      BY <3>1, TtExcept, CptsNumbers
    <3>3. QED
      BY <3>2 DEF f
  <2>6. old = [[as EXCEPT !.cptds = ds0] EXCEPT !.cpts = cs0]
    BY <1>2 DEF Without, Has
  <2> HIDE DEF i, tt0, ds0, cs0
  <2>7. ds0 \in Seq(own) /\ cs0 \in Seq(Cpts)
    BY <2>3 DEF Matched
  <2>8. ds0 \in Seq(Sections)
    BY <2>7, SeqMonotonic
  <2>9. old.tt = as.tt /\ old.cptds = ds0 /\ old.cpts = cs0
    BY <2>6 DEF Structs
  <2>10. as0 \in Structs /\ as0.tt = tt0 /\ as0.cptds = ds0 /\ as0.cpts = cs0
    BY <2>4, <2>7, <2>8 DEF Structs
  <2> HIDE DEF as0, old
  <2>11. Tidy(as0, own) /\ ~ Has(as0, sec) /\ TablesOf(as0) = TablesOf(old)
    BY <2>3, <2>9, <2>10 DEF Tidy, TablesOf, Has
  <2>12. TablesOf(as0) = TablesOf(as) \ {as.tt[sec]}
    <3>1. ASSUME NEW d \in TablesOf(as0) PROVE d \in TablesOf(as) \ {as.tt[sec]}
      <4>1. PICK a \in own : d = tt0[a] /\ d \in Cpts
        BY <2>10, <2>11, TidyTables
      <4>2. d # 0 /\ a # sec /\ d = as.tt[a]
        BY <2>4, <4>1, CptsNumbers
      <4>3. d \in TablesOf(as)
        BY <4>2, TidyTables
      <4>4. d # as.tt[sec]
        BY <2>2, <4>2 DEF Matched
      <4>5. QED
        BY <4>3, <4>4
    <3>2. ASSUME NEW d \in TablesOf(as), d # as.tt[sec] PROVE d \in TablesOf(as0)
      <4>1. PICK a \in own : d = as.tt[a] /\ d \in Cpts
        <5>1. \A x \in TablesOf(as) : x \in Cpts /\ \E a \in own : x = as.tt[a]
          BY TidyTables
        <5>2. QED
          BY <5>1
      <4>2. d # 0 /\ a # sec /\ tt0[a] = d
        BY <2>4, <3>2, <4>1, CptsNumbers
      <4>3. QED
        BY <2>10, <2>11, <4>2, TidyTables
    <3>3. QED
      BY <3>1, <3>2
  <2>13. WithSection(old, sec, c) = WithSection(as0, sec, c)
    BY <2>5, <2>9, <2>10 DEF WithSection, TtWith
  <2>14. Tt(as0) = tt0 /\ Tt(as) = as.tt
    BY <2>10 DEF Tt
  <2>15. Stripped(as0)
    BY <2>5, <2>11, <2>12, <2>13, <2>14 DEF old
  <2>16. QED
    BY <2>10, <2>15
<1>3. PICK x \in Structs : Stripped(x)
  BY <1>1, <1>2
<1>4. ASSUME c \notin TablesOf(as) \ {Tt(as)[sec]}
      PROVE  /\ WithSection(x, sec, c) \in Structs /\ Tidy(WithSection(x, sec, c), own)
             /\ TablesOf(WithSection(x, sec, c)) = {c} \union TablesOf(x)
             /\ Tt(WithSection(x, sec, c)) = TtWith(Tt(x), sec, c)
  <2>1. x \in Structs /\ Tidy(x, own) /\ ~ Has(x, sec) /\ c \notin TablesOf(x)
    BY <1>3, <1>4
  <2>2. QED
    BY <2>1, WithSectionTidy
<1>5. QED
  BY <1>3, <1>4

\* The struct of a space that gets a section of the kernel.
WithEntry(as, sec, c) == [as EXCEPT !.tt[sec] = c]

LEMMA WithEntryTidy ==
    ASSUME NEW own \in SUBSET Sections, NEW as \in Structs, Tidy(as, own),
           NEW sec \in Sections \ own, NEW c \in Cpts
    PROVE  /\ WithEntry(as, sec, c) \in Structs
           /\ Tidy(WithEntry(as, sec, c), own)
           /\ TablesOf(WithEntry(as, sec, c)) = TablesOf(as)
           /\ Tt(WithEntry(as, sec, c)) = TtWith(Tt(as), sec, c)
<1> DEFINE w == WithEntry(as, sec, c)
           f == as.tt
           g == TtWith(f, sec, c)
<1>1. f \in [Sections -> 0 .. NCpts] /\ as.cptds \in Seq(Sections) /\ as.cpts \in Seq(Cpts)
  BY DEF Structs
<1>2. w = [as EXCEPT !.tt = g]
  BY DEF WithEntry, TtWith
<1>3. Matched(f, as.cptds, as.cpts, own)
  BY DEF Tidy
<1> HIDE DEF f, w
<1>4. g \in [Sections -> 0 .. NCpts]
  BY <1>1, TtExcept, CptsNumbers
<1>5. Matched(g, as.cptds, as.cpts, own)
  BY <1>3, MatchedForeign, CptsNumbers DEF TtWith
<1> HIDE DEF g
<1>6. w \in Structs /\ w.tt = g /\ w.cptds = as.cptds /\ w.cpts = as.cpts
  BY <1>1, <1>2, <1>4 DEF Structs
<1>7. w \in Structs /\ Tidy(w, own) /\ TablesOf(w) = TablesOf(as) /\ Tt(w) = g
  BY <1>5, <1>6 DEF Tidy, TablesOf, Tt
<1>8. QED
  BY <1>7 DEF w, g, f, Tt

-----------------------------------------------------------------------------
(***************************************************************************)
(* The address spaces together.                                            *)
(***************************************************************************)
LEMMA Existence ==
    ASSUME SpaceInv, NEW s \in Existing
    PROVE  /\ s \in All /\ space[s] \in Structs /\ Tidy(space[s], Own(s))
           /\ Tt(space[s]) \in [Sections -> 0 .. NCpts]
           /\ Own(s) \in SUBSET Sections
           /\ TablesOf(space[s]) \subseteq cpts
<1>1. s \in All
  BY DEF SpaceInv, Typed, Existing, All
<1>2. space[s] \in Structs
  BY <1>1 DEF SpaceInv, Typed
<1>3. Tidy(space[s], Own(s))
  BY DEF SpaceInv
<1>4. Own(s) \in SUBSET Sections
  BY DEF Own, Sections
<1>5. TablesOf(space[s]) \subseteq cpts
  BY DEF SpaceInv, Apart
<1>6. QED
  BY <1>1, <1>2, <1>3, <1>4, <1>5 DEF Structs, Tt

\* Whose table a section is: the kernel's or that of the space itself.
Owner(s, sec) == IF sec \in KernelSections THEN Kernel ELSE s

LEMMA OwnerHas ==
    ASSUME SpaceInv, NEW s \in Existing, NEW sec \in Sections, Tt(space[s])[sec] # 0
    PROVE  /\ Owner(s, sec) \in Existing /\ sec \in Own(Owner(s, sec))
           /\ Tt(space[s])[sec] = Tt(space[Owner(s, sec)])[sec]
           /\ Tt(space[s])[sec] \in TablesOf(space[Owner(s, sec)])
<1> DEFINE o == Owner(s, sec)
<1>1. o \in Existing /\ sec \in Own(o) /\ Tt(space[s])[sec] = Tt(space[o])[sec]
  BY DEF SpaceInv, Foreign, Owner, Own, Existing, Sections
<1> HIDE DEF o
<1>2. Tidy(space[o], Own(o)) /\ Own(o) \in SUBSET Sections
  BY <1>1, Existence
<1>3. Tt(space[o])[sec] \in TablesOf(space[o])
  BY <1>1, <1>2, TidyTables DEF Tt
<1>4. QED
  BY <1>1, <1>3 DEF o

\* A table is pointed to by one section of one space, or by the same section of the kernel
\* in all of them.
LEMMA OnlyPointer ==
    ASSUME SpaceInv, NEW s \in Existing, NEW t \in Existing,
           NEW a \in Sections, NEW b \in Sections,
           Tt(space[s])[a] = Tt(space[t])[b], Tt(space[s])[a] # 0
    PROVE  a = b /\ (s = t \/ a \in KernelSections)
<1> DEFINE o == Owner(s, a)
           p == Owner(t, b)
           c == Tt(space[s])[a]
<1>1. o \in Existing /\ a \in Own(o) /\ c = Tt(space[o])[a] /\ c \in TablesOf(space[o])
  BY OwnerHas
<1>2. p \in Existing /\ b \in Own(p) /\ c = Tt(space[p])[b] /\ c \in TablesOf(space[p])
  BY OwnerHas
<1> HIDE DEF o, p, c
<1>3. o = p
  BY <1>1, <1>2 DEF SpaceInv, Apart
<1>4. Tidy(space[o], Own(o))
  BY <1>1, Existence
<1>5. a = b
  BY <1>1, <1>2, <1>3, <1>4 DEF Tidy, Matched, Tt, c
<1>6. QED
  BY <1>3, <1>5 DEF o, p, Owner
-----------------------------------------------------------------------------
(***************************************************************************)
(* The invariant is kept by every step.                                    *)
(***************************************************************************)

\* A section of space o gets the table c; the tables gone are given back.  When o is the
\* kernel, every other space gets the same entry in its translation table.
Grown(o, sec, c, gone) ==
    /\ space'[o] \in Structs /\ Tidy(space'[o], Own(o))
    /\ TablesOf(space'[o]) = {c} \union (TablesOf(space[o]) \ gone)
    /\ Tt(space'[o]) = TtWith(Tt(space[o]), sec, c)
    /\ \A t \in Existing \ {o} :
          /\ space'[t] \in Structs /\ Tidy(space'[t], Own(t))
          /\ TablesOf(space'[t]) = TablesOf(space[t])
          /\ Tt(space'[t]) = IF o = Kernel THEN TtWith(Tt(space[t]), sec, c) ELSE Tt(space[t])

LEMMA GrownKeeps ==
    ASSUME SpaceInv, Typed', live' = live, NEW o \in Existing, NEW sec \in Own(o),
           NEW c \in Cpts, NEW gone \in SUBSET TablesOf(space[o]), c \notin cpts \ gone,
           cpts' = {c} \union (cpts \ gone), Grown(o, sec, c, gone)
    PROVE  SpaceInv'
<1>1. Existing' = Existing
  BY DEF Existing
<1>2. \A s \in Existing : Tidy(space'[s], Own(s))
  BY DEF Grown
<1>3. ASSUME NEW s \in Existing
      PROVE  /\ Tt(space[s]) \in [Sections -> 0 .. NCpts]
             /\ TtWith(Tt(space[s]), sec, c)[sec] = c
             /\ \A a \in Sections : a # sec => TtWith(Tt(space[s]), sec, c)[a] = Tt(space[s])[a]
  <2> DEFINE f == Tt(space[s])
  <2>1. f \in [Sections -> 0 .. NCpts]
    BY Existence
  <2>2. sec \in Sections
    BY Existence
  <2> HIDE DEF f
  <2>3. TtWith(f, sec, c)[sec] = c
    BY <2>1, <2>2, TtExcept, CptsNumbers
  <2>4. \A a \in Sections : a # sec => TtWith(f, sec, c)[a] = f[a]
    BY <2>1, <2>2, TtExcept, CptsNumbers
  <2>5. QED
    BY <2>1, <2>3, <2>4 DEF f
<1>4. Kernel \in Existing /\ live \subseteq Existing /\ Kernel \notin live
  BY DEF Existing, SpaceInv, Typed
<1>5. Foreign'
  <2>1. CASE o = Kernel
    <3>1. \A s \in Existing : Tt(space'[s]) = TtWith(Tt(space[s]), sec, c)
      BY <2>1 DEF Grown
    <3>2. sec \in KernelSections
      BY <2>1 DEF Own
    <3>3. \A a \in UserSections : a \in Sections /\ a # sec
      BY <3>2 DEF Sections
    <3>4. \A a \in KernelSections : a \in Sections
      BY DEF Sections
    <3>5. \A a \in UserSections : Tt(space'[Kernel])[a] = 0
      BY <1>3, <1>4, <3>1, <3>3 DEF SpaceInv, Foreign
    <3>6. ASSUME NEW s \in live, NEW a \in KernelSections
          PROVE  Tt(space'[s])[a] = Tt(space'[Kernel])[a]
      BY <1>3, <1>4, <3>1, <3>4 DEF SpaceInv, Foreign
    <3>7. QED
      BY <3>5, <3>6 DEF Foreign
  <2>2. CASE o # Kernel
    <3>1. /\ Tt(space'[o]) = TtWith(Tt(space[o]), sec, c)
          /\ \A s \in Existing \ {o} : Tt(space'[s]) = Tt(space[s])
      BY <2>2 DEF Grown
    <3>2. sec \in UserSections
      BY <2>2 DEF Own
    <3>3. \A a \in KernelSections : a \in Sections /\ a # sec
      BY <3>2 DEF Sections
    <3>4. \A s \in Existing, a \in KernelSections : Tt(space'[s])[a] = Tt(space[s])[a]
      BY <1>3, <3>1, <3>3
    <3>5. Tt(space'[Kernel]) = Tt(space[Kernel])
      BY <1>4, <2>2, <3>1
    <3>6. QED
      BY <1>4, <3>4, <3>5 DEF SpaceInv, Foreign
  <2>3. QED
    BY <2>1, <2>2
<1>6. /\ TablesOf(space'[o]) = {c} \union (TablesOf(space[o]) \ gone)
      /\ \A t \in Existing \ {o} : TablesOf(space'[t]) = TablesOf(space[t])
  BY DEF Grown
<1>7. /\ cpts = UNION {TablesOf(space[s]) : s \in Existing}
      /\ \A s, t \in Existing : s # t => TablesOf(space[s]) \intersect TablesOf(space[t]) = {}
  BY DEF SpaceInv, Apart
<1>8. \A t \in Existing : TablesOf(space[t]) \subseteq cpts
  BY <1>7
<1>9. cpts' = UNION {TablesOf(space'[s]) : s \in Existing}
  <2>1. ASSUME NEW d \in cpts' PROVE \E s \in Existing : d \in TablesOf(space'[s])
    <3>1. CASE d = c
      BY <1>6, <3>1
    <3>2. CASE d # c
      <4>1. d \in cpts /\ d \notin gone
        BY <3>2
      <4>2. PICK s \in Existing : d \in TablesOf(space[s])
        BY <1>7, <4>1
      <4>3. QED
        BY <1>6, <4>1, <4>2
    <3>3. QED
      BY <3>1, <3>2
  <2>2. ASSUME NEW s \in Existing, NEW d \in TablesOf(space'[s]) PROVE d \in cpts'
    <3>1. CASE s = o
      BY <1>6, <1>8, <3>1
    <3>2. CASE s # o
      <4>1. d \in TablesOf(space[s])
        BY <1>6, <3>2
      <4>2. d \in cpts /\ d \notin gone
        BY <1>7, <1>8, <3>2, <4>1
      <4>3. QED
        BY <4>2
    <3>3. QED
      BY <3>1, <3>2
  <2>3. QED
    BY <2>1, <2>2
<1>10. \A t \in Existing \ {o} : c \notin TablesOf(space[t])
  BY <1>7, <1>8
<1>11. ASSUME NEW s \in Existing, NEW t \in Existing, s # t
       PROVE  TablesOf(space'[s]) \intersect TablesOf(space'[t]) = {}
  <2>1. TablesOf(space[s]) \intersect TablesOf(space[t]) = {}
    BY <1>7, <1>11
  <2>2. CASE s = o
    BY <1>6, <1>10, <1>11, <2>1, <2>2
  <2>3. CASE t = o
    BY <1>6, <1>10, <1>11, <2>1, <2>3
  <2>4. CASE s # o /\ t # o
    BY <1>6, <2>1, <2>4
  <2>5. QED
    BY <2>2, <2>3, <2>4
<1>12. Apart'
  BY <1>1, <1>9, <1>11 DEF Apart
<1>13. QED
  BY <1>1, <1>2, <1>5, <1>12 DEF SpaceInv

LEMMA NewTableTyped ==
    ASSUME Typed, NEW c \in Cpts, NEW slot \in Slots, NEW page \in Pages
    PROVE  NewTable(c, slot, page) \in [Cpts -> Tables]
<1>1. [Blank EXCEPT ![slot] = page] \in Tables
  BY DEF Blank, Tables
<1>2. QED
  BY <1>1 DEF NewTable, Typed

\* addVirtualKernelPage, for a section without a table.
LEMMA KernelGrows ==
    ASSUME SpaceInv, NEW sec \in KernelSections, NEW c \in Cpts \ cpts,
           ~ Listed(space[Kernel].cptds, sec), space' = Propagate(sec, c)
    PROVE  Grown(Kernel, sec, c, {}) /\ space' \in [All -> Structs]
<1>1. Kernel \in Existing /\ Own(Kernel) = KernelSections /\ sec \in Sections
  BY DEF Existing, Own, Sections
<1>2. DOMAIN space = All /\ live \subseteq Spaces /\ Kernel \in All
  BY DEF SpaceInv, Typed, All
<1>3. space'[Kernel] = WithSection(space[Kernel], sec, c)
  BY <1>2 DEF Propagate
<1>4. \A t \in live : space'[t] = WithEntry(space[t], sec, c)
  BY <1>2 DEF Propagate, WithEntry, All
<1>5. \A t \in All : t \notin Existing => space'[t] = space[t]
  BY <1>2 DEF Propagate, Existing
<1>6. /\ space'[Kernel] \in Structs /\ Tidy(space'[Kernel], Own(Kernel))
      /\ TablesOf(space'[Kernel]) = {c} \union TablesOf(space[Kernel])
      /\ Tt(space'[Kernel]) = TtWith(Tt(space[Kernel]), sec, c)
  <2> DEFINE k == space[Kernel]
             own == Own(Kernel)
  <2>1. k \in Structs /\ Tidy(k, own) /\ own \in SUBSET Sections /\ c \notin TablesOf(k)
    BY <1>1, Existence
  <2>2. sec \in own /\ ~ Has(k, sec)
    BY <1>1 DEF Has
  <2> HIDE DEF k, own
  <2>3. /\ WithSection(k, sec, c) \in Structs /\ Tidy(WithSection(k, sec, c), own)
        /\ TablesOf(WithSection(k, sec, c)) = {c} \union TablesOf(k)
        /\ Tt(WithSection(k, sec, c)) = TtWith(Tt(k), sec, c)
    BY <2>1, <2>2, WithSectionTidy
  <2>4. QED
    BY <1>3, <2>3 DEF k, own
<1>7. ASSUME NEW t \in live
      PROVE  /\ space'[t] \in Structs /\ Tidy(space'[t], Own(t))
             /\ TablesOf(space'[t]) = TablesOf(space[t])
             /\ Tt(space'[t]) = TtWith(Tt(space[t]), sec, c)
  <2> DEFINE k == space[t]
             own == Own(t)
  <2>1. t \in Existing /\ t # Kernel
    BY <1>2 DEF Existing
  <2>2. k \in Structs /\ Tidy(k, own) /\ own \in SUBSET Sections
    BY <2>1, Existence
  <2>3. sec \in Sections \ own
    BY <1>1, <2>1 DEF Own
  <2> HIDE DEF k, own
  <2>4. /\ WithEntry(k, sec, c) \in Structs /\ Tidy(WithEntry(k, sec, c), own)
        /\ TablesOf(WithEntry(k, sec, c)) = TablesOf(k)
        /\ Tt(WithEntry(k, sec, c)) = TtWith(Tt(k), sec, c)
    BY <2>2, <2>3, WithEntryTidy
  <2>5. QED
    BY <1>4, <2>4 DEF k, own
<1>8. Grown(Kernel, sec, c, {})
  <2>1. TablesOf(space[Kernel]) \ {} = TablesOf(space[Kernel])
    OBVIOUS
  <2>2. Existing \ {Kernel} \subseteq live
    BY DEF Existing
  <2>3. QED
    BY <1>6, <1>7, <2>1, <2>2 DEF Grown
<1>9. \A t \in All : space'[t] \in Structs
  <2>1. \A t \in All : space[t] \in Structs
    BY DEF SpaceInv, Typed
  <2>2. QED
    BY <1>5, <1>6, <1>7, <2>1 DEF Existing
<1>10. space' \in [All -> Structs]
  <2>1. space' = [t \in All |-> space'[t]]
    BY <1>2 DEF Propagate
  <2>2. QED
    BY <1>9, <2>1
<1>11. QED
  BY <1>8, <1>10

\* addVirtualPage, for a section without a table.
LEMMA UserGrows ==
    ASSUME SpaceInv, NEW s \in live, NEW sec \in UserSections, NEW c \in Cpts \ cpts,
           ~ Listed(space[s].cptds, sec),
           space' = [space EXCEPT ![s] = WithSection(@, sec, c)]
    PROVE  Grown(s, sec, c, {}) /\ space' \in [All -> Structs]
<1> DEFINE k == space[s]
           own == Own(s)
<1>1. s \in Existing /\ s # Kernel /\ space \in [All -> Structs] /\ s \in All
  BY DEF SpaceInv, Typed, Existing, All
<1>2. k \in Structs /\ Tidy(k, own) /\ own \in SUBSET Sections /\ c \notin TablesOf(k)
  BY <1>1, Existence
<1>3. sec \in own /\ ~ Has(k, sec)
  BY <1>1 DEF Has, Own
<1> HIDE DEF k, own
<1>4. /\ WithSection(k, sec, c) \in Structs /\ Tidy(WithSection(k, sec, c), own)
      /\ TablesOf(WithSection(k, sec, c)) = {c} \union TablesOf(k)
      /\ Tt(WithSection(k, sec, c)) = TtWith(Tt(k), sec, c)
  BY <1>2, <1>3, WithSectionTidy
<1>5. space'[s] = WithSection(k, sec, c) /\ \A t \in All : t # s => space'[t] = space[t]
  BY <1>1 DEF k
<1>6. space' \in [All -> Structs]
  BY <1>1, <1>4 DEF k
<1>7. ASSUME NEW t \in Existing \ {s}
      PROVE  /\ space'[t] \in Structs /\ Tidy(space'[t], Own(t))
             /\ TablesOf(space'[t]) = TablesOf(space[t]) /\ Tt(space'[t]) = Tt(space[t])
  <2>1. t \in All /\ space[t] \in Structs /\ Tidy(space[t], Own(t))
    BY Existence
  <2>2. QED
    BY <1>5, <2>1
<1>8. TablesOf(k) \ {} = TablesOf(k)
  OBVIOUS
<1>9. Grown(s, sec, c, {})
  BY <1>1, <1>4, <1>5, <1>7, <1>8 DEF Grown, k, own
<1>10. QED
  BY <1>6, <1>9

\* migrateKernelCPT: the table a section had is given back, and may be the new one.
LEMMA MigrateGrows ==
    ASSUME SpaceInv, ~ booted, NEW sec \in KernelSections, NEW left, NEW c \in Cpts \ left,
           left = cpts \ (TablesOf(space[Kernel]) \ TablesOf(Without(space[Kernel], sec))),
           space' = [space EXCEPT ![Kernel] = WithSection(Without(space[Kernel], sec), sec, c)]
    PROVE  /\ space' \in [All -> Structs]
           /\ \E gone \in SUBSET TablesOf(space[Kernel]) :
                 left = cpts \ gone /\ Grown(Kernel, sec, c, gone)
<1> DEFINE k == space[Kernel]
           own == Own(Kernel)
           gone == TablesOf(k) \ TablesOf(Without(k, sec))
<1>1. /\ Kernel \in Existing /\ space \in [All -> Structs] /\ Kernel \in All
      /\ Existing \ {Kernel} = {}
  BY DEF SpaceInv, Typed, Existing, All
<1>2. /\ k \in Structs /\ Tidy(k, own) /\ own \in SUBSET Sections /\ sec \in own
      /\ TablesOf(k) \subseteq cpts
  <2>1. sec \in own
    BY DEF Own
  <2>2. QED
    BY <1>1, <2>1, Existence
<1>3. left = cpts \ gone
  OBVIOUS
<1>4. space' = [space EXCEPT ![Kernel] = WithSection(Without(k, sec), sec, c)]
  OBVIOUS
<1> HIDE DEF k, own
<1>5. TablesOf(Without(k, sec)) = TablesOf(k) \ {Tt(k)[sec]}
  <2>1. c \in Cpts
    OBVIOUS
  <2>2. /\ TablesOf(Without(k, sec)) = TablesOf(k) \ {Tt(k)[sec]}
        /\ c \notin TablesOf(k) \ {Tt(k)[sec]} =>
             WithSection(Without(k, sec), sec, c) \in Structs
    BY <1>2, <2>1, MigrateTidy
  <2>3. QED
    BY <2>2
<1>6. c \notin TablesOf(k) \ {Tt(k)[sec]}
  BY <1>2, <1>3, <1>5
<1>7. TablesOf(k) \ gone = TablesOf(k) \ {Tt(k)[sec]}
  BY <1>5
<1>8. /\ WithSection(Without(k, sec), sec, c) \in Structs
      /\ Tidy(WithSection(Without(k, sec), sec, c), own)
      /\ TablesOf(WithSection(Without(k, sec), sec, c)) = {c} \union (TablesOf(k) \ gone)
      /\ Tt(WithSection(Without(k, sec), sec, c)) = TtWith(Tt(k), sec, c)
  <2>1. /\ WithSection(Without(k, sec), sec, c) \in Structs
        /\ Tidy(WithSection(Without(k, sec), sec, c), own)
        /\ TablesOf(WithSection(Without(k, sec), sec, c)) = {c} \union (TablesOf(k) \ {Tt(k)[sec]})
        /\ Tt(WithSection(Without(k, sec), sec, c)) = TtWith(Tt(k), sec, c)
    BY <1>2, <1>6, MigrateTidy
  <2>2. QED
    BY <1>7, <2>1
<1> HIDE DEF gone
<1>9. space'[Kernel] = WithSection(Without(k, sec), sec, c) /\ space' \in [All -> Structs]
  BY <1>1, <1>4, <1>8
<1>10. Grown(Kernel, sec, c, gone)
  BY <1>1, <1>8, <1>9 DEF Grown, k, own
<1>11. gone \in SUBSET TablesOf(space[Kernel])
  BY DEF gone, k
<1>12. QED
  BY <1>3, <1>9, <1>10, <1>11

\* createAddressSpace: the new space is tidy and has no table of its own.
LEMMA CreateKeeps ==
    ASSUME SpaceInv, NEW s \in Spaces, CreateAddressSpace(s)
    PROVE  SpaceInv'
<1> DEFINE f == [sec \in Sections |->
                    IF Listed(space[Kernel].cptds, sec) THEN space[Kernel].tt[sec] ELSE 0]
           w == [tt |-> f, cptds |-> <<>>, cpts |-> <<>>]
<1>1. /\ s \in All /\ s # Kernel /\ s \notin live /\ s \notin Existing /\ Kernel \in Existing
      /\ space \in [All -> Structs] /\ Kernel \in All /\ live \subseteq Spaces
  BY DEF SpaceInv, Typed, Existing, All, CreateAddressSpace
<1>2. space' = [space EXCEPT ![s] = w]
  <2>1. space' = [space EXCEPT ![s] = [Empty EXCEPT !.tt = f]]
    BY DEF CreateAddressSpace
  <2> HIDE DEF f
  <2>2. [Empty EXCEPT !.tt = f] = w
    BY DEF Empty
  <2>3. QED
    BY <2>1, <2>2
<1>3. Matched(space[Kernel].tt, space[Kernel].cptds, space[Kernel].cpts, KernelSections)
  BY <1>1 DEF SpaceInv, Tidy, Own
<1>4. /\ \A sec \in Sections : f[sec] = space[Kernel].tt[sec] \/ f[sec] = 0
      /\ \A sec \in KernelSections : f[sec] = space[Kernel].tt[sec]
      /\ f \in [Sections -> 0 .. NCpts]
  <2>1. space[Kernel].tt \in [Sections -> 0 .. NCpts]
    BY <1>1 DEF Structs
  <2>2. \A sec \in KernelSections : space[Kernel].tt[sec] # 0 => Listed(space[Kernel].cptds, sec)
    BY <1>3 DEF Matched
  <2>3. QED
    BY <2>1, <2>2, CptsNumbers DEF Sections
<1>5. \A sec \in UserSections : f[sec] = 0
  BY <1>1, <1>4 DEF SpaceInv, Foreign, Tt, Sections
<1> HIDE DEF f
<1>6. Matched(f, <<>>, <<>>, UserSections)
  <2>1. Len(<<>>) = 0 /\ <<>> \in Seq(UserSections) /\ <<>> \in Seq(Cpts)
    OBVIOUS
  <2>2. IsInjective(<<>>)
    BY DEF IsInjective
  <2>3. \A i \in 1 .. Len(<<>>) : FALSE
    BY <2>1
  <2>4. QED
    BY <1>4, <1>5, <2>1, <2>2, <2>3 DEF Matched
<1>7. /\ w \in Structs /\ w.tt = f /\ w.cptds = <<>> /\ w.cpts = <<>>
  BY <1>4 DEF Structs
<1>8. Range(<<>>) = {}
  BY DEF Range
<1> HIDE DEF w
<1>9. w \in Structs /\ Tidy(w, UserSections) /\ TablesOf(w) = {} /\ Tt(w) = f
  BY <1>6, <1>7, <1>8 DEF Tidy, TablesOf, Tt
<1>10. /\ space'[s] = w /\ space' \in [All -> Structs]
       /\ \A t \in All : t # s => space'[t] = space[t]
  BY <1>1, <1>2, <1>9
<1>11. /\ live' = live \union {s} /\ made' = made \union {s} /\ booted /\ cpts' = cpts
       /\ UNCHANGED <<mem, active, booted>> /\ Existing' = Existing \union {s}
  BY DEF CreateAddressSpace, Existing
<1>12. Typed'
  BY <1>1, <1>10, <1>11 DEF SpaceInv, Typed
<1>13. \A t \in Existing : t \in All /\ t # s /\ space'[t] = space[t]
  BY <1>1, <1>10 DEF Existing, All
<1>14. \A t \in Existing' : Tidy(space'[t], Own(t))
  BY <1>1, <1>9, <1>10, <1>11, <1>13 DEF SpaceInv, Own
<1>15. Foreign'
  <2>1. \A sec \in UserSections : Tt(space'[Kernel])[sec] = 0
    BY <1>1, <1>13 DEF SpaceInv, Foreign
  <2>2. \A sec \in KernelSections : Tt(space'[s])[sec] = Tt(space'[Kernel])[sec]
    BY <1>1, <1>4, <1>9, <1>10 DEF Tt
  <2>3. \A t \in live, sec \in KernelSections : Tt(space'[t])[sec] = Tt(space'[Kernel])[sec]
    BY <1>1, <1>13 DEF SpaceInv, Foreign, Existing
  <2>4. QED
    BY <1>11, <2>1, <2>2, <2>3 DEF Foreign
<1>16. Apart'
  <2>1. TablesOf(space'[s]) = {} /\ \A t \in Existing : TablesOf(space'[t]) = TablesOf(space[t])
    BY <1>9, <1>10, <1>13
  <2>2. /\ cpts = UNION {TablesOf(space[t]) : t \in Existing}
        /\ \A t, u \in Existing : t # u => TablesOf(space[t]) \intersect TablesOf(space[u]) = {}
    BY DEF SpaceInv, Apart
  <2>3. cpts = UNION {TablesOf(space'[t]) : t \in Existing \union {s}}
    BY <2>1, <2>2
  <2>4. \A t, u \in Existing \union {s} :
            t # u => TablesOf(space'[t]) \intersect TablesOf(space'[u]) = {}
    BY <2>1, <2>2
  <2>5. QED
    BY <1>11, <2>3, <2>4 DEF Apart
<1>17. QED
  BY <1>12, <1>14, <1>15, <1>16 DEF SpaceInv

\* destroyAddressSpace: its tables go with the space.
LEMMA DestroyKeeps ==
    ASSUME SpaceInv, NEW s \in Spaces, DestroyAddressSpace(s)
    PROVE  SpaceInv'
<1>1. /\ s \in All /\ s # Kernel /\ s \in live /\ s \in Existing /\ active # s
      /\ space \in [All -> Structs] /\ Kernel \in All /\ live \subseteq Spaces
  BY DEF SpaceInv, Typed, Existing, All, DestroyAddressSpace
<1>2. /\ live' = live \ {s} /\ cpts' = cpts \ TablesOf(space[s])
      /\ space' = [space EXCEPT ![s] = Empty] /\ Existing' = Existing \ {s}
      /\ UNCHANGED <<made, mem, active, booted>>
  BY <1>1 DEF DestroyAddressSpace, CptsFreed, Existing
<1>3. Empty \in Structs
  BY CptsNumbers DEF Empty, Structs
<1>4. /\ space' \in [All -> Structs] /\ \A t \in All : t # s => space'[t] = space[t]
  BY <1>1, <1>2, <1>3
<1>5. Typed'
  BY <1>1, <1>2, <1>4 DEF SpaceInv, Typed
<1>6. \A t \in Existing \ {s} : space'[t] = space[t]
  BY <1>4, Existence
<1>7. \A t \in Existing' : Tidy(space'[t], Own(t))
  BY <1>2, <1>6 DEF SpaceInv
<1>8. Foreign'
  BY <1>1, <1>2, <1>6 DEF SpaceInv, Foreign, Existing
<1>9. Apart'
  <2>1. /\ cpts = UNION {TablesOf(space[t]) : t \in Existing}
        /\ \A t, u \in Existing : t # u => TablesOf(space[t]) \intersect TablesOf(space[u]) = {}
    BY DEF SpaceInv, Apart
  <2>2. \A t \in Existing \ {s} : TablesOf(space'[t]) = TablesOf(space[t])
    BY <1>6
  <2>3. cpts \ TablesOf(space[s]) = UNION {TablesOf(space'[t]) : t \in Existing \ {s}}
    <3>1. ASSUME NEW d \in cpts \ TablesOf(space[s])
          PROVE  \E t \in Existing \ {s} : d \in TablesOf(space'[t])
      BY <2>1, <2>2
    <3>2. ASSUME NEW t \in Existing \ {s}, NEW d \in TablesOf(space'[t])
          PROVE  d \in cpts \ TablesOf(space[s])
      BY <1>1, <2>1, <2>2
    <3>3. QED
      BY <3>1, <3>2
  <2>4. QED
    BY <1>2, <2>1, <2>2, <2>3 DEF Apart
<1>10. QED
  BY <1>5, <1>7, <1>8, <1>9 DEF SpaceInv

\* The tables after an entry of table c is written.
Written(c, slot, page) == [mem EXCEPT ![c][slot] = page]

\* The table found through the lists is the one the translation table points to.
LEMMA AddToTableIs ==
    ASSUME SpaceInv, NEW s \in Existing, NEW sec \in Sections, NEW slot, NEW page,
           AddToTable(s, sec, slot, page)
    PROVE  /\ sec \in Own(s) /\ Tt(space[s])[sec] \in Cpts
           /\ mem' = Written(Tt(space[s])[sec], slot, page)
<1> DEFINE tt == space[s].tt
           ds == space[s].cptds
           cs == space[s].cpts
           own == Own(s)
<1>1. Matched(tt, ds, cs, own) /\ own \in SUBSET Sections /\ Listed(ds, sec)
  BY Existence DEF Tidy, AddToTable
<1>2. mem' = Written(cs[Index(ds, sec)], slot, page)
  BY DEF AddToTable, Written
<1>3. Tt(space[s]) = tt
  BY DEF Tt
<1> HIDE DEF tt, ds, cs, own
<1>4. /\ sec \in own /\ tt[sec] \in Cpts
      /\ \E k \in 1 .. Len(ds) : Index(ds, sec) = k /\ ds[k] = sec /\ cs[k] = tt[sec]
  BY <1>1, MatchedIndex
<1>5. cs[Index(ds, sec)] = tt[sec]
  BY <1>4
<1>6. QED
  BY <1>2, <1>3, <1>4, <1>5 DEF own

LEMMA AddToTableKeeps ==
    ASSUME SpaceInv, NEW s \in Existing, NEW sec \in Sections, NEW slot \in Slots,
           NEW page \in Pages, AddToTable(s, sec, slot, page)
    PROVE  SpaceInv'
<1> DEFINE d == Tt(space[s])[sec]
<1>1. d \in Cpts /\ mem' = Written(d, slot, page)
  BY AddToTableIs
<1> HIDE DEF d
<1>2. mem' \in [Cpts -> Tables]
  <2>1. mem \in [Cpts -> Tables] /\ [mem[d] EXCEPT ![slot] = page] \in Tables
    BY <1>1 DEF SpaceInv, Typed, Tables
  <2>2. QED
    BY <1>1, <2>1 DEF Written
<1>3. UNCHANGED <<space, live, made, cpts, active, booted>>
  BY DEF AddToTable
<1>4. QED
  BY <1>2, <1>3 DEF SpaceInv, Typed, Foreign, Apart, Existing

LEMMA SpaceInvariant == Spec => []SpaceInv
<1>1. ASSUME Init PROVE SpaceInv
  <2>1. Empty \in Structs /\ Empty.tt = [sec \in Sections |-> 0]
        /\ Empty.cptds = <<>> /\ Empty.cpts = <<>>
    BY CptsNumbers DEF Empty, Structs
  <2>2. /\ space = [s \in All |-> Empty] /\ live = {} /\ made = {} /\ cpts = {}
        /\ mem = [c \in Cpts |-> Blank] /\ active = Kernel /\ Existing = {Kernel}
    BY <1>1 DEF Init, All, Existing
  <2>3. Blank \in Tables
    BY DEF Blank, Tables
  <2>4. space[Kernel] = Empty
    BY <2>2 DEF All
  <2>5. Typed
    <3>1. space \in [All -> Structs] /\ mem \in [Cpts -> Tables]
      BY <2>1, <2>2, <2>3
    <3>2. QED
      BY <2>2, <3>1 DEF Typed
  <2>6. Tidy(Empty, KernelSections)
    <3>1. Len(<<>>) = 0 /\ <<>> \in Seq(KernelSections) /\ <<>> \in Seq(Cpts)
      OBVIOUS
    <3>2. IsInjective(<<>>)
      BY DEF IsInjective
    <3>3. \A i \in 1 .. Len(<<>>) : FALSE
      BY <3>1
    <3> DEFINE f == [sec \in Sections |-> 0]
    <3>4. f \in [Sections -> 0 .. NCpts] /\ \A sec \in KernelSections : f[sec] = 0
      BY CptsNumbers DEF Sections
    <3> HIDE DEF f
    <3>5. Matched(f, <<>>, <<>>, KernelSections)
      BY <3>1, <3>2, <3>3, <3>4 DEF Matched
    <3>6. QED
      BY <2>1, <3>5 DEF Tidy, f
  <2>7. \A s \in Existing : Tidy(space[s], Own(s))
    BY <2>2, <2>4, <2>6 DEF Own
  <2>8. Foreign
    BY <2>1, <2>2, <2>4 DEF Foreign, Tt, Sections
  <2>9. Apart
    <3>1. TablesOf(Empty) = {}
      <4>1. Range(<<>>) = {}
        BY DEF Range
      <4>2. QED
        BY <2>1, <4>1 DEF TablesOf
    <3>2. QED
      BY <2>2, <2>4, <3>1 DEF Apart
  <2>10. QED
    BY <2>5, <2>7, <2>8, <2>9 DEF SpaceInv
<1>2. ASSUME SpaceInv, [Next]_vars PROVE SpaceInv'
  <2>1. ASSUME NEW slot \in Slots, NEW page \in Pages, NEW sec \in KernelSections,
               AddVirtualKernelPage(sec, slot, page)
        PROVE  SpaceInv'
    <3>1. Kernel \in Existing /\ sec \in Sections /\ sec \in Own(Kernel)
      BY DEF Existing, Sections, Own
    <3>2. CASE AddToTable(Kernel, sec, slot, page)
      BY <1>2, <3>1, <3>2, AddToTableKeeps
    <3>3. ASSUME NEW c \in Cpts \ cpts, ~ Listed(space[Kernel].cptds, sec),
                 space' = Propagate(sec, c), mem' = NewTable(c, slot, page),
                 cpts' = cpts \union {c}, UNCHANGED <<live, made, active, booted>>
          PROVE  SpaceInv'
      <4>1. Grown(Kernel, sec, c, {}) /\ space' \in [All -> Structs]
        BY <1>2, <3>3, KernelGrows
      <4>2. mem' \in [Cpts -> Tables]
        BY <1>2, <3>3, NewTableTyped DEF SpaceInv
      <4>3. Typed' /\ live' = live
        BY <1>2, <3>3, <4>1, <4>2 DEF SpaceInv, Typed, Existing
      <4>4. cpts' = {c} \union (cpts \ {}) /\ c \notin cpts \ {}
        BY <3>3
      <4>5. QED
        BY <1>2, <3>1, <4>1, <4>3, <4>4, GrownKeeps
    <3>4. QED
      BY <2>1, <3>2, <3>3 DEF AddVirtualKernelPage
  <2>2. ASSUME NEW slot \in Slots, NEW page \in Pages, NEW s \in Spaces,
               NEW sec \in UserSections, AddVirtualPage(s, sec, slot, page)
        PROVE  SpaceInv'
    <3>1. s \in live /\ s \in Existing /\ sec \in Sections /\ sec \in Own(s)
      BY <2>2 DEF AddVirtualPage, Existing, Sections, Own
    <3>2. CASE AddToTable(s, sec, slot, page)
      BY <1>2, <3>1, <3>2, AddToTableKeeps
    <3>3. ASSUME NEW c \in Cpts \ cpts, ~ Listed(space[s].cptds, sec),
                 space' = [space EXCEPT ![s] = WithSection(@, sec, c)],
                 mem' = NewTable(c, slot, page), cpts' = cpts \union {c},
                 UNCHANGED <<live, made, active, booted>>
          PROVE  SpaceInv'
      <4>1. Grown(s, sec, c, {}) /\ space' \in [All -> Structs]
        BY <1>2, <3>1, <3>3, UserGrows
      <4>2. mem' \in [Cpts -> Tables]
        BY <1>2, <3>3, NewTableTyped DEF SpaceInv
      <4>3. Typed' /\ live' = live
        BY <1>2, <3>3, <4>1, <4>2 DEF SpaceInv, Typed, Existing
      <4>4. cpts' = {c} \union (cpts \ {}) /\ c \notin cpts \ {}
        BY <3>3
      <4>5. QED
        BY <1>2, <3>1, <4>1, <4>3, <4>4, GrownKeeps
    <3>4. QED
      BY <2>2, <3>2, <3>3 DEF AddVirtualPage
  <2>3. ASSUME NEW sec \in KernelSections,
               NEW table \in [Slots -> (Pages \ pages) \union {NoPage}],
               MigrateKernelCPT(sec, table)
        PROVE  SpaceInv'
    <3> DEFINE left == cpts \ (TablesOf(space[Kernel]) \ TablesOf(Without(space[Kernel], sec)))
    <3>1. PICK c \in Cpts \ left :
            /\ space' = [space EXCEPT ![Kernel] = WithSection(Without(space[Kernel], sec), sec, c)]
            /\ mem' = [mem EXCEPT ![c] = table] /\ cpts' = left \union {c}
      BY <2>3 DEF MigrateKernelCPT
    <3>2. ~ booted /\ UNCHANGED <<live, made, active, booted>>
      BY <2>3 DEF MigrateKernelCPT
    <3> DEFINE L == left
    <3>3. L = cpts \ (TablesOf(space[Kernel]) \ TablesOf(Without(space[Kernel], sec)))
      OBVIOUS
    <3>4. c \in Cpts \ L /\ cpts' = L \union {c}
      BY <3>1
    <3> HIDE DEF L
    <3>5. /\ space' \in [All -> Structs]
          /\ \E gone \in SUBSET TablesOf(space[Kernel]) :
                L = cpts \ gone /\ Grown(Kernel, sec, c, gone)
      BY <1>2, <3>1, <3>2, <3>3, <3>4, MigrateGrows
    <3>6. PICK gone \in SUBSET TablesOf(space[Kernel]) :
                L = cpts \ gone /\ Grown(Kernel, sec, c, gone)
      BY <3>5
    <3>7. mem' \in [Cpts -> Tables]
      <4>1. table \in Tables
        BY DEF Tables
      <4>2. QED
        BY <1>2, <3>1, <4>1 DEF SpaceInv, Typed
    <3>8. Typed' /\ live' = live
      BY <1>2, <3>2, <3>4, <3>5, <3>7 DEF SpaceInv, Typed, Existing
    <3>9. Kernel \in Existing /\ sec \in Own(Kernel) /\ c \in Cpts
      BY <3>4 DEF Existing, Own
    <3>10. cpts' = {c} \union (cpts \ gone) /\ c \notin cpts \ gone
      BY <3>4, <3>6
    <3>11. QED
      BY <1>2, <3>6, <3>8, <3>9, <3>10, GrownKeeps
  <2>4. ASSUME NEW s \in Spaces, CreateAddressSpace(s) PROVE SpaceInv'
    BY <1>2, <2>4, CreateKeeps
  <2>5. ASSUME NEW s \in Spaces, DestroyAddressSpace(s) PROVE SpaceInv'
    BY <1>2, <2>5, DestroyKeeps
  <2>6. ASSUME UNCHANGED <<space, live, made, mem, cpts>>, booted => booted',
               active' \in Existing
        PROVE  SpaceInv'
    BY <1>2, <2>6 DEF SpaceInv, Typed, Foreign, Apart, Existing
  <2>7. active \in Existing
    BY <1>2 DEF SpaceInv, Typed
  <2>8. CASE Booted
    BY <2>6, <2>7, <2>8 DEF Booted
  <2>9. ASSUME NEW s \in Spaces, DestroyPanics(s) PROVE SpaceInv'
    BY <2>6, <2>7, <2>9 DEF DestroyPanics
  <2>10. ASSUME NEW s \in Spaces, ChangeAddressSpace(s) PROVE SpaceInv'
    BY <2>6, <2>10 DEF ChangeAddressSpace, Existing
  <2>11. CASE IntoKernelSpace
    BY <2>6, <2>11 DEF IntoKernelSpace, Existing
  <2>12. CASE UNCHANGED vars
    BY <2>6, <2>7, <2>12 DEF vars
  <2>13. QED
    BY <1>2, <2>1, <2>2, <2>3, <2>4, <2>5, <2>8, <2>9, <2>10, <2>11, <2>12 DEF Next
<1>3. QED
  BY <1>1, <1>2, PTL DEF Spec

-----------------------------------------------------------------------------
(***************************************************************************)
(* What follows.                                                           *)
(***************************************************************************)

\* In every address space, the active one included, the kernel's sections lead to the
\* kernel's tables: addVirtualKernelPage and createAddressSpace between them reach all.
THEOREM KernelMappedCorrect == Spec => []KernelMapped
<1>1. SpaceInv => KernelMapped
  <2> SUFFICES ASSUME SpaceInv, NEW s \in live \union {active}, NEW sec \in KernelSections
               PROVE  space[s].tt[sec] = space[Kernel].tt[sec]
    BY DEF KernelMapped
  <2>1. s \in live \/ s = Kernel
    BY DEF SpaceInv, Typed, Existing
  <2>2. QED
    BY <2>1 DEF SpaceInv, Foreign, Tt
<1>2. QED
  BY <1>1, SpaceInvariant, PTL

\* The two lists of every space stay in step, no coarse page table belongs to two entries
\* or two spaces, and destroyAddressSpace and migrateKernelCPT lose none.
THEOREM CptsExactCorrect == Spec => []CptsExact
<1>1. SpaceInv => CptsExact
  <2>1. ASSUME SpaceInv, NEW s \in Existing
        PROVE  /\ Len(space[s].cptds) = Len(space[s].cpts)
               /\ \A i \in DOMAIN space[s].cptds :
                     space[s].tt[space[s].cptds[i]] = space[s].cpts[i]
               /\ IsInjective(space[s].cptds)
    <3> DEFINE ds == space[s].cptds
               cs == space[s].cpts
               tt == space[s].tt
    <3>1. Matched(tt, ds, cs, Own(s))
      BY <2>1 DEF SpaceInv, Tidy
    <3> HIDE DEF ds, cs, tt
    <3>2. /\ Len(ds) = Len(cs) /\ IsInjective(ds) /\ DOMAIN ds = 1 .. Len(ds)
          /\ \A i \in 1 .. Len(ds) : tt[ds[i]] = cs[i]
      BY <3>1 DEF Matched
    <3>3. QED
      BY <3>2 DEF ds, cs, tt
  <2>2. SpaceInv => TablesMatch
    BY <2>1 DEF TablesMatch
  <2>3. QED
    BY <2>2 DEF SpaceInv, Apart, CptsExact
<1>2. QED
  BY <1>1, SpaceInvariant, PTL

-----------------------------------------------------------------------------
(***************************************************************************)
(* The tables implement AddressSpaces.  Seen is View, table by table.      *)
(***************************************************************************)
Seen == [s \in All |-> [sec \in Sections |->
            IF s \in Existing /\ Tt(space[s])[sec] # 0 THEN mem[Tt(space[s])[sec]] ELSE Blank]]

LEMMA ViewSeen == SpaceInv => View = Seen /\ Seen \in [All -> [Sections -> Tables]]
<1> SUFFICES ASSUME SpaceInv
             PROVE  View = Seen /\ Seen \in [All -> [Sections -> Tables]]
  OBVIOUS
<1>1. Blank \in Tables /\ \A slot \in Slots : Blank[slot] = NoPage
  BY DEF Blank, Tables
<1>2. mem \in [Cpts -> Tables]
  BY DEF SpaceInv, Typed
<1>3. ASSUME NEW s \in All, NEW sec \in Sections
      PROVE  /\ Seen[s][sec] \in Tables
             /\ \A slot \in Slots : Seen[s][sec][slot]
                    = IF s \in Existing THEN PhysicalPage(s, sec, slot) ELSE NoPage
  <2>1. CASE s \in Existing /\ Tt(space[s])[sec] # 0
    <3> DEFINE d == Tt(space[s])[sec]
    <3>1. d \in 0 .. NCpts /\ d # 0
      BY <2>1, Existence
    <3>2. d \in Cpts
      BY <3>1 DEF Cpts
    <3>3. Seen[s][sec] = mem[d]
      BY <2>1 DEF Seen
    <3>4. \A slot \in Slots : PhysicalPage(s, sec, slot) = mem[d][slot]
      BY <2>1 DEF PhysicalPage, Tt
    <3> HIDE DEF d
    <3>5. QED
      BY <1>2, <2>1, <3>2, <3>3, <3>4
  <2>2. CASE ~ (s \in Existing /\ Tt(space[s])[sec] # 0)
    <3>1. Seen[s][sec] = Blank
      BY <2>2 DEF Seen
    <3>2. s \in Existing => \A slot \in Slots : PhysicalPage(s, sec, slot) = NoPage
      BY <2>2 DEF PhysicalPage, Tt
    <3>3. QED
      BY <1>1, <3>1, <3>2
  <2>3. QED
    BY <2>1, <2>2
<1>4. Seen \in [All -> [Sections -> Tables]]
  <2>1. Seen = [s \in All |-> [sec \in Sections |-> Seen[s][sec]]]
    BY DEF Seen
  <2>2. QED
    BY <1>3, <2>1
<1>5. View = [s \in All |-> [sec \in Sections |-> [slot \in Slots |-> Seen[s][sec][slot]]]]
  BY <1>3 DEF View, All
<1>6. \A s \in All, sec \in Sections : Seen[s][sec] = [slot \in Slots |-> Seen[s][sec][slot]]
  BY <1>3 DEF Tables
<1>7. Seen = [s \in All |-> [sec \in Sections |-> Seen[s][sec]]]
  BY DEF Seen
<1>8. QED
  BY <1>4, <1>5, <1>6, <1>7

LEMMA ViewSeenNext == SpaceInv' => View' = Seen' /\ Seen' \in [All -> [Sections -> Tables]]
<1>1. (SpaceInv => View = Seen /\ Seen \in [All -> [Sections -> Tables]])'
  BY ViewSeen, PTL
<1>2. QED
  BY <1>1

LEMMA PointersDiffer ==
    SpaceInv => \A s, t \in Existing, a, b \in Sections :
        Tt(space[s])[a] = Tt(space[t])[b] /\ Tt(space[s])[a] # 0
            => a = b /\ (s = t \/ a \in KernelSections)
BY OnlyPointer

\* Who sees a change in a section of space o.
Sees(t, b, o, sec) == t \in Existing /\ b = sec /\ (t = o \/ o = Kernel)

SeesPage(o, sec, slot, page) ==
    \A t \in All, b \in Sections :
        Seen'[t][b] = IF Sees(t, b, o, sec) THEN [Seen[t][b] EXCEPT ![slot] = page]
                                            ELSE Seen[t][b]

\* A page in a table that exists shows up in the spaces that share the table, there only.
LEMMA AddToTableSees ==
    ASSUME SpaceInv, NEW o \in Existing, NEW sec \in Own(o), NEW slot \in Slots,
           NEW page \in Pages, AddToTable(o, sec, slot, page)
    PROVE  SeesPage(o, sec, slot, page)
<1> DEFINE d == Tt(space[o])[sec]
<1>1. sec \in Sections
  BY Existence
<1>2. d \in Cpts /\ mem' = Written(d, slot, page)
  BY <1>1, AddToTableIs
<1>3. d # 0
  BY <1>2, CptsNumbers
<1>4. UNCHANGED <<space, live>> /\ Existing' = Existing
  BY DEF AddToTable, Existing
<1>5. mem \in [Cpts -> Tables]
  BY DEF SpaceInv, Typed
<1> SUFFICES ASSUME NEW t \in All, NEW b \in Sections
             PROVE  Seen'[t][b] = IF Sees(t, b, o, sec) THEN [Seen[t][b] EXCEPT ![slot] = page]
                                                        ELSE Seen[t][b]
  BY DEF SeesPage
<1> DEFINE e == Tt(space[t])[b]
<1>6. /\ Seen[t][b] = IF t \in Existing /\ e # 0 THEN mem[e] ELSE Blank
      /\ Seen'[t][b] = IF t \in Existing /\ e # 0 THEN mem'[e] ELSE Blank
  BY <1>4 DEF Seen
<1>7. ASSUME Sees(t, b, o, sec) PROVE e = d /\ t \in Existing
  BY <1>7 DEF Sees, SpaceInv, Foreign, Own, Existing
<1>8. ASSUME t \in Existing, e = d PROVE Sees(t, b, o, sec)
  <2>1. b = sec /\ (t = o \/ sec \in KernelSections)
    BY <1>1, <1>3, <1>8, PointersDiffer
  <2>2. QED
    BY <1>8, <2>1 DEF Sees, Own
<1>9. t \in Existing => e \in 0 .. NCpts
  BY Existence
<1> HIDE DEF d, e
<1>10. CASE Sees(t, b, o, sec)
  <2>1. mem'[d] = [mem[d] EXCEPT ![slot] = page]
    BY <1>2, <1>5 DEF Written
  <2>2. QED
    BY <1>3, <1>6, <1>7, <1>10, <2>1
<1>11. CASE ~ Sees(t, b, o, sec)
  <2>1. t \in Existing /\ e # 0 => e \in Cpts /\ e # d
    BY <1>8, <1>9, <1>11 DEF Cpts
  <2>2. t \in Existing /\ e # 0 => mem'[e] = mem[e]
    BY <1>2, <1>5, <2>1 DEF Written
  <2>3. QED
    BY <1>6, <1>11, <2>2
<1>12. QED
  BY <1>10, <1>11

\* The tables after the contents of table c are replaced.
WithTable(c, table) == [mem EXCEPT ![c] = table]

\* A new table shows up in the section that got it, and no other section changes.
LEMMA GrownSees ==
    ASSUME SpaceInv, SpaceInv', live' = live, NEW o \in Existing, NEW sec \in Own(o),
           NEW c \in Cpts, NEW gone, Grown(o, sec, c, gone), NEW table,
           mem' = WithTable(c, table)
    PROVE  \A t \in All, b \in Sections :
              Seen'[t][b] = IF Sees(t, b, o, sec) THEN table ELSE Seen[t][b]
<1>1. Existing' = Existing /\ c # 0
  BY CptsNumbers DEF Existing
<1>2. mem \in [Cpts -> Tables] /\ sec \in Sections
  BY Existence DEF SpaceInv, Typed
<1>3. \A s, t \in Existing, a, b \in Sections :
        Tt(space'[s])[a] = Tt(space'[t])[b] /\ Tt(space'[s])[a] # 0
            => a = b /\ (s = t \/ a \in KernelSections)
  <2>1. (\A s, t \in Existing, a, b \in Sections :
          Tt(space[s])[a] = Tt(space[t])[b] /\ Tt(space[s])[a] # 0
            => a = b /\ (s = t \/ a \in KernelSections))'
    BY PointersDiffer, PTL
  <2>2. QED
    BY <1>1, <2>1
<1> SUFFICES ASSUME NEW t \in All, NEW b \in Sections
             PROVE  Seen'[t][b] = IF Sees(t, b, o, sec) THEN table ELSE Seen[t][b]
  OBVIOUS
<1> DEFINE e == Tt(space[t])[b]
           e2 == Tt(space'[t])[b]
<1>4. /\ Seen[t][b] = IF t \in Existing /\ e # 0 THEN mem[e] ELSE Blank
      /\ Seen'[t][b] = IF t \in Existing /\ e2 # 0 THEN mem'[e2] ELSE Blank
  BY <1>1 DEF Seen
<1>5. CASE t \notin Existing
  BY <1>4, <1>5 DEF Sees
<1>6. CASE t \in Existing
  <2>1. /\ Tt(space[t]) \in [Sections -> 0 .. NCpts] /\ Tt(space[o]) \in [Sections -> 0 .. NCpts]
    BY <1>6, Existence
  <2>2. /\ Tt(space'[o]) = TtWith(Tt(space[o]), sec, c)
        /\ t # o => Tt(space'[t]) = IF o = Kernel THEN TtWith(Tt(space[t]), sec, c)
                                                   ELSE Tt(space[t])
    BY <1>6 DEF Grown
  <2>3. e2 = IF Sees(t, b, o, sec) THEN c ELSE e
    <3> DEFINE f == Tt(space[t])
    <3>1. f \in [Sections -> 0 .. NCpts]
      BY <2>1
    <3>2. t = o \/ o = Kernel => Tt(space'[t]) = TtWith(f, sec, c)
      BY <2>2
    <3>3. ~ (t = o \/ o = Kernel) => Tt(space'[t]) = f
      BY <2>2
    <3>4. e = f[b]
      OBVIOUS
    <3> HIDE DEF f, e
    <3>5. TtWith(f, sec, c)[b] = IF b = sec THEN c ELSE f[b]
      BY <1>2, <3>1, TtExcept, CptsNumbers
    <3>6. QED
      BY <1>6, <3>2, <3>3, <3>4, <3>5 DEF Sees
  <2>4. Tt(space'[o])[sec] = c
    <3> DEFINE f == Tt(space[o])
    <3>1. f \in [Sections -> 0 .. NCpts] /\ Tt(space'[o]) = TtWith(f, sec, c)
      BY <2>1, <2>2
    <3> HIDE DEF f
    <3>2. QED
      BY <1>2, <3>1, TtExcept, CptsNumbers
  <2>5. e2 = c => Sees(t, b, o, sec)
    <3> SUFFICES ASSUME e2 = c PROVE Sees(t, b, o, sec)
      OBVIOUS
    <3>1. b = sec /\ (t = o \/ b \in KernelSections)
      BY <1>1, <1>2, <1>3, <1>6, <2>4
    <3>2. QED
      BY <1>6, <3>1 DEF Sees, Own
  <2>6. e \in 0 .. NCpts
    BY <2>1
  <2> HIDE DEF e, e2
  <2>7. CASE Sees(t, b, o, sec)
    <3>1. mem'[c] = table
      BY <1>2 DEF WithTable
    <3>2. QED
      BY <1>1, <1>4, <1>6, <2>3, <2>7, <3>1
  <2>8. CASE ~ Sees(t, b, o, sec)
    <3>1. e2 = e /\ e # c
      BY <2>3, <2>5, <2>8
    <3>2. e # 0 => e \in Cpts /\ mem'[e] = mem[e]
      BY <1>2, <2>6, <3>1 DEF Cpts, WithTable
    <3>3. QED
      BY <1>4, <1>6, <2>8, <3>1, <3>2
  <2>9. QED
    BY <2>7, <2>8
<1>7. QED
  BY <1>5, <1>6

\* The new table of a section that had none: the page is all that changes.
LEMMA NewTableSees ==
    ASSUME SpaceInv, SpaceInv', live' = live, NEW o \in Existing, NEW sec \in Own(o),
           NEW c \in Cpts, Grown(o, sec, c, {}), NEW slot \in Slots, NEW page \in Pages,
           ~ Listed(space[o].cptds, sec), mem' = NewTable(c, slot, page)
    PROVE  SeesPage(o, sec, slot, page)
<1> DEFINE table == [Blank EXCEPT ![slot] = page]
<1>1. mem' = WithTable(c, table)
  BY DEF NewTable, WithTable
<1>2. ASSUME NEW t \in All, NEW b \in Sections, Sees(t, b, o, sec)
      PROVE  Seen[t][b] = Blank
  <2>1. Tt(space[o])[sec] = 0
    <3>1. Tidy(space[o], Own(o))
      BY Existence
    <3>2. QED
      BY <3>1 DEF Tidy, Matched, Tt
  <2>2. Tt(space[t])[b] = 0
    BY <1>2, <2>1 DEF Sees, SpaceInv, Foreign, Own, Existing
  <2>3. QED
    BY <2>2 DEF Seen
<1> HIDE DEF table
<1>3. \A t \in All, b \in Sections :
        Seen'[t][b] = IF Sees(t, b, o, sec) THEN table ELSE Seen[t][b]
  <2> DEFINE none == {}
  <2>1. Grown(o, sec, c, none)
    OBVIOUS
  <2> HIDE DEF none
  <2>2. QED
    BY <1>1, <2>1, GrownSees
<1>4. QED
  BY <1>2, <1>3 DEF SeesPage, table

LEMMA SeesPageMaps ==
    ASSUME SpaceInv, SpaceInv', live' = live, NEW slot \in Slots, NEW page \in Pages,
           NEW o \in Existing, NEW sec \in Own(o), SeesPage(o, sec, slot, page)
    PROVE  IF o = Kernel THEN A!MapKernel(sec, slot, page) ELSE A!MapUser(o, sec, slot, page)
<1>1. /\ View = Seen /\ View' = Seen'
      /\ Seen \in [All -> [Sections -> Tables]] /\ Seen' \in [All -> [Sections -> Tables]]
  BY ViewSeen, ViewSeenNext
<1>2. o \in All /\ sec \in Sections /\ Existing \subseteq All
  BY Existence
<1> DEFINE V == Seen
           W == Seen'
<1>3. \A t \in All, b \in Sections :
         W[t][b] = IF Sees(t, b, o, sec) THEN [V[t][b] EXCEPT ![slot] = page] ELSE V[t][b]
  BY DEF SeesPage
<1>4. V \in [All -> [Sections -> Tables]] /\ W \in [All -> [Sections -> Tables]]
      /\ View = V /\ View' = W
  BY <1>1
<1> HIDE DEF V, W
<1>5. CASE o = Kernel
  <2>1. \A t \in All : W[t] = IF t \in Existing THEN [V[t] EXCEPT ![sec][slot] = page] ELSE V[t]
    <3> SUFFICES ASSUME NEW t \in All
                 PROVE  W[t] = IF t \in Existing THEN [V[t] EXCEPT ![sec][slot] = page] ELSE V[t]
      OBVIOUS
    <3>1. V[t] \in [Sections -> Tables] /\ W[t] \in [Sections -> Tables]
      BY <1>4
    <3>2. CASE t \in Existing
      <4>1. \A b \in Sections : W[t][b] = IF b = sec THEN [V[t][b] EXCEPT ![slot] = page] ELSE V[t][b]
        BY <1>3, <1>5, <3>2 DEF Sees
      <4>2. W[t] = [V[t] EXCEPT ![sec][slot] = page]
        BY <1>2, <3>1, <4>1
      <4>3. QED
        BY <3>2, <4>2
    <3>3. CASE t \notin Existing
      <4>1. \A b \in Sections : W[t][b] = V[t][b]
        BY <1>3, <3>3 DEF Sees
      <4>2. W[t] = V[t]
        BY <3>1, <4>1
      <4>3. QED
        BY <3>3, <4>2
    <3>4. QED
      BY <3>2, <3>3
  <2>2. W = [t \in Spaces \union {Kernel} |->
               IF t \in live \union {Kernel} THEN [V[t] EXCEPT ![sec][slot] = page] ELSE V[t]]
    BY <1>4, <2>1 DEF All, Existing
  <2>3. QED
    BY <1>4, <1>5, <2>2 DEF A!MapKernel
<1>6. CASE o # Kernel
  <2>1. \A t \in All : W[t] = IF t = o THEN [V[t] EXCEPT ![sec][slot] = page] ELSE V[t]
    <3> SUFFICES ASSUME NEW t \in All
                 PROVE  W[t] = IF t = o THEN [V[t] EXCEPT ![sec][slot] = page] ELSE V[t]
      OBVIOUS
    <3>1. V[t] \in [Sections -> Tables] /\ W[t] \in [Sections -> Tables]
      BY <1>4
    <3>2. CASE t = o
      <4>1. \A b \in Sections : W[t][b] = IF b = sec THEN [V[t][b] EXCEPT ![slot] = page] ELSE V[t][b]
        BY <1>3, <3>2 DEF Sees
      <4>2. W[t] = [V[t] EXCEPT ![sec][slot] = page]
        BY <1>2, <3>1, <4>1
      <4>3. QED
        BY <3>2, <4>2
    <3>3. CASE t # o
      <4>1. \A b \in Sections : W[t][b] = V[t][b]
        BY <1>3, <1>6, <3>3 DEF Sees
      <4>2. W[t] = V[t]
        BY <3>1, <4>1
      <4>3. QED
        BY <3>3, <4>2
    <3>4. QED
      BY <3>2, <3>3
  <2>2. W = [V EXCEPT ![o][sec][slot] = page]
    <3>1. W = [t \in All |-> IF t = o THEN [V[t] EXCEPT ![sec][slot] = page] ELSE V[t]]
      BY <1>4, <2>1
    <3>2. QED
      BY <1>2, <1>4, <3>1
  <2>3. o \in live
    BY <1>6 DEF Existing
  <2>4. QED
    BY <1>4, <1>6, <2>2, <2>3 DEF A!MapUser
<1>7. QED
  BY <1>5, <1>6

LEMMA MigrateMaps ==
    ASSUME SpaceInv, SpaceInv', NEW sec \in KernelSections, NEW table \in Tables,
           live = {}, live' = live, NEW c \in Cpts, NEW gone,
           Grown(Kernel, sec, c, gone), mem' = WithTable(c, table)
    PROVE  A!Migrate(sec, table)
<1> DEFINE V == Seen
           W == Seen'
<1>1. /\ View = V /\ View' = W
      /\ V \in [All -> [Sections -> Tables]] /\ W \in [All -> [Sections -> Tables]]
  BY ViewSeen, ViewSeenNext
<1>2. /\ Kernel \in Existing /\ Kernel \in All /\ sec \in Own(Kernel) /\ sec \in Sections
      /\ Existing = {Kernel}
  BY DEF Existing, All, Own, Sections
<1>3. \A t \in All, b \in Sections :
         W[t][b] = IF Sees(t, b, Kernel, sec) THEN table ELSE V[t][b]
  BY <1>2, GrownSees
<1> HIDE DEF V, W
<1>4. \A t \in All, b \in Sections :
         W[t][b] = IF t = Kernel /\ b = sec THEN table ELSE V[t][b]
  BY <1>2, <1>3 DEF Sees
<1>5. \A t \in All : W[t] = IF t = Kernel THEN [V[t] EXCEPT ![sec] = table] ELSE V[t]
  <2> SUFFICES ASSUME NEW t \in All
               PROVE  W[t] = IF t = Kernel THEN [V[t] EXCEPT ![sec] = table] ELSE V[t]
    OBVIOUS
  <2>1. V[t] \in [Sections -> Tables] /\ W[t] \in [Sections -> Tables]
    BY <1>1
  <2>2. CASE t = Kernel
    BY <1>2, <1>4, <2>1, <2>2
  <2>3. CASE t # Kernel
    <3>1. W[t] = V[t]
      BY <1>4, <2>1, <2>3
    <3>2. QED
      BY <2>3, <3>1
  <2>4. QED
    BY <2>2, <2>3
<1>6. W = [V EXCEPT ![Kernel][sec] = table]
  <2>1. W = [t \in All |-> IF t = Kernel THEN [V[t] EXCEPT ![sec] = table] ELSE V[t]]
    BY <1>1, <1>5
  <2>2. QED
    BY <1>1, <1>2, <2>1
<1>7. QED
  BY <1>1, <1>6 DEF A!Migrate

LEMMA CreateMaps ==
    ASSUME SpaceInv, SpaceInv', NEW s \in Spaces, CreateAddressSpace(s)
    PROVE  A!Create(s)
<1> DEFINE V == Seen
           W == Seen'
           N == [sec \in Sections |-> IF sec \in KernelSections THEN V[Kernel][sec] ELSE Blank]
<1>1. /\ View = V /\ View' = W
      /\ V \in [All -> [Sections -> Tables]] /\ W \in [All -> [Sections -> Tables]]
  BY ViewSeen, ViewSeenNext
<1>2. /\ s \in All /\ s # Kernel /\ s \notin live /\ s \notin Existing /\ Kernel \in Existing
      /\ space \in [All -> Structs] /\ Kernel \in All /\ live \subseteq All
      /\ live' = live \union {s} /\ Existing' = Existing \union {s} /\ mem' = mem
      /\ Existing \subseteq All
  BY DEF SpaceInv, Typed, Existing, All, CreateAddressSpace
<1>3. \A t \in All : t # s => space'[t] = space[t]
  BY <1>2 DEF CreateAddressSpace
<1>4. ASSUME NEW t \in All, t # s PROVE W[t] = V[t]
  <2>1. \A b \in Sections : W[t][b] = V[t][b]
    BY <1>2, <1>3, <1>4 DEF Seen
  <2> HIDE DEF V, W
  <2>2. V[t] \in [Sections -> Tables] /\ W[t] \in [Sections -> Tables]
    BY <1>1
  <2>3. QED
    BY <2>1, <2>2
<1>5. W[s] = N
  <2>1. \A b \in KernelSections : Tt(space'[s])[b] = Tt(space'[Kernel])[b]
    BY <1>2 DEF SpaceInv, Foreign
  <2>2. \A b \in UserSections : Tt(space'[s])[b] = 0
    <3> DEFINE f == [sec \in Sections |->
                       IF Listed(space[Kernel].cptds, sec) THEN space[Kernel].tt[sec] ELSE 0]
    <3>1. space' = [space EXCEPT ![s] = [Empty EXCEPT !.tt = f]]
      BY DEF CreateAddressSpace
    <3>2. \A b \in UserSections : f[b] = 0
      BY DEF SpaceInv, Foreign, Tt, Sections
    <3> HIDE DEF f
    <3>3. space'[s] = [Empty EXCEPT !.tt = f]
      BY <1>2, <3>1
    <3>4. Tt(space'[s]) = f
      BY <3>3 DEF Empty, Tt
    <3>5. QED
      BY <3>2, <3>4
  <2>3. \A b \in KernelSections : b \in Sections
    BY DEF Sections
  <2>4. ASSUME NEW b \in KernelSections PROVE W[s][b] = V[Kernel][b]
    <3>1. Tt(space'[s])[b] = Tt(space[Kernel])[b]
      BY <1>2, <1>3, <2>1
    <3>2. QED
      BY <1>2, <2>3, <3>1 DEF Seen
  <2>5. ASSUME NEW b \in UserSections PROVE W[s][b] = Blank
    <3>1. b \in Sections
      BY DEF Sections
    <3>2. QED
      BY <1>2, <2>2, <3>1 DEF Seen
  <2>6. W[s] \in [Sections -> Tables]
    BY <1>1, <1>2
  <2> HIDE DEF V, W
  <2>7. \A b \in Sections : W[s][b] = IF b \in KernelSections THEN V[Kernel][b] ELSE Blank
    BY <2>4, <2>5 DEF Sections
  <2>8. QED
    BY <2>6, <2>7
<1> HIDE DEF V, W, N
<1>6. W = [V EXCEPT ![s] = N]
  BY <1>1, <1>2, <1>4, <1>5
<1>7. N = [sec \in A!Sections |-> IF sec \in KernelSections THEN View[Kernel][sec] ELSE A!Nothing[sec]]
  BY <1>1 DEF N, A!Sections, A!Nothing, Sections, Blank
<1>8. QED
  BY <1>1, <1>2, <1>6, <1>7 DEF A!Create

LEMMA DestroyMaps ==
    ASSUME SpaceInv, SpaceInv', NEW s \in Spaces, DestroyAddressSpace(s)
    PROVE  A!Destroy(s)
<1> DEFINE V == Seen
           W == Seen'
           N == [sec \in Sections |-> Blank]
<1>1. /\ View = V /\ View' = W
      /\ V \in [All -> [Sections -> Tables]] /\ W \in [All -> [Sections -> Tables]]
  BY ViewSeen, ViewSeenNext
<1>2. /\ s \in All /\ s # Kernel /\ s \in live /\ space \in [All -> Structs]
      /\ live' = live \ {s} /\ Existing' = Existing \ {s} /\ mem' = mem
      /\ space' = [space EXCEPT ![s] = Empty]
  BY DEF SpaceInv, Typed, Existing, All, DestroyAddressSpace
<1>3. \A t \in All : t # s => space'[t] = space[t]
  BY <1>2
<1>4. ASSUME NEW t \in All, t # s PROVE W[t] = V[t]
  <2>1. \A b \in Sections : W[t][b] = V[t][b]
    BY <1>2, <1>3, <1>4 DEF Seen
  <2> HIDE DEF V, W
  <2>2. V[t] \in [Sections -> Tables] /\ W[t] \in [Sections -> Tables]
    BY <1>1
  <2>3. QED
    BY <2>1, <2>2
<1>5. W[s] = N
  <2>1. \A b \in Sections : W[s][b] = Blank
    BY <1>2 DEF Seen
  <2> HIDE DEF W
  <2>2. W[s] \in [Sections -> Tables]
    BY <1>1, <1>2
  <2>3. QED
    BY <2>1, <2>2
<1> HIDE DEF V, W, N
<1>6. W = [V EXCEPT ![s] = N]
  BY <1>1, <1>2, <1>4, <1>5
<1>7. N = A!Nothing
  BY DEF N, A!Sections, A!Nothing, Sections, Blank
<1>8. QED
  BY <1>1, <1>2, <1>6, <1>7 DEF A!Destroy

\* The translation tables, the shared coarse page tables and the lists implement what
\* AddressSpaces promises: every step of virtual_MM.c changes what the spaces map the way
\* a step of AddressSpaces does, or not at all.
THEOREM Implementation == Spec => ImplementsAddressSpaces
<1>1. ASSUME Init, SpaceInv PROVE A!Init
  <2>1. live = {} /\ space = [s \in All |-> Empty] /\ View = Seen
    BY <1>1, ViewSeen DEF Init, All
  <2>2. \A s \in All, sec \in Sections : Tt(space[s])[sec] = 0
    BY <2>1 DEF Tt, Empty
  <2>3. Seen = [s \in All |-> [sec \in Sections |-> Blank]]
    BY <2>2 DEF Seen
  <2>4. A!Nothing = [sec \in Sections |-> Blank]
    BY DEF A!Nothing, A!Sections, Sections, Blank
  <2>5. QED
    BY <2>1, <2>3, <2>4 DEF A!Init, All
<1>2. ASSUME SpaceInv, SpaceInv', [Next]_vars PROVE [A!Next]_<<live, View>>
  <2>1. ASSUME NEW slot \in Slots, NEW page \in Pages, NEW sec \in KernelSections,
               AddVirtualKernelPage(sec, slot, page)
        PROVE  A!Next
    <3>1. Kernel \in Existing /\ sec \in Own(Kernel) /\ live' = live
      BY <2>1 DEF Existing, Own, AddVirtualKernelPage, AddToTable
    <3>2. CASE AddToTable(Kernel, sec, slot, page)
      BY <1>2, <3>1, <3>2, AddToTableSees, SeesPageMaps DEF A!Next
    <3>3. ASSUME NEW c \in Cpts \ cpts, ~ Listed(space[Kernel].cptds, sec),
                 space' = Propagate(sec, c), mem' = NewTable(c, slot, page)
          PROVE  A!MapKernel(sec, slot, page)
      <4>1. Grown(Kernel, sec, c, {})
        BY <1>2, <3>3, KernelGrows
      <4>2. SeesPage(Kernel, sec, slot, page)
        BY <1>2, <3>1, <3>3, <4>1, NewTableSees
      <4>3. QED
        BY <1>2, <3>1, <4>2, SeesPageMaps
    <3>4. QED
      BY <2>1, <3>2, <3>3 DEF AddVirtualKernelPage, A!Next
  <2>2. ASSUME NEW slot \in Slots, NEW page \in Pages, NEW s \in Spaces,
               NEW sec \in UserSections, AddVirtualPage(s, sec, slot, page)
        PROVE  A!Next
    <3>1. /\ s \in live /\ s \in Existing /\ s # Kernel /\ sec \in Own(s) /\ live' = live
      BY <2>2 DEF Existing, Own, AddVirtualPage, AddToTable
    <3>2. SeesPage(s, sec, slot, page)
      <4>1. CASE AddToTable(s, sec, slot, page)
        BY <1>2, <3>1, <4>1, AddToTableSees
      <4>2. ASSUME NEW c \in Cpts \ cpts, ~ Listed(space[s].cptds, sec),
                   space' = [space EXCEPT ![s] = WithSection(@, sec, c)],
                   mem' = NewTable(c, slot, page)
            PROVE  SeesPage(s, sec, slot, page)
        <5>1. Grown(s, sec, c, {})
          BY <1>2, <3>1, <4>2, UserGrows
        <5>2. QED
          BY <1>2, <3>1, <4>2, <5>1, NewTableSees
      <4>3. QED
        BY <2>2, <4>1, <4>2 DEF AddVirtualPage
    <3>3. A!MapUser(s, sec, slot, page)
      BY <1>2, <3>1, <3>2, SeesPageMaps
    <3>4. QED
      BY <3>3 DEF A!Next
  <2>3. ASSUME NEW sec \in KernelSections,
               NEW table \in [Slots -> (Pages \ pages) \union {NoPage}],
               MigrateKernelCPT(sec, table)
        PROVE  A!Next
    <3> DEFINE left == cpts \ (TablesOf(space[Kernel]) \ TablesOf(Without(space[Kernel], sec)))
    <3>1. PICK c \in Cpts \ left :
            /\ space' = [space EXCEPT ![Kernel] = WithSection(Without(space[Kernel], sec), sec, c)]
            /\ mem' = WithTable(c, table)
      BY <2>3 DEF MigrateKernelCPT, WithTable
    <3>2. ~ booted /\ live' = live /\ live = {} /\ table \in Tables
      BY <1>2, <2>3 DEF MigrateKernelCPT, SpaceInv, Typed, Tables
    <3> DEFINE L == left
    <3>3. L = cpts \ (TablesOf(space[Kernel]) \ TablesOf(Without(space[Kernel], sec)))
      OBVIOUS
    <3>4. c \in Cpts \ L /\ c \in Cpts
      BY <3>1
    <3> HIDE DEF L
    <3>5. \E gone \in SUBSET TablesOf(space[Kernel]) :
                L = cpts \ gone /\ Grown(Kernel, sec, c, gone)
      BY <1>2, <3>1, <3>2, <3>3, <3>4, MigrateGrows
    <3>6. PICK gone : Grown(Kernel, sec, c, gone)
      BY <3>5
    <3>7. A!Migrate(sec, table)
      BY <1>2, <3>1, <3>2, <3>4, <3>6, MigrateMaps
    <3>8. table \in [Slots -> Pages \union {NoPage}]
      BY <3>2 DEF Tables
    <3>9. QED
      BY <3>7, <3>8 DEF A!Next
  <2>4. ASSUME NEW s \in Spaces, CreateAddressSpace(s) PROVE A!Next
    BY <1>2, <2>4, CreateMaps DEF A!Next
  <2>5. ASSUME NEW s \in Spaces, DestroyAddressSpace(s) PROVE A!Next
    BY <1>2, <2>5, DestroyMaps DEF A!Next
  <2>6. ASSUME UNCHANGED <<space, live, mem>> PROVE UNCHANGED <<live, View>>
    BY <2>6 DEF View, PhysicalPage, Existing
  <2>7. CASE Booted
    BY <2>6, <2>7 DEF Booted
  <2>8. ASSUME NEW s \in Spaces, DestroyPanics(s) PROVE UNCHANGED <<live, View>>
    BY <2>6, <2>8 DEF DestroyPanics
  <2>9. ASSUME NEW s \in Spaces, ChangeAddressSpace(s) PROVE UNCHANGED <<live, View>>
    BY <2>6, <2>9 DEF ChangeAddressSpace
  <2>10. CASE IntoKernelSpace
    BY <2>6, <2>10 DEF IntoKernelSpace
  <2>11. CASE UNCHANGED vars
    BY <2>6, <2>11 DEF vars
  <2>12. QED
    BY <1>2, <2>1, <2>2, <2>3, <2>4, <2>5, <2>7, <2>8, <2>9, <2>10, <2>11 DEF Next
<1>3. QED
  BY <1>1, <1>2, SpaceInvariant, PTL DEF Spec, ImplementsAddressSpaces, A!Spec
=============================================================================
