------------------------- MODULE ModuleSystem_proofs -------------------------
(***************************************************************************)
(* Proofs about ModuleSystem: for every set of module files and every size *)
(* of the tables and of the memory, the modules in the list own exactly    *)
(* what is in use, and the hooks call only their functions.                *)
(***************************************************************************)
EXTENDS ModuleSystem, FiniteSetTheorems, SequenceTheorems, WellFoundedInduction, TLAPS

ImagesOf(ms) == {ms[i].image : i \in DOMAIN ms}
ObjsOf(ms) == {ms[i].mod : i \in DOMAIN ms} \union {ms[i].copy : i \in DOMAIN ms}

\* No two modules in a list share their name, their pages or one of their objects.
Apart(m, n) ==
    /\ m.name # n.name
    /\ m.image # n.image
    /\ m.mod \notin {n.mod, n.copy} /\ m.copy \notin {n.mod, n.copy}

Distinct(ms) == \A i, j \in DOMAIN ms : i # j => Apart(ms[i], ms[j])

OneToOne(f) == \A i, j \in DOMAIN f : f[i] = f[j] => i = j

\* A function is registered once, and by a module in the list that has functions.
Table(fns, ms) ==
    /\ OneToOne(fns)
    /\ \A k \in DOMAIN fns : \E i \in DOMAIN ms : ms[i].image = fns[k] /\ ms[i].hooks

\* Unless the tables were full, the functions of a module are registered.
Registered(draw, file, ms, ref) ==
    \A i \in DOMAIN ms : ms[i].hooks /\ ms[i].image \notin ref =>
        Contains(draw, ms[i].image) /\ Contains(file, ms[i].image)

\* The images of the modules hold what was copied from a file elf_fix_got had been through.
Copied == {"relocated", "unfixed"}

Assembled(mem, ms) == \A i \in DOMAIN ms : mem[ms[i].image] \in Copied

Lists ==
    /\ Distinct(modules)
    /\ Table(drawfns, modules) /\ Table(filefns, modules)
    /\ Registered(drawfns, filefns, modules, refused)
    /\ Assembled(content, modules)

Alive == gui \notin {"off", "panic"}

Inss == [pc : {"idle", "called", "path", "open", "loaded", "image"},
         name : Names \union {NoName}, path : Objs \union {NULL},
         elf : Objs \union {NULL}, start : Runs \union {NULL}, image : Runs \union {NULL}]

\* What an installation holds, by how far it is.
Stage(t, mem) ==
    /\ t \in Inss
    /\ t.pc \in {"idle", "called", "open"} =>
         t.path = NULL /\ t.elf = NULL /\ t.start = NULL /\ t.image = NULL
    /\ t.pc = "path" => t.path # NULL /\ t.elf = NULL /\ t.start = NULL /\ t.image = NULL
    /\ t.pc = "loaded" => t.path = NULL /\ t.elf # NULL /\ t.start # NULL /\ t.image = NULL
    /\ t.pc = "image" => /\ t.path = NULL /\ t.elf # NULL /\ t.start # NULL /\ t.image # NULL
                         /\ t.start # t.image /\ mem[t.image] \in Copied \union {"cleared"}
    /\ t.pc # "idle" => t.name \in Names

Runs0(t) == {t.start, t.image} \ {NULL}
Objs0(t) == {t.path, t.elf} \ {NULL}

Installing ==
    /\ gui \in {"os", "off", "panic"} => ins.pc = "idle"
    /\ hooked <=> Alive
    /\ Stage(ins, content)
    /\ ins.pc \notin {"idle", "called"} =>
         \A i \in DOMAIN modules : modules[i].name # ins.name
    /\ Runs0(ins) \intersect ImagesOf(modules) = {}
    /\ Objs0(ins) \intersect ObjsOf(modules) = {}
    /\ files = IF ins.pc = "open" THEN 1 ELSE 0

\* What is in use is in the list, or held by the installation under way.
Owned ==
    Alive => /\ runs = ImagesOf(modules) \union Runs0(ins)
             /\ objs = ObjsOf(modules) \union Objs0(ins)

ModInv == TypeOK /\ Lists /\ Installing /\ Owned
-----------------------------------------------------------------------------
(***************************************************************************)
(* Choosing memory.                                                        *)
(***************************************************************************)
LEMMA MinIn ==
    ASSUME NEW S, S \subseteq Nat, S # {}
    PROVE  Min(S) \in S
<1> DEFINE R == {ss \in Nat \X Nat : ss[1] < ss[2]}
<1>1. IsWellFoundedOn(R, Nat)
  BY NatLessThanWellFounded DEF OpToRel
<1> HIDE DEF R
<1>2. PICK x \in S : \A y \in S : ~ (<<y, x>> \in R)
  BY <1>1, WFMin
<1>3. \A y \in S : x <= y
  <2> SUFFICES ASSUME NEW y \in S, y < x PROVE FALSE
    OBVIOUS
  <2>1. <<y, x>> \in R
    BY DEF R
  <2>2. QED
    BY <1>2, <2>1
<1>4. QED
  BY <1>3 DEF Min

LEMMA KmallocIn ==
    ASSUME NEW used, Objs \ used # {}
    PROVE  Kmalloc(used) \in Objs \ used
<1>1. Objs \ used \subseteq Nat
  BY BoundsAssumption DEF Objs
<1>2. QED
  BY <1>1, MinIn DEF Kmalloc

LEMMA FreeRunIn ==
    ASSUME Runs \ runs # {}
    PROVE  FreeRun \in Runs \ runs
<1>1. Runs \ runs \subseteq Nat
  BY BoundsAssumption DEF Runs
<1>2. QED
  BY <1>1, MinIn DEF FreeRun

\* Of two free objects, one is left when the other is taken.
LEMMA TwoObjects ==
    ASSUME Cardinality(Objs \ objs) >= 2
    PROVE  /\ Kmalloc(objs) \in Objs \ objs
           /\ Kmalloc(objs \union {Kmalloc(objs)}) \in Objs \ (objs \union {Kmalloc(objs)})
<1> DEFINE F == Objs \ objs
<1>1. IsFiniteSet(Objs)
  BY FS_Interval, BoundsAssumption DEF Objs
<1>2. IsFiniteSet(F)
  BY <1>1, FS_Difference
<1>3. F # {}
  BY FS_EmptySet
<1>4. Kmalloc(objs) \in F
  BY <1>3, KmallocIn
<1> DEFINE k == Kmalloc(objs)
<1>5. Cardinality(F \ {k}) = Cardinality(F) - 1 /\ Cardinality(F) \in Nat
  BY <1>2, <1>4, FS_RemoveElement, FS_CardinalityType
<1>6. F \ {k} # {}
  BY <1>5, FS_EmptySet
<1>7. Objs \ (objs \union {k}) # {}
  BY <1>6
<1> HIDE DEF k
<1>8. Kmalloc(objs \union {k}) \in Objs \ (objs \union {k})
  BY <1>7, KmallocIn
<1>9. QED
  BY <1>4, <1>8 DEF k
-----------------------------------------------------------------------------
(***************************************************************************)
(* Lists.                                                                  *)
(***************************************************************************)
LEMMA AtHead ==
    ASSUME NEW S, NEW s \in Seq(S), NEW e \in S
    PROVE  /\ <<e>> \o s \in Seq(S) /\ Len(<<e>> \o s) = Len(s) + 1
           /\ DOMAIN (<<e>> \o s) = 1 .. Len(s) + 1
           /\ (<<e>> \o s)[1] = e
           /\ \A i \in 2 .. Len(s) + 1 : (<<e>> \o s)[i] = s[i - 1] /\ i - 1 \in DOMAIN s
           /\ \A i \in DOMAIN s : s[i] = (<<e>> \o s)[i + 1] /\ i + 1 \in 2 .. Len(s) + 1
OBVIOUS

LEMMA RemovedAt ==
    ASSUME NEW S, NEW s \in Seq(S), NEW i \in 1 .. Len(s)
    PROVE  /\ RemoveAt(s, i) \in Seq(S) /\ Len(RemoveAt(s, i)) = Len(s) - 1
           /\ \A j \in 1 .. Len(s) - 1 : RemoveAt(s, i)[j] = s[IF j < i THEN j ELSE j + 1]
<1> DEFINE a == SubSeq(s, 1, i - 1)
           b == SubSeq(s, i + 1, Len(s))
<1>1. /\ a \in Seq(S) /\ Len(a) = i - 1
      /\ \A j \in 1 .. i - 1 : a[j] = s[j]
  OBVIOUS
<1>2. /\ b \in Seq(S) /\ Len(b) = Len(s) - i
      /\ \A j \in 1 .. Len(s) - i : b[j] = s[j + i]
  OBVIOUS
<1> HIDE DEF a, b
<1>3. /\ a \o b \in Seq(S) /\ Len(a \o b) = Len(s) - 1
      /\ \A j \in 1 .. Len(s) - 1 : (a \o b)[j] = IF j < i THEN a[j] ELSE b[j - (i - 1)]
  <2>1. /\ a \o b \in Seq(S) /\ Len(a \o b) = Len(a) + Len(b)
        /\ \A j \in 1 .. Len(a) + Len(b) :
             (a \o b)[j] = IF j <= Len(a) THEN a[j] ELSE b[j - Len(a)]
    BY <1>1, <1>2, ConcatProperties
  <2>2. Len(a) + Len(b) = Len(s) - 1 /\ \A j \in Nat : j <= Len(a) <=> j < i
    BY <1>1, <1>2
  <2>3. QED
    BY <1>1, <2>1, <2>2
<1>4. ASSUME NEW j \in 1 .. Len(s) - 1
      PROVE  (a \o b)[j] = s[IF j < i THEN j ELSE j + 1]
  <2>1. CASE j < i
    BY <1>1, <1>3, <2>1
  <2>2. CASE ~ (j < i)
    <3>1. j - (i - 1) \in 1 .. Len(s) - i /\ (j - (i - 1)) + i = j + 1
      BY <2>2
    <3>2. QED
      BY <1>2, <1>3, <2>2, <3>1
  <2>3. QED
    BY <2>1, <2>2
<1>5. QED
  BY <1>3, <1>4 DEF RemoveAt, a, b

\* The entries a removal leaves are those at other places.
LEMMA RemovedOthers ==
    ASSUME NEW S, NEW s \in Seq(S), NEW i \in 1 .. Len(s)
    PROVE  /\ \A j \in DOMAIN RemoveAt(s, i) : \E k \in DOMAIN s \ {i} : RemoveAt(s, i)[j] = s[k]
           /\ \A k \in DOMAIN s \ {i} : \E j \in DOMAIN RemoveAt(s, i) : RemoveAt(s, i)[j] = s[k]
<1> DEFINE r == RemoveAt(s, i)
<1>1. /\ DOMAIN r = 1 .. Len(s) - 1 /\ DOMAIN s = 1 .. Len(s) /\ Len(s) \in Nat
      /\ \A j \in 1 .. Len(s) - 1 : r[j] = s[IF j < i THEN j ELSE j + 1]
  <2>1. /\ r \in Seq(S) /\ Len(r) = Len(s) - 1
        /\ \A j \in 1 .. Len(s) - 1 : r[j] = s[IF j < i THEN j ELSE j + 1]
    BY RemovedAt
  <2> HIDE DEF r
  <2>2. DOMAIN r = 1 .. Len(r)
    BY <2>1
  <2>3. QED
    BY <2>1, <2>2
<1> HIDE DEF r
<1>2. ASSUME NEW j \in DOMAIN r PROVE \E k \in DOMAIN s \ {i} : r[j] = s[k]
  <2>1. CASE j < i
    BY <1>1, <2>1
  <2>2. CASE ~ (j < i)
    <3>1. j + 1 \in DOMAIN s \ {i} /\ r[j] = s[j + 1]
      BY <1>1, <2>2
    <3>2. QED
      BY <3>1
  <2>3. QED
    BY <2>1, <2>2
<1>3. ASSUME NEW k \in DOMAIN s \ {i} PROVE \E j \in DOMAIN r : r[j] = s[k]
  <2>1. CASE k < i
    <3>1. k \in DOMAIN r /\ r[k] = s[k]
      BY <1>1, <2>1
    <3>2. QED
      BY <3>1
  <2>2. CASE k > i
    <3>1. k - 1 \in DOMAIN r /\ ~ (k - 1 < i) /\ (k - 1) + 1 = k
      BY <1>1, <2>2
    <3>2. r[k - 1] = s[k]
      BY <1>1, <3>1
    <3>3. QED
      BY <3>1, <3>2
  <2>3. QED
    BY <1>1, <2>1, <2>2
<1>4. QED
  BY <1>2, <1>3 DEF r

LEMMA RemovedOneToOne ==
    ASSUME NEW S, NEW s \in Seq(S), OneToOne(s), NEW i \in 1 .. Len(s)
    PROVE  OneToOne(RemoveAt(s, i))
<1> DEFINE r == RemoveAt(s, i)
<1>1. /\ DOMAIN r = 1 .. Len(s) - 1 /\ DOMAIN s = 1 .. Len(s) /\ Len(s) \in Nat
      /\ \A j \in 1 .. Len(s) - 1 : r[j] = s[IF j < i THEN j ELSE j + 1]
  <2>1. /\ r \in Seq(S) /\ Len(r) = Len(s) - 1
        /\ \A j \in 1 .. Len(s) - 1 : r[j] = s[IF j < i THEN j ELSE j + 1]
    BY RemovedAt
  <2> HIDE DEF r
  <2>2. DOMAIN r = 1 .. Len(r)
    BY <2>1
  <2>3. QED
    BY <2>1, <2>2
<1> HIDE DEF r
<1> SUFFICES ASSUME NEW j \in DOMAIN r, NEW k \in DOMAIN r, r[j] = r[k] PROVE j = k
  BY DEF OneToOne, r
<1> DEFINE J == IF j < i THEN j ELSE j + 1
           K == IF k < i THEN k ELSE k + 1
<1>2. J \in DOMAIN s /\ K \in DOMAIN s /\ s[J] = s[K]
  BY <1>1
<1>3. J = K
  BY <1>2 DEF OneToOne
<1>4. QED
  BY <1>1, <1>3
-----------------------------------------------------------------------------
(***************************************************************************)
(* The tables of functions.                                                *)
(***************************************************************************)

\* A function registered once leaves the table with its entry, and no other does.
LEMMA Unregistered ==
    ASSUME NEW fns \in Seq(Runs), OneToOne(fns), NEW image, CanUnregister(fns, image)
    PROVE  /\ Unregister(fns, image) \in Seq(Runs)
           /\ Len(Unregister(fns, image)) <= Len(fns)
           /\ OneToOne(Unregister(fns, image))
           /\ \A k \in DOMAIN Unregister(fns, image) :
                /\ Unregister(fns, image)[k] # image
                /\ \E j \in DOMAIN fns : Unregister(fns, image)[k] = fns[j]
           /\ \A r : r # image => (Contains(Unregister(fns, image), r) <=> Contains(fns, r))
<1>1. PICK p \in DOMAIN fns : fns[p] = image
  BY DEF CanUnregister, Contains
<1>2. \A i \in DOMAIN fns : fns[i] = image => i = p
  BY <1>1 DEF OneToOne
<1>3. Unregister(fns, image) = RemoveAt(fns, p)
  <2> DEFINE First(i) == fns[i] = image /\ \A j \in 1 .. i - 1 : fns[j] # image
             c == CHOOSE i \in DOMAIN fns : First(i)
  <2>1. First(p)
    <3> SUFFICES ASSUME NEW j \in 1 .. p - 1, fns[j] = image PROVE FALSE
      BY <1>1
    <3>1. j \in DOMAIN fns /\ j # p
      OBVIOUS
    <3>2. QED
      BY <1>2, <3>1
  <2>2. c \in DOMAIN fns /\ First(c)
    BY <2>1
  <2>3. c = p
    BY <1>2, <2>2
  <2>4. QED
    BY <2>3 DEF Unregister, RemoveAt
<1> DEFINE u == RemoveAt(fns, p)
<1>4. /\ u \in Seq(Runs) /\ Len(u) = Len(fns) - 1 /\ OneToOne(u) /\ Len(fns) \in Nat
      /\ \A j \in DOMAIN u : \E k \in DOMAIN fns \ {p} : u[j] = fns[k]
      /\ \A k \in DOMAIN fns \ {p} : \E j \in DOMAIN u : u[j] = fns[k]
  BY RemovedAt, RemovedOthers, RemovedOneToOne
<1> HIDE DEF u
<1>5. \A k \in DOMAIN u : u[k] # image /\ \E j \in DOMAIN fns : u[k] = fns[j]
  BY <1>2, <1>4
<1>6. ASSUME NEW r, r # image PROVE Contains(u, r) <=> Contains(fns, r)
  <2>1. DOMAIN u = 1 .. Len(u) /\ DOMAIN fns = 1 .. Len(fns)
    BY <1>4
  <2>2. ASSUME NEW k \in DOMAIN fns, fns[k] = r PROVE \E j \in DOMAIN u : u[j] = r
    <3>1. k \in DOMAIN fns \ {p}
      BY <1>1, <1>6, <2>2
    <3>2. QED
      BY <1>4, <2>2, <3>1
  <2>3. QED
    BY <1>5, <2>1, <2>2 DEF Contains
<1>7. QED
  BY <1>3, <1>4, <1>5, <1>6 DEF u

LEMMA RegisteredNew ==
    ASSUME NEW fns \in Seq(Runs), Len(fns) <= MaxFns, NEW image \in Runs
    PROVE  /\ Register(fns, image) \in Seq(Runs) /\ Len(Register(fns, image)) <= MaxFns
           /\ \A k \in DOMAIN Register(fns, image) :
                \/ Register(fns, image)[k] = image
                \/ k \in DOMAIN fns /\ Register(fns, image)[k] = fns[k]
           /\ OneToOne(fns) /\ (\A k \in DOMAIN fns : fns[k] # image) =>
                OneToOne(Register(fns, image))
           /\ CanRegister(fns) => Contains(Register(fns, image), image)
           /\ \A r : r # image => (Contains(Register(fns, image), r) <=> Contains(fns, r))
<1>1. CASE ~ CanRegister(fns)
  BY <1>1 DEF Register
<1>2. CASE CanRegister(fns)
  <2> DEFINE a == Append(fns, image)
             n == Len(fns)
  <2>1. /\ a \in Seq(Runs) /\ Len(a) = n + 1 /\ DOMAIN a = 1 .. n + 1 /\ DOMAIN fns = 1 .. n
        /\ \A k \in 1 .. n : a[k] = fns[k]
        /\ a[n + 1] = image /\ n \in Nat /\ n < MaxFns
    BY <1>2 DEF CanRegister
  <2>2. Register(fns, image) = a
    BY <1>2 DEF Register
  <2> HIDE DEF a, n
  <2>3. \A k \in DOMAIN a : k = n + 1 \/ k \in DOMAIN fns
    BY <2>1
  <2>4. Len(a) <= MaxFns
    BY <2>1, BoundsAssumption
  <2>5. OneToOne(fns) /\ (\A k \in DOMAIN fns : fns[k] # image) => OneToOne(a)
    BY <2>1, <2>3 DEF OneToOne
  <2>6. n + 1 \in 1 .. Len(a)
    BY <2>1
  <2>7. Contains(a, image)
    BY <2>1, <2>6 DEF Contains
  <2>8. ASSUME NEW r, r # image PROVE Contains(a, r) <=> Contains(fns, r)
    <3>1. ASSUME NEW k \in 1 .. Len(a), a[k] = r PROVE Contains(fns, r)
      <4>1. k \in 1 .. n
        BY <2>1, <2>8, <3>1
      <4>2. QED
        BY <2>1, <3>1, <4>1 DEF Contains, n
    <3>2. ASSUME NEW k \in 1 .. n, fns[k] = r PROVE Contains(a, r)
      <4>1. k \in 1 .. Len(a) /\ a[k] = r
        BY <2>1, <3>2
      <4>2. QED
        BY <4>1 DEF Contains
    <3>3. QED
      BY <3>1, <3>2 DEF Contains, n
  <2>9. QED
    BY <2>1, <2>2, <2>3, <2>4, <2>5, <2>7, <2>8
<1>3. QED
  BY <1>1, <1>2
-----------------------------------------------------------------------------
(***************************************************************************)
(* The list of modules.                                                    *)
(***************************************************************************)
LEMMA LinkedIn ==
    ASSUME NEW ms \in Seq(Modules), NEW new \in Modules, Distinct(ms),
           \A i \in DOMAIN ms : Apart(ms[i], new)
    PROVE  LET ls == <<new>> \o ms
           IN  /\ ls \in Seq(Modules) /\ Distinct(ls)
               /\ \A j \in DOMAIN ls : ls[j] = new \/ \E i \in DOMAIN ms : ls[j] = ms[i]
               /\ \E j \in DOMAIN ls : ls[j] = new
               /\ \A i \in DOMAIN ms : \E j \in DOMAIN ls : ls[j] = ms[i]
               /\ ImagesOf(ls) = ImagesOf(ms) \union {new.image}
               /\ ObjsOf(ls) = ObjsOf(ms) \union {new.mod, new.copy}
<1> DEFINE ls == <<new>> \o ms
           n == Len(ms)
<1>1. /\ ls \in Seq(Modules) /\ DOMAIN ls = 1 .. n + 1 /\ ls[1] = new
      /\ \A i \in 2 .. n + 1 : ls[i] = ms[i - 1] /\ i - 1 \in DOMAIN ms
      /\ \A i \in DOMAIN ms : ms[i] = ls[i + 1] /\ i + 1 \in 2 .. n + 1
  BY AtHead
<1>2. n \in Nat
  OBVIOUS
<1> HIDE DEF ls, n
<1>3. 1 \in DOMAIN ls /\ \A j \in DOMAIN ls : j = 1 \/ j \in 2 .. n + 1
  BY <1>1, <1>2
<1>4. \A j \in DOMAIN ls : ls[j] = new \/ \E i \in DOMAIN ms : ls[j] = ms[i]
  BY <1>1, <1>3
<1>5. \A i \in DOMAIN ms : \E j \in DOMAIN ls : ls[j] = ms[i]
  <2> SUFFICES ASSUME NEW i \in DOMAIN ms PROVE \E j \in DOMAIN ls : ls[j] = ms[i]
    OBVIOUS
  <2>1. i + 1 \in DOMAIN ls /\ ls[i + 1] = ms[i]
    BY <1>1, <1>2
  <2>2. QED
    BY <2>1
<1>6. \E j \in DOMAIN ls : ls[j] = new
  BY <1>1, <1>3
<1>7. \A i \in DOMAIN ms : Apart(new, ms[i])
  BY DEF Apart
<1>8. Distinct(ls)
  <2> SUFFICES ASSUME NEW i \in DOMAIN ls, NEW j \in DOMAIN ls, i # j PROVE Apart(ls[i], ls[j])
    BY DEF Distinct
  <2>1. CASE i = 1
    <3>1. ls[i] = new /\ j \in 2 .. n + 1 /\ ls[j] = ms[j - 1] /\ j - 1 \in DOMAIN ms
      BY <1>1, <1>3, <2>1
    <3>2. QED
      BY <1>7, <3>1
  <2>2. CASE j = 1
    <3>1. ls[j] = new /\ i \in 2 .. n + 1 /\ ls[i] = ms[i - 1] /\ i - 1 \in DOMAIN ms
      BY <1>1, <1>3, <2>2
    <3>2. QED
      BY <3>1
  <2>3. CASE i # 1 /\ j # 1
    <3>1. i \in 2 .. n + 1 /\ j \in 2 .. n + 1
      BY <1>3, <2>3
    <3>2. /\ ls[i] = ms[i - 1] /\ i - 1 \in DOMAIN ms
          /\ ls[j] = ms[j - 1] /\ j - 1 \in DOMAIN ms /\ i - 1 # j - 1
      BY <1>1, <3>1
    <3>3. QED
      BY <3>2 DEF Distinct
  <2>4. QED
    BY <2>1, <2>2, <2>3
<1>9. ImagesOf(ls) = ImagesOf(ms) \union {new.image}
  BY <1>4, <1>5, <1>6 DEF ImagesOf
<1>10. ObjsOf(ls) = ObjsOf(ms) \union {new.mod, new.copy}
  <2>1. {ls[i].mod : i \in DOMAIN ls} = {ms[i].mod : i \in DOMAIN ms} \union {new.mod}
    BY <1>4, <1>5, <1>6
  <2>2. {ls[i].copy : i \in DOMAIN ls} = {ms[i].copy : i \in DOMAIN ms} \union {new.copy}
    BY <1>4, <1>5, <1>6
  <2>3. QED
    BY <2>1, <2>2 DEF ObjsOf
<1>11. QED
  BY <1>1, <1>4, <1>5, <1>6, <1>8, <1>9, <1>10 DEF ls

LEMMA Unlinked ==
    ASSUME NEW ms \in Seq(Modules), Distinct(ms), NEW i \in 1 .. Len(ms)
    PROVE  LET ls == RemoveAt(ms, i)
           IN  /\ ls \in Seq(Modules) /\ Distinct(ls)
               /\ \A j \in DOMAIN ls : \E k \in DOMAIN ms \ {i} : ls[j] = ms[k]
               /\ \A k \in DOMAIN ms \ {i} : \E j \in DOMAIN ls : ls[j] = ms[k]
               /\ ImagesOf(ls) = ImagesOf(ms) \ {ms[i].image}
               /\ ObjsOf(ls) = ObjsOf(ms) \ {ms[i].mod, ms[i].copy}
<1> DEFINE ls == RemoveAt(ms, i)
<1>1. /\ ls \in Seq(Modules) /\ Len(ls) = Len(ms) - 1
      /\ \A j \in 1 .. Len(ms) - 1 : ls[j] = ms[IF j < i THEN j ELSE j + 1]
      /\ \A j \in DOMAIN ls : \E k \in DOMAIN ms \ {i} : ls[j] = ms[k]
      /\ \A k \in DOMAIN ms \ {i} : \E j \in DOMAIN ls : ls[j] = ms[k]
  <2>1. /\ ls \in Seq(Modules) /\ Len(ls) = Len(ms) - 1
        /\ \A j \in 1 .. Len(ms) - 1 : ls[j] = ms[IF j < i THEN j ELSE j + 1]
    BY RemovedAt
  <2>2. /\ \A j \in DOMAIN ls : \E k \in DOMAIN ms \ {i} : ls[j] = ms[k]
        /\ \A k \in DOMAIN ms \ {i} : \E j \in DOMAIN ls : ls[j] = ms[k]
    BY RemovedOthers
  <2>3. QED
    BY <2>1, <2>2
<1> HIDE DEF ls
<1>2. DOMAIN ls = 1 .. Len(ms) - 1 /\ DOMAIN ms = 1 .. Len(ms) /\ Len(ms) \in Nat
  BY <1>1
<1>3. Distinct(ls)
  <2> SUFFICES ASSUME NEW j \in DOMAIN ls, NEW k \in DOMAIN ls, j # k PROVE Apart(ls[j], ls[k])
    BY DEF Distinct
  <2> DEFINE J == IF j < i THEN j ELSE j + 1
             K == IF k < i THEN k ELSE k + 1
  <2>1. ls[j] = ms[J] /\ ls[k] = ms[K]
    BY <1>1, <1>2
  <2>2. J \in DOMAIN ms /\ K \in DOMAIN ms /\ J # K
    BY <1>2
  <2>3. QED
    BY <2>1, <2>2 DEF Distinct
<1>4. \A k \in DOMAIN ms \ {i} : Apart(ms[k], ms[i])
  BY <1>2 DEF Distinct
<1>5. ImagesOf(ls) = ImagesOf(ms) \ {ms[i].image}
  <2>1. ASSUME NEW r \in ImagesOf(ls) PROVE r \in ImagesOf(ms) \ {ms[i].image}
    <3>1. PICK j \in DOMAIN ls : r = ls[j].image
      BY <2>1 DEF ImagesOf
    <3>2. PICK k \in DOMAIN ms \ {i} : ls[j] = ms[k]
      BY <1>1
    <3>3. r = ms[k].image /\ Apart(ms[k], ms[i])
      BY <1>4, <3>1, <3>2
    <3>4. QED
      BY <3>3 DEF Apart, ImagesOf
  <2>2. ASSUME NEW r \in ImagesOf(ms) \ {ms[i].image} PROVE r \in ImagesOf(ls)
    <3>1. PICK k \in DOMAIN ms : r = ms[k].image
      BY <2>2 DEF ImagesOf
    <3>2. PICK j \in DOMAIN ls : ls[j] = ms[k]
      BY <1>1, <2>2, <3>1
    <3>3. QED
      BY <3>1, <3>2 DEF ImagesOf
  <2>3. QED
    BY <2>1, <2>2
<1>6. ObjsOf(ls) = ObjsOf(ms) \ {ms[i].mod, ms[i].copy}
  <2>1. ASSUME NEW o \in ObjsOf(ls) PROVE o \in ObjsOf(ms) \ {ms[i].mod, ms[i].copy}
    <3>1. PICK j \in DOMAIN ls : o \in {ls[j].mod, ls[j].copy}
      BY <2>1 DEF ObjsOf
    <3>2. PICK k \in DOMAIN ms \ {i} : ls[j] = ms[k]
      BY <1>1
    <3>3. o \in {ms[k].mod, ms[k].copy} /\ Apart(ms[k], ms[i])
      BY <1>4, <3>1, <3>2
    <3>4. QED
      BY <3>3 DEF Apart, ObjsOf
  <2>2. ASSUME NEW o \in ObjsOf(ms) \ {ms[i].mod, ms[i].copy} PROVE o \in ObjsOf(ls)
    <3>1. PICK k \in DOMAIN ms : o \in {ms[k].mod, ms[k].copy}
      BY <2>2 DEF ObjsOf
    <3>2. k # i
      BY <2>2, <3>1
    <3>3. PICK j \in DOMAIN ls : ls[j] = ms[k]
      BY <1>1, <3>2
    <3>4. QED
      BY <3>1, <3>3 DEF ObjsOf
  <2>3. QED
    BY <2>1, <2>2
<1>7. QED
  BY <1>1, <1>3, <1>5, <1>6 DEF ls

-----------------------------------------------------------------------------
(***************************************************************************)
(* The steps of an installation.                                           *)
(***************************************************************************)
LEMMA IdleStage ==
    /\ \A mem : Stage(Idle, mem)
    /\ Idle.pc = "idle" /\ Runs0(Idle) = {} /\ Objs0(Idle) = {}
BY DEF Idle, Stage, Inss, Runs0, Objs0

LEMMA CalledStage ==
    ASSUME NEW name \in Names
    PROVE  LET t == [Idle EXCEPT !.pc = "called", !.name = name]
           IN  /\ \A mem : Stage(t, mem)
               /\ t.pc = "called" /\ t.name = name /\ Runs0(t) = {} /\ Objs0(t) = {}
BY DEF Idle, Stage, Inss, Runs0, Objs0

LEMMA ListTypes ==
    ASSUME ModInv
    PROVE  /\ ImagesOf(modules) \subseteq Runs /\ ObjsOf(modules) \subseteq Objs
           /\ \A i \in DOMAIN modules : modules[i] \in Modules
<1>1. \A i \in DOMAIN modules : modules[i] \in Modules
  BY DEF ModInv, TypeOK
<1>2. \A i \in DOMAIN modules :
        modules[i].image \in Runs /\ modules[i].mod \in Objs /\ modules[i].copy \in Objs
  BY <1>1 DEF Modules
<1>3. QED
  BY <1>1, <1>2 DEF ImagesOf, ObjsOf

\* While the list and the tables stay as they are, only the installation is to be looked at.
LEMMA Onwards ==
    ASSUME ModInv, Alive, UNCHANGED <<modules, drawfns, filefns, refused, gui, hooked, selected, dir>>,
           content' \in [Runs -> {"unknown", "file", "cleared", "unfixed", "relocated"}],
           \A r \in ImagesOf(modules) : content'[r] = content[r],
           Stage(ins', content'), gui = "os" => ins'.pc = "idle",
           ins'.pc \notin {"idle", "called"} =>
             \A i \in DOMAIN modules : modules[i].name # ins'.name,
           Runs0(ins') \intersect ImagesOf(modules) = {},
           Objs0(ins') \intersect ObjsOf(modules) = {},
           files' = IF ins'.pc = "open" THEN 1 ELSE 0,
           runs' = ImagesOf(modules) \union Runs0(ins'),
           objs' = ObjsOf(modules) \union Objs0(ins')
    PROVE  ModInv'
<1>1. runs' \subseteq Runs
  <2>1. ImagesOf(modules) \subseteq Runs
    BY ListTypes
  <2>2. Runs0(ins') \subseteq Runs
    BY DEF Stage, Inss, Runs0
  <2>3. QED
    BY <2>1, <2>2
<1>2. objs' \subseteq Objs
  <2>1. ObjsOf(modules) \subseteq Objs
    BY ListTypes
  <2>2. Objs0(ins') \subseteq Objs
    BY DEF Stage, Inss, Objs0
  <2>3. QED
    BY <2>1, <2>2
<1>3. TypeOK'
  BY <1>1, <1>2 DEF ModInv, TypeOK, Stage, Inss
<1>4. Lists'
  <2>1. Assembled(content', modules)
    BY DEF ModInv, Lists, Assembled, ImagesOf
  <2>2. QED
    BY <2>1 DEF ModInv, Lists
<1>5. Installing'
  BY DEF ModInv, Installing, Alive
<1>6. Owned'
  BY DEF Owned, Alive
<1>7. QED
  BY <1>3, <1>4, <1>5, <1>6 DEF ModInv

\* An installation that ends without a module gives back what it holds.
LEMMA GivenUp ==
    ASSUME ModInv, Alive, UNCHANGED <<modules, drawfns, filefns, refused, gui, hooked, selected, dir>>,
           UNCHANGED content, ins' = Idle, files' = 0,
           runs' = runs \ Runs0(ins), objs' = objs \ Objs0(ins)
    PROVE  ModInv'
<1>1. runs' = ImagesOf(modules) \union Runs0(Idle) /\ objs' = ObjsOf(modules) \union Objs0(Idle)
  BY IdleStage DEF ModInv, Installing, Owned
<1>2. content' \in [Runs -> {"unknown", "file", "cleared", "unfixed", "relocated"}]
  BY DEF ModInv, TypeOK
<1>3. QED
  BY <1>1, <1>2, IdleStage, Onwards

LEMMA InstallAlive ==
    ASSUME ModInv, ins.pc # "idle"
    PROVE  /\ Alive /\ gui # "os"
           /\ runs = ImagesOf(modules) \union Runs0(ins)
           /\ objs = ObjsOf(modules) \union Objs0(ins)
           /\ Runs0(ins) \intersect ImagesOf(modules) = {}
           /\ Objs0(ins) \intersect ObjsOf(modules) = {}
           /\ ins \in Inss
BY DEF ModInv, Installing, Owned, Alive, Stage

LEMMA FailedSteps ==
    ASSUME ModInv,
           \/ InstallTwice \/ InstallNoFile \/ InstallBadHeader \/ InstallNoElf
           \/ InstallNoImage \/ InstallNoEntry \/ InstallRefused
    PROVE  ModInv'
<1>0. /\ ins.pc # "idle" /\ Alive /\ ins' = Idle /\ UNCHANGED content
      /\ UNCHANGED <<modules, drawfns, filefns, refused, gui, hooked, selected, dir>>
  <2>1. ins.pc # "idle"
    BY DEF InstallTwice, InstallNoFile, InstallBadHeader, InstallNoElf, InstallNoImage,
           InstallNoEntry, InstallRefused, Starts, At
  <2>2. QED
    BY <2>1, InstallAlive
       DEF InstallTwice, InstallNoFile, InstallBadHeader, InstallNoElf, InstallNoImage,
           InstallNoEntry, InstallRefused, screen, tables, memory
<1>1. Stage(ins, content) /\ files = IF ins.pc = "open" THEN 1 ELSE 0
  BY DEF ModInv, Installing
<1>2. CASE InstallTwice
  <2>1. ins.pc = "called" /\ UNCHANGED <<runs, objs, files>>
    BY <1>2 DEF InstallTwice, At, memory
  <2>2. Runs0(ins) = {} /\ Objs0(ins) = {} /\ files = 0
    BY <1>1, <2>1 DEF Stage, Runs0, Objs0
  <2>3. QED
    BY <1>0, <2>1, <2>2, GivenUp
<1>3. CASE InstallNoFile
  <2>1. ins.pc = "path" /\ UNCHANGED <<runs, files>> /\ objs' = objs \ {ins.path}
    BY <1>3 DEF InstallNoFile, At
  <2>2. Runs0(ins) = {} /\ Objs0(ins) = {ins.path} /\ files = 0
    BY <1>1, <2>1 DEF Stage, Runs0, Objs0
  <2>3. QED
    BY <1>0, <2>1, <2>2, GivenUp
<1>4. CASE InstallBadHeader \/ InstallNoElf
  <2>1. ins.pc = "open" /\ UNCHANGED <<runs, objs>> /\ files' = files - 1
    BY <1>4 DEF InstallBadHeader, InstallNoElf, At
  <2>2. Runs0(ins) = {} /\ Objs0(ins) = {} /\ files = 1
    BY <1>1, <2>1 DEF Stage, Runs0, Objs0
  <2>3. QED
    BY <1>0, <2>1, <2>2, GivenUp
<1>5. CASE InstallNoImage \/ InstallNoEntry \/ InstallRefused
  <2>1. ins.pc \in {"loaded", "image"} /\ ElfDestroy /\ UNCHANGED files
    BY <1>5 DEF InstallNoImage, InstallNoEntry, InstallRefused, Starts, At
  <2>2. Objs0(ins) = {ins.elf} /\ files = 0
    BY <1>1, <2>1 DEF Stage, Objs0
  <2>3. runs' = runs \ Runs0(ins) /\ objs' = objs \ Objs0(ins)
    BY <2>1, <2>2 DEF ElfDestroy, Runs0
  <2>4. QED
    BY <1>0, <2>1, <2>2, <2>3, GivenUp
<1>6. QED
  BY <1>2, <1>3, <1>4, <1>5

LEMMA InstallSteps ==
    ASSUME ModInv, InstallPath \/ InstallOpen \/ InstallLoad \/ InstallImage
    PROVE  ModInv'
<1>0. /\ ins.pc # "idle"
      /\ UNCHANGED <<modules, drawfns, filefns, refused, gui, hooked, selected, dir>>
  BY DEF InstallPath, InstallOpen, InstallLoad, InstallImage, At, screen, tables
<1>1. /\ Stage(ins, content) /\ ins \in Inss
      /\ files = IF ins.pc = "open" THEN 1 ELSE 0
  BY DEF ModInv, Installing, Stage
<1>2. /\ Alive /\ gui # "os"
      /\ runs = ImagesOf(modules) \union Runs0(ins)
      /\ objs = ObjsOf(modules) \union Objs0(ins)
      /\ Runs0(ins) \intersect ImagesOf(modules) = {}
      /\ Objs0(ins) \intersect ObjsOf(modules) = {}
  BY <1>0, InstallAlive
<1>3. /\ content \in [Runs -> {"unknown", "file", "cleared", "unfixed", "relocated"}]
      /\ runs \subseteq Runs /\ objs \subseteq Objs
  BY DEF ModInv, TypeOK
<1>4. NULL \notin Runs /\ NULL \notin Objs
  BY DEF NULL, Runs, Objs
<1>5. ins.pc # "called" => \A i \in DOMAIN modules : modules[i].name # ins.name
  BY <1>0 DEF ModInv, Installing
<1>6. CASE InstallPath
  <2> DEFINE k == Kmalloc(objs)
  <2>1. /\ ins.pc = "called" /\ Objs \ objs # {} /\ UNCHANGED <<runs, content, files>>
        /\ ins' = [ins EXCEPT !.pc = "path", !.path = k] /\ objs' = objs \union {k}
        /\ \A i \in DOMAIN modules : modules[i].name # ins.name
    BY <1>3, <1>6 DEF InstallPath, At, IsInstalled
  <2>2. k \in Objs \ objs
    BY <2>1, KmallocIn
  <2> HIDE DEF k
  <2>3. /\ ins'.pc = "path" /\ ins'.path = k /\ ins'.elf = NULL /\ ins'.start = NULL
        /\ ins'.image = NULL /\ ins'.name = ins.name /\ ins' \in Inss
    BY <1>1, <2>1, <2>2 DEF Stage, Inss
  <2>4. Stage(ins', content')
    BY <1>1, <1>4, <2>1, <2>2, <2>3 DEF Stage
  <2>5. Runs0(ins') = {} /\ Objs0(ins') = {k} /\ Runs0(ins) = {} /\ Objs0(ins) = {} /\ files' = 0
    BY <1>1, <1>4, <2>1, <2>2, <2>3 DEF Runs0, Objs0, Stage
  <2>6. QED
    BY <1>0, <1>2, <1>3, <2>1, <2>2, <2>3, <2>4, <2>5, Onwards
<1>7. CASE InstallOpen
  <2>1. /\ ins.pc = "path" /\ UNCHANGED <<runs, content>> /\ files' = files + 1
        /\ ins' = [ins EXCEPT !.pc = "open", !.path = NULL] /\ objs' = objs \ {ins.path}
    BY <1>7 DEF InstallOpen, At
  <2>2. /\ ins'.pc = "open" /\ ins'.path = NULL /\ ins'.elf = NULL /\ ins'.start = NULL
        /\ ins'.image = NULL /\ ins'.name = ins.name /\ ins' \in Inss
    BY <1>1, <2>1 DEF Stage, Inss
  <2>3. Stage(ins', content')
    BY <1>1, <2>1, <2>2 DEF Stage
  <2>4. /\ Runs0(ins') = {} /\ Objs0(ins') = {} /\ Runs0(ins) = {} /\ Objs0(ins) = {ins.path}
        /\ files' = 1
    BY <1>1, <2>1, <2>2 DEF Runs0, Objs0, Stage
  <2>5. QED
    BY <1>0, <1>2, <1>3, <1>5, <2>1, <2>2, <2>3, <2>4, Onwards
<1>8. CASE InstallLoad
  <2> DEFINE k == Kmalloc(objs)
             r == FreeRun
  <2>1. /\ ins.pc = "open" /\ Objs \ objs # {} /\ Runs \ runs # {}
        /\ ins' = [ins EXCEPT !.pc = "loaded", !.elf = k, !.start = r]
        /\ objs' = objs \union {k} /\ runs' = runs \union {r}
        /\ content' = [content EXCEPT ![r] = "file"] /\ files' = files - 1
    BY <1>3, <1>8 DEF InstallLoad, At
  <2>2. k \in Objs \ objs /\ r \in Runs \ runs
    BY <2>1, KmallocIn, FreeRunIn
  <2> HIDE DEF k, r
  <2>3. /\ ins'.pc = "loaded" /\ ins'.path = NULL /\ ins'.elf = k /\ ins'.start = r
        /\ ins'.image = NULL /\ ins'.name = ins.name /\ ins' \in Inss
    BY <1>1, <2>1, <2>2 DEF Stage, Inss
  <2>4. Stage(ins', content')
    BY <1>1, <1>4, <2>1, <2>2, <2>3 DEF Stage
  <2>5. /\ Runs0(ins') = {r} /\ Objs0(ins') = {k} /\ Runs0(ins) = {} /\ Objs0(ins) = {}
        /\ files' = 0
    BY <1>1, <1>4, <2>1, <2>2, <2>3 DEF Runs0, Objs0, Stage
  <2>6. /\ content' \in [Runs -> {"unknown", "file", "cleared", "unfixed", "relocated"}]
        /\ \A x \in ImagesOf(modules) : content'[x] = content[x]
    <3>1. \A x \in ImagesOf(modules) : x # r /\ x \in Runs
      BY <1>2, <1>3, <2>2
    <3>2. QED
      BY <1>3, <2>1, <2>2, <3>1
  <2>7. /\ Runs0(ins') \intersect ImagesOf(modules) = {} /\ Objs0(ins') \intersect ObjsOf(modules) = {}
        /\ runs' = ImagesOf(modules) \union Runs0(ins')
        /\ objs' = ObjsOf(modules) \union Objs0(ins')
    BY <1>2, <2>1, <2>2, <2>5
  <2>8. /\ files' = IF ins'.pc = "open" THEN 1 ELSE 0
        /\ gui = "os" => ins'.pc = "idle"
        /\ \A i \in DOMAIN modules : modules[i].name # ins'.name
    BY <1>2, <1>5, <2>1, <2>3, <2>5
  <2>9. QED
    BY <1>0, <1>2, <2>4, <2>6, <2>7, <2>8, Onwards
<1>9. CASE InstallImage
  <2> DEFINE r == FreeRun
  <2>1. /\ ins.pc = "loaded" /\ Runs \ runs # {}
        /\ ins' = [ins EXCEPT !.pc = "image", !.image = r]
        /\ runs' = runs \union {r}
        /\ UNCHANGED <<objs, files>>
    BY <1>3, <1>9 DEF InstallImage, At
  <2>2. r \in Runs \ runs
    BY <2>1, FreeRunIn
  <2>3. ins.start \in Runs /\ ins.start # NULL /\ ins.start \in Runs0(ins) /\ ins.start # r
    <3>1. ins.start # NULL /\ ins.start \in Runs
      BY <1>1, <2>1 DEF Stage, Inss
    <3>2. ins.start \in Runs0(ins)
      BY <3>1 DEF Runs0
    <3> HIDE DEF r
    <3>3. QED
      BY <1>2, <2>2, <3>1, <3>2
  <2>4. PICK got \in BOOLEAN, segment \in BOOLEAN :
            content' = BuildImage(content, r, got, segment)
    BY <1>9 DEF InstallImage
  <2> HIDE DEF r
  <2>5. /\ content' \in [Runs -> {"unknown", "file", "cleared", "unfixed", "relocated"}]
        /\ content'[r] \in Copied \union {"cleared"}
        /\ \A x \in Runs \ {r, ins.start} : content'[x] = content[x]
    <3> DEFINE fixed == IF got THEN "relocated" ELSE "unfixed"
               mem == [[content EXCEPT ![r] = "cleared"] EXCEPT ![ins.start] = fixed]
    <3>1. fixed \in Copied
      BY DEF Copied
    <3> HIDE DEF fixed
    <3>2. /\ mem \in [Runs -> {"unknown", "file", "cleared", "unfixed", "relocated"}]
          /\ mem[r] = "cleared" /\ mem[ins.start] \in Copied
          /\ \A x \in Runs \ {r, ins.start} : mem[x] = content[x]
      BY <1>3, <2>2, <2>3, <3>1 DEF Copied
    <3>3. content' = IF segment THEN [mem EXCEPT ![r] = mem[ins.start]] ELSE mem
      BY <2>4 DEF BuildImage, AssembleImage, FixGot, fixed
    <3> HIDE DEF mem
    <3>4. CASE segment
      BY <2>2, <2>3, <3>2, <3>3, <3>4 DEF Copied
    <3>5. CASE ~ segment
      BY <2>2, <2>3, <3>2, <3>3, <3>5
    <3>6. QED
      BY <3>4, <3>5
  <2>6. /\ ins'.pc = "image" /\ ins'.path = NULL /\ ins'.elf = ins.elf /\ ins'.start = ins.start
        /\ ins'.image = r /\ ins'.name = ins.name /\ ins' \in Inss
    BY <1>1, <2>1, <2>2 DEF Stage, Inss
  <2>7. Stage(ins', content')
    BY <1>1, <1>4, <2>1, <2>2, <2>3, <2>5, <2>6 DEF Stage
  <2>8. /\ Runs0(ins') = {ins.start, r} /\ Runs0(ins) = {ins.start} /\ Objs0(ins') = Objs0(ins)
        /\ files' = 0
    BY <1>1, <1>4, <2>1, <2>2, <2>3, <2>6 DEF Runs0, Objs0, Stage
  <2>9. \A x \in ImagesOf(modules) : content'[x] = content[x]
    <3>1. \A x \in ImagesOf(modules) : x \in Runs \ {r, ins.start}
      BY <1>2, <1>3, <2>2, <2>3
    <3>2. QED
      BY <2>5, <3>1
  <2>10. QED
    BY <1>0, <1>2, <1>5, <2>1, <2>2, <2>5, <2>6, <2>7, <2>8, <2>9, Onwards
<1>10. QED
  BY <1>6, <1>7, <1>8, <1>9

-----------------------------------------------------------------------------
(***************************************************************************)
(* A module is linked in, and one is unlinked.                             *)
(***************************************************************************)
LEMMA TableKept ==
    ASSUME NEW fns, NEW ms, NEW ls, Table(fns, ms),
           \A i \in DOMAIN ms : ms[i].hooks => \E j \in DOMAIN ls : ls[j] = ms[i]
    PROVE  Table(fns, ls)
<1> SUFFICES ASSUME NEW k \in DOMAIN fns
             PROVE  \E j \in DOMAIN ls : ls[j].image = fns[k] /\ ls[j].hooks
  BY DEF Table
<1>1. PICK i \in DOMAIN ms : ms[i].image = fns[k] /\ ms[i].hooks
  BY DEF Table
<1>2. QED
  BY <1>1

LEMMA TableGrown ==
    ASSUME NEW fns \in Seq(Runs), Len(fns) <= MaxFns, NEW ms, NEW ls, Table(fns, ms),
           NEW image \in Runs, image \notin ImagesOf(ms),
           \A i \in DOMAIN ms : \E j \in DOMAIN ls : ls[j] = ms[i],
           \E j \in DOMAIN ls : ls[j].image = image /\ ls[j].hooks
    PROVE  Table(Register(fns, image), ls)
<1> DEFINE g == Register(fns, image)
<1>1. \A k \in DOMAIN fns : fns[k] # image
  BY DEF Table, ImagesOf
<1>2. OneToOne(g) /\ \A k \in DOMAIN g : g[k] = image \/ (k \in DOMAIN fns /\ g[k] = fns[k])
  BY <1>1, RegisteredNew DEF Table
<1> HIDE DEF g
<1>3. Table(fns, ls)
  BY TableKept
<1>4. ASSUME NEW k \in DOMAIN g PROVE \E j \in DOMAIN ls : ls[j].image = g[k] /\ ls[j].hooks
  <2>1. CASE g[k] = image
    BY <2>1
  <2>2. CASE k \in DOMAIN fns /\ g[k] = fns[k]
    BY <1>3, <2>2 DEF Table
  <2>3. QED
    BY <1>2, <2>1, <2>2
<1>5. QED
  BY <1>2, <1>4 DEF Table, g

LEMMA TableShrunk ==
    ASSUME NEW fns \in Seq(Runs), NEW ms, NEW ls, Table(fns, ms), NEW p \in DOMAIN ms,
           CanUnregister(fns, ms[p].image),
           \A i \in DOMAIN ms \ {p} : \E j \in DOMAIN ls : ls[j] = ms[i]
    PROVE  Table(Unregister(fns, ms[p].image), ls)
<1> DEFINE image == ms[p].image
           u == Unregister(fns, image)
<1>1. /\ OneToOne(u)
      /\ \A k \in DOMAIN u : u[k] # image /\ \E j \in DOMAIN fns : u[k] = fns[j]
  BY Unregistered DEF Table
<1> HIDE DEF u
<1>2. ASSUME NEW k \in DOMAIN u PROVE \E j \in DOMAIN ls : ls[j].image = u[k] /\ ls[j].hooks
  <2>1. PICK q \in DOMAIN fns : u[k] = fns[q]
    BY <1>1
  <2>2. PICK i \in DOMAIN ms : ms[i].image = fns[q] /\ ms[i].hooks
    BY DEF Table
  <2>3. i # p
    BY <1>1, <2>1, <2>2
  <2>4. PICK j \in DOMAIN ls : ls[j] = ms[i]
    BY <2>3
  <2>5. QED
    BY <2>1, <2>2, <2>4
<1>3. QED
  BY <1>1, <1>2 DEF Table, u

LEMMA LinkStep ==
    ASSUME ModInv, NEW hooks \in BOOLEAN, InstallDone(hooks)
    PROVE  /\ ModInv'
           /\ \A i \in DOMAIN modules : modules[i].image # ins.image
           /\ \A r : r # ins.image => /\ Contains(drawfns', r) <=> Contains(drawfns, r)
                                      /\ Contains(filefns', r) <=> Contains(filefns, r)
<1> DEFINE new == NewModule(hooks)
           k == Kmalloc(objs)
           c == Kmalloc(objs \union {k})
           ls == <<new>> \o modules
           image == ins.image
<1>1. /\ ins.pc = "image" /\ Cardinality(Objs \ objs) >= 2 /\ ModuleStart(hooks)
      /\ content[ins.image] # "cleared"
      /\ modules' = ls /\ objs' = (objs \union {new.mod, new.copy}) \ {ins.elf}
      /\ runs' = runs \ {ins.start} /\ ins' = Idle
      /\ UNCHANGED <<content, files, gui, hooked, selected, dir>>
  BY DEF InstallDone, Starts, At, screen
<1>2. /\ Alive /\ ins \in Inss
      /\ runs = ImagesOf(modules) \union Runs0(ins) /\ objs = ObjsOf(modules) \union Objs0(ins)
      /\ Runs0(ins) \intersect ImagesOf(modules) = {} /\ Objs0(ins) \intersect ObjsOf(modules) = {}
  BY <1>1, InstallAlive
<1>3. /\ image \in Runs /\ ins.start \in Runs /\ ins.elf \in Objs /\ ins.start # image
      /\ Runs0(ins) = {ins.start, image} /\ Objs0(ins) = {ins.elf}
      /\ content[image] \in Copied /\ ins.name \in Names /\ files = 0
      /\ \A i \in DOMAIN modules : modules[i].name # ins.name
  <2>1. Stage(ins, content) /\ files = 0
        /\ \A i \in DOMAIN modules : modules[i].name # ins.name
    BY <1>1 DEF ModInv, Installing
  <2>2. /\ ins.path = NULL /\ ins.elf # NULL /\ ins.start # NULL /\ image # NULL
        /\ ins.start # image /\ content[image] \in Copied /\ ins.name \in Names
    BY <1>1, <2>1 DEF Stage
  <2>3. ins.start \in Runs /\ image \in Runs /\ ins.elf \in Objs
    BY <1>2, <2>2 DEF Inss
  <2>4. QED
    BY <2>1, <2>2, <2>3 DEF Runs0, Objs0
<1>4. k \in Objs \ objs /\ c \in Objs \ (objs \union {k})
  BY <1>1, TwoObjects
<1> HIDE DEF k, c
<1>5. new = [name |-> ins.name, image |-> image, hooks |-> hooks, mod |-> k, copy |-> c]
  BY DEF NewModule, k, c
<1> HIDE DEF new
<1>6. /\ new \in Modules /\ new.name = ins.name /\ new.image = image /\ new.hooks = hooks
      /\ new.mod = k /\ new.copy = c
  BY <1>3, <1>4, <1>5 DEF Modules
<1>7. /\ modules \in Seq(Modules) /\ Distinct(modules)
      /\ drawfns \in Seq(Runs) /\ Len(drawfns) <= MaxFns /\ Table(drawfns, modules)
      /\ filefns \in Seq(Runs) /\ Len(filefns) <= MaxFns /\ Table(filefns, modules)
      /\ refused \subseteq Runs
  BY DEF ModInv, Lists, TypeOK
<1>8. ASSUME NEW i \in DOMAIN modules PROVE Apart(modules[i], new)
  <2>1. modules[i].image \in ImagesOf(modules)
    BY DEF ImagesOf
  <2>2. modules[i].mod \in objs /\ modules[i].copy \in objs
    BY <1>2 DEF ObjsOf
  <2>3. QED
    BY <1>2, <1>3, <1>4, <1>6, <2>1, <2>2 DEF Apart
<1>9. /\ ls \in Seq(Modules) /\ Distinct(ls)
      /\ \A j \in DOMAIN ls : ls[j] = new \/ \E i \in DOMAIN modules : ls[j] = modules[i]
      /\ \E j \in DOMAIN ls : ls[j] = new
      /\ \A i \in DOMAIN modules : \E j \in DOMAIN ls : ls[j] = modules[i]
      /\ ImagesOf(ls) = ImagesOf(modules) \union {image}
      /\ ObjsOf(ls) = ObjsOf(modules) \union {k, c}
  <2>1. new \in Modules /\ modules \in Seq(Modules) /\ Distinct(modules)
    BY <1>6, <1>7
  <2>2. /\ ls \in Seq(Modules) /\ Distinct(ls)
        /\ \A j \in DOMAIN ls : ls[j] = new \/ \E i \in DOMAIN modules : ls[j] = modules[i]
        /\ \E j \in DOMAIN ls : ls[j] = new
        /\ \A i \in DOMAIN modules : \E j \in DOMAIN ls : ls[j] = modules[i]
        /\ ImagesOf(ls) = ImagesOf(modules) \union {new.image}
        /\ ObjsOf(ls) = ObjsOf(modules) \union {new.mod, new.copy}
    BY <1>8, <2>1, LinkedIn
  <2> HIDE DEF ls
  <2>3. QED
    BY <1>6, <2>2
<1> HIDE DEF ls
<1>10. image \notin ImagesOf(modules)
  BY <1>2, <1>3
<1>11. \A r : r # image => /\ Contains(drawfns', r) <=> Contains(drawfns, r)
                           /\ Contains(filefns', r) <=> Contains(filefns, r)
  <2>1. CASE hooks
    BY <1>1, <1>3, <1>7, <2>1, RegisteredNew DEF ModuleStart
  <2>2. CASE ~ hooks
    BY <1>1, <2>2 DEF ModuleStart
  <2>3. QED
    BY <2>1, <2>2
<1>12. /\ drawfns' \in Seq(Runs) /\ Len(drawfns') <= MaxFns /\ Table(drawfns', ls)
       /\ filefns' \in Seq(Runs) /\ Len(filefns') <= MaxFns /\ Table(filefns', ls)
       /\ refused' \subseteq Runs /\ refused \ {image} \subseteq refused'
       /\ hooks /\ image \notin refused' => Contains(drawfns', image) /\ Contains(filefns', image)
  <2>1. CASE hooks
    <3>1. drawfns' = Register(drawfns, image) /\ filefns' = Register(filefns, image)
      BY <1>1, <2>1 DEF ModuleStart
    <3>2. /\ refused' \subseteq Runs /\ refused \ {image} \subseteq refused'
          /\ image \notin refused' => CanRegister(drawfns) /\ CanRegister(filefns)
      BY <1>1, <1>3, <1>7, <2>1 DEF ModuleStart
    <3>3. \E j \in DOMAIN ls : ls[j].image = image /\ ls[j].hooks
      BY <1>6, <1>9, <2>1
    <3>4. Table(drawfns', ls) /\ Table(filefns', ls)
      BY <1>3, <1>7, <1>9, <1>10, <3>1, <3>3, TableGrown
    <3>5. /\ drawfns' \in Seq(Runs) /\ Len(drawfns') <= MaxFns
          /\ CanRegister(drawfns) => Contains(drawfns', image)
      BY <1>3, <1>7, <3>1, RegisteredNew
    <3>6. /\ filefns' \in Seq(Runs) /\ Len(filefns') <= MaxFns
          /\ CanRegister(filefns) => Contains(filefns', image)
      BY <1>3, <1>7, <3>1, RegisteredNew
    <3>7. QED
      BY <3>2, <3>4, <3>5, <3>6
  <2>2. CASE ~ hooks
    <3>1. UNCHANGED <<drawfns, filefns>> /\ refused' = refused \ {image}
      BY <1>1, <2>2 DEF ModuleStart
    <3>2. Table(drawfns, ls) /\ Table(filefns, ls)
      BY <1>7, <1>9, TableKept
    <3>3. QED
      BY <1>7, <2>2, <3>1, <3>2
  <2>3. QED
    BY <2>1, <2>2
<1>13. Registered(drawfns', filefns', ls, refused')
  <2> SUFFICES ASSUME NEW j \in DOMAIN ls, ls[j].hooks, ls[j].image \notin refused'
               PROVE  Contains(drawfns', ls[j].image) /\ Contains(filefns', ls[j].image)
    BY DEF Registered
  <2>1. CASE ls[j] = new
    BY <1>6, <1>12, <2>1
  <2>2. CASE \E i \in DOMAIN modules : ls[j] = modules[i]
    <3>1. PICK i \in DOMAIN modules : ls[j] = modules[i]
      BY <2>2
    <3>2. modules[i].image # image /\ modules[i].image \notin refused
      BY <1>10, <1>12, <3>1 DEF ImagesOf
    <3>3. Contains(drawfns, modules[i].image) /\ Contains(filefns, modules[i].image)
      BY <3>1, <3>2 DEF ModInv, Lists, Registered
    <3>4. QED
      BY <1>11, <3>1, <3>2, <3>3
  <2>3. QED
    BY <1>9, <2>1, <2>2
<1>14. Assembled(content, ls)
  BY <1>3, <1>6, <1>9 DEF ModInv, Lists, Assembled
<1>15. Lists'
  BY <1>1, <1>9, <1>12, <1>13, <1>14 DEF Lists
<1>16. runs' = ImagesOf(ls) /\ objs' = ObjsOf(ls)
  BY <1>1, <1>2, <1>3, <1>4, <1>6, <1>9
<1>17. TypeOK'
  <2>1. runs' \subseteq Runs /\ objs' \subseteq Objs
    BY <1>1, <1>4, <1>6 DEF ModInv, TypeOK
  <2>2. Idle \in Inss
    BY IdleStage DEF Stage
  <2>3. QED
    BY <1>1, <1>9, <1>12, <2>1, <2>2 DEF ModInv, TypeOK, Inss
<1>18. Installing' /\ Owned'
  BY <1>1, <1>2, <1>3, <1>16, IdleStage DEF ModInv, Installing, Owned, Alive
<1>19. \A i \in DOMAIN modules : modules[i].image # ins.image
  BY <1>10 DEF ImagesOf
<1>20. QED
  BY <1>11, <1>15, <1>17, <1>18, <1>19 DEF ModInv

LEMMA UnlinkStep ==
    ASSUME ModInv, ManagerPi
    PROVE  /\ ModInv'
           /\ \E i \in DOMAIN modules :
                /\ \A j \in DOMAIN modules' : \E k \in DOMAIN modules \ {i} : modules'[j] = modules[k]
                /\ \A k \in DOMAIN modules \ {i} : modules[k].image # modules[i].image
                /\ \A r : r # modules[i].image =>
                     /\ Contains(drawfns', r) <=> Contains(drawfns, r)
                     /\ Contains(filefns', r) <=> Contains(filefns, r)
<1> DEFINE i == Entry(modules[selected].name)
           m == modules[i]
           ls == RemoveAt(modules, i)
<1>1. /\ modules \in Seq(Modules) /\ Distinct(modules)
      /\ drawfns \in Seq(Runs) /\ Len(drawfns) <= MaxFns /\ Table(drawfns, modules)
      /\ filefns \in Seq(Runs) /\ Len(filefns) <= MaxFns /\ Table(filefns, modules)
      /\ refused \subseteq Runs /\ MaxFns \in Nat
  BY BoundsAssumption DEF ModInv, Lists, TypeOK
<1>2. selected \in DOMAIN modules
  BY <1>1 DEF ManagerPi, ModInv, TypeOK
<1>3. i \in DOMAIN modules
  <2> DEFINE name == modules[selected].name
             First(q) == modules[q].name = name /\ \A j \in 1 .. q - 1 : modules[j].name # name
  <2>1. First(selected)
    <3> SUFFICES ASSUME NEW j \in 1 .. selected - 1, modules[j].name = name PROVE FALSE
      OBVIOUS
    <3>1. j \in DOMAIN modules /\ j # selected
      BY <1>1, <1>2
    <3>2. QED
      BY <1>1, <1>2, <3>1 DEF Distinct, Apart
  <2>2. QED
    BY <1>2, <2>1 DEF Entry
<1>4. /\ Ends(m) /\ ModuleEnd(m) /\ modules' = ls
      /\ runs' = runs \ {m.image} /\ objs' = objs \ {m.mod, m.copy} /\ selected' = 0
      /\ UNCHANGED <<content, files, ins, gui, hooked, dir, refused>>
      /\ gui = "manager" /\ ins.pc = "idle"
  BY DEF ManagerPi, InManager, At, SelectionReset
<1> HIDE DEF i
<1>5. /\ ls \in Seq(Modules) /\ Distinct(ls)
      /\ \A j \in DOMAIN ls : \E k \in DOMAIN modules \ {i} : ls[j] = modules[k]
      /\ \A k \in DOMAIN modules \ {i} : \E j \in DOMAIN ls : ls[j] = modules[k]
      /\ ImagesOf(ls) = ImagesOf(modules) \ {m.image}
      /\ ObjsOf(ls) = ObjsOf(modules) \ {m.mod, m.copy}
  <2>1. i \in 1 .. Len(modules)
    BY <1>1, <1>3
  <2>2. QED
    BY <1>1, <2>1, Unlinked
<1> HIDE DEF ls
<1>6. \A k \in DOMAIN modules \ {i} : modules[k].image # m.image
  BY <1>1, <1>3 DEF Distinct, Apart
<1>7. /\ drawfns' \in Seq(Runs) /\ Len(drawfns') <= MaxFns /\ Table(drawfns', ls)
      /\ filefns' \in Seq(Runs) /\ Len(filefns') <= MaxFns /\ Table(filefns', ls)
      /\ \A r : r # m.image => /\ Contains(drawfns', r) <=> Contains(drawfns, r)
                               /\ Contains(filefns', r) <=> Contains(filefns, r)
  <2>1. CASE m.hooks
    <3>1. /\ drawfns' = Unregister(drawfns, m.image) /\ CanUnregister(drawfns, m.image)
          /\ filefns' = Unregister(filefns, m.image) /\ CanUnregister(filefns, m.image)
      BY <1>4, <2>1 DEF ModuleEnd, Ends
    <3>2. Table(drawfns', ls) /\ Table(filefns', ls)
      BY <1>1, <1>3, <1>5, <3>1, TableShrunk
    <3>3. OneToOne(drawfns) /\ OneToOne(filefns)
      BY <1>1 DEF Table
    <3>4. /\ drawfns' \in Seq(Runs) /\ Len(drawfns') <= Len(drawfns)
          /\ \A r : r # m.image => (Contains(drawfns', r) <=> Contains(drawfns, r))
      BY <1>1, <3>1, <3>3, Unregistered
    <3>5. /\ filefns' \in Seq(Runs) /\ Len(filefns') <= Len(filefns)
          /\ \A r : r # m.image => (Contains(filefns', r) <=> Contains(filefns, r))
      BY <1>1, <3>1, <3>3, Unregistered
    <3>6. Len(drawfns') <= MaxFns /\ Len(filefns') <= MaxFns
      <4>1. Len(drawfns') \in Nat /\ Len(filefns') \in Nat
        BY <3>4, <3>5
      <4>2. QED
        BY <1>1, <3>4, <3>5, <4>1
    <3>7. QED
      BY <3>2, <3>4, <3>5, <3>6
  <2>2. CASE ~ m.hooks
    <3>1. UNCHANGED <<drawfns, filefns>>
      BY <1>4, <2>2 DEF ModuleEnd
    <3>2. \A k \in DOMAIN modules : modules[k].hooks => \E j \in DOMAIN ls : ls[j] = modules[k]
      BY <1>5, <2>2
    <3>3. Table(drawfns, ls) /\ Table(filefns, ls)
      BY <1>1, <3>2, TableKept
    <3>4. QED
      BY <1>1, <3>1, <3>3
  <2>3. QED
    BY <2>1, <2>2
<1>8. Registered(drawfns', filefns', ls, refused)
  <2> SUFFICES ASSUME NEW j \in DOMAIN ls, ls[j].hooks, ls[j].image \notin refused
               PROVE  Contains(drawfns', ls[j].image) /\ Contains(filefns', ls[j].image)
    BY DEF Registered
  <2>1. PICK k \in DOMAIN modules \ {i} : ls[j] = modules[k]
    BY <1>5
  <2>2. Contains(drawfns, modules[k].image) /\ Contains(filefns, modules[k].image)
    BY <2>1 DEF ModInv, Lists, Registered
  <2>3. QED
    BY <1>6, <1>7, <2>1, <2>2
<1>9. Assembled(content, ls)
  <2> SUFFICES ASSUME NEW j \in DOMAIN ls PROVE content[ls[j].image] \in Copied
    BY DEF Assembled
  <2>1. PICK k \in DOMAIN modules \ {i} : ls[j] = modules[k]
    BY <1>5
  <2>2. QED
    BY <2>1 DEF ModInv, Lists, Assembled
<1>10. Lists'
  BY <1>4, <1>5, <1>7, <1>8, <1>9 DEF Lists
<1>11. Runs0(ins) = {} /\ Objs0(ins) = {} /\ Alive /\ Stage(ins, content)
  BY <1>4 DEF ModInv, Installing, Stage, Runs0, Objs0, Alive
<1>12. runs' = ImagesOf(ls) /\ objs' = ObjsOf(ls)
  BY <1>4, <1>5, <1>11 DEF ModInv, Owned
<1>13. Installing' /\ Owned'
  BY <1>4, <1>11, <1>12 DEF ModInv, Installing, Owned, Alive
<1>14. TypeOK'
  BY <1>1, <1>4, <1>5, <1>7 DEF ModInv, TypeOK
<1>15. QED
  BY <1>3, <1>4, <1>5, <1>6, <1>7, <1>10, <1>13, <1>14 DEF ModInv

-----------------------------------------------------------------------------
(***************************************************************************)
(* The other steps, and the invariant.                                     *)
(***************************************************************************)

\* OSExt has just been started, or is gone.
Blank ==
    /\ modules = <<>> /\ drawfns = <<>> /\ filefns = <<>> /\ refused = {}
    /\ runs = {} /\ content = [r \in Runs |-> "unknown"] /\ objs = {} /\ files = 0
    /\ ins = Idle /\ selected = 0 /\ dir \in SUBSET Names
    /\ (gui = "boot" /\ hooked = TRUE) \/ (gui = "panic" /\ hooked = FALSE)

LEMMA BlankInv == Blank => ModInv
<1> SUFFICES ASSUME Blank PROVE ModInv
  OBVIOUS
<1> USE DEF Blank
<1>1. Stage(Idle, content) /\ Idle \in Inss
  BY IdleStage DEF Stage
<1>2. TypeOK
  <2>1. modules \in Seq(Modules) /\ drawfns \in Seq(Runs) /\ filefns \in Seq(Runs)
    OBVIOUS
  <2>2. Len(drawfns) <= MaxFns /\ Len(filefns) <= MaxFns
    BY BoundsAssumption
  <2>3. content \in [Runs -> {"unknown", "file", "cleared", "unfixed", "relocated"}]
    OBVIOUS
  <2>4. QED
    BY <1>1, <2>1, <2>2, <2>3 DEF TypeOK, Inss
<1>3. ImagesOf(modules) = {} /\ ObjsOf(modules) = {}
  BY DEF ImagesOf, ObjsOf
<1>4. Lists
  BY DEF Lists, Distinct, Table, OneToOne, Registered, Assembled
<1>5. Installing /\ Owned
  BY <1>1, <1>3, IdleStage DEF Installing, Owned, Alive
<1>6. QED
  BY <1>2, <1>4, <1>5 DEF ModInv

LEMMA ModInit == Init => ModInv
BY BlankInv DEF Init, Booting, Blank

\* What happens on the screen.
LEMMA ScreenSteps ==
    ASSUME ModInv,
           \/ LoadEnd \/ ShowManager \/ ManagerUp \/ ManagerDown \/ HideManager \/ UninstallOsext
           \/ \E name \in Names : LoadNext(name) \/ ManagerEnter(name)
    PROVE  ModInv' /\ UNCHANGED <<modules, drawfns, filefns, refused>>
<1>1. UNCHANGED <<modules, drawfns, filefns, refused, content, objs, files>>
  BY DEF LoadEnd, ShowManager, ManagerUp, ManagerDown, HideManager, UninstallOsext, LoadNext,
         ManagerEnter, memory, tables
<1>2. Lists'
  BY <1>1 DEF ModInv, Lists
<1>3. CASE LoadEnd \/ ShowManager \/ ManagerUp \/ ManagerDown \/ HideManager
  <2>1. /\ UNCHANGED <<runs, ins, hooked, dir>> /\ Alive /\ selected' \in Nat
        /\ gui' \in {"os", "manager", "boot"} /\ (gui' = "os" => ins.pc = "idle")
    <3>1. UNCHANGED <<runs, ins, hooked, dir>>
      BY <1>3 DEF LoadEnd, ShowManager, ManagerUp, ManagerDown, HideManager, memory
    <3>2. Alive /\ gui' \in {"os", "manager", "boot"} /\ (gui' = "os" => ins.pc = "idle")
      BY <1>3 DEF LoadEnd, ShowManager, ManagerUp, ManagerDown, HideManager, InManager, At, Alive
    <3>3. selected' \in Nat
      BY <1>3 DEF LoadEnd, ShowManager, ManagerUp, ManagerDown, HideManager, ModInv, TypeOK
    <3>4. QED
      BY <3>1, <3>2, <3>3
  <2>2. TypeOK'
    BY <1>1, <2>1 DEF ModInv, TypeOK
  <2>3. Installing' /\ Owned'
    BY <1>1, <2>1 DEF ModInv, Installing, Owned, Alive
  <2>4. QED
    BY <1>1, <1>2, <2>2, <2>3 DEF ModInv
<1>4. CASE UninstallOsext
  <2>1. /\ gui = "os" /\ gui' = "off" /\ hooked' = FALSE /\ runs' = {}
        /\ UNCHANGED <<ins, selected, dir>>
    BY <1>4 DEF UninstallOsext
  <2>2. TypeOK'
    BY <1>1, <2>1 DEF ModInv, TypeOK
  <2>3. Installing' /\ Owned'
    BY <1>1, <2>1 DEF ModInv, Installing, Owned, Alive
  <2>4. QED
    BY <1>1, <1>2, <2>2, <2>3 DEF ModInv
<1>5. ASSUME NEW name \in Names, LoadNext(name) \/ ManagerEnter(name) PROVE ModInv'
  <2> DEFINE t == [Idle EXCEPT !.pc = "called", !.name = name]
  <2>1. /\ UNCHANGED <<runs, hooked, selected, gui>> /\ ins' = t /\ gui \in {"boot", "manager"}
        /\ ins.pc = "idle" /\ dir' \subseteq dir
    BY <1>5 DEF LoadNext, ManagerEnter, InManager, At, memory, screen
  <2>2. /\ Stage(t, content) /\ t.pc = "called" /\ Runs0(t) = {} /\ Objs0(t) = {}
    BY CalledStage
  <2> HIDE DEF t
  <2>3. Runs0(ins) = {} /\ Objs0(ins) = {}
    BY <2>1 DEF ModInv, Installing, Stage, Runs0, Objs0
  <2>4. TypeOK'
    BY <1>1, <2>1, <2>2 DEF ModInv, TypeOK, Stage, Inss
  <2>5. Installing' /\ Owned'
    BY <1>1, <2>1, <2>2, <2>3 DEF ModInv, Installing, Owned, Alive
  <2>6. QED
    BY <1>2, <2>4, <2>5 DEF ModInv
<1>6. QED
  BY <1>1, <1>3, <1>4, <1>5

LEMMA Anew ==
    ASSUME StartOsext \/ ManagerPiPanics \/ ModuleCrashes
    PROVE  ModInv' /\ modules' = <<>>
<1>1. Blank'
  BY DEF StartOsext, ManagerPiPanics, ModuleCrashes, Reset, Blank
<1>2. (Blank => ModInv)'
  BY BlankInv, PTL
<1>3. QED
  BY <1>1, <1>2 DEF Blank

LEMMA ModStep == ModInv /\ [Next]_vars => ModInv'
<1> SUFFICES ASSUME ModInv, [Next]_vars PROVE ModInv'
  OBVIOUS
<1>1. CASE Install
  BY <1>1, FailedSteps, InstallSteps, LinkStep DEF Install
<1>2. CASE \/ LoadEnd \/ ShowManager \/ ManagerUp \/ ManagerDown \/ HideManager \/ UninstallOsext
           \/ \E name \in Names : LoadNext(name) \/ ManagerEnter(name)
  BY <1>2, ScreenSteps
<1>3. CASE ManagerPi
  BY <1>3, UnlinkStep
<1>4. CASE StartOsext \/ ManagerPiPanics \/ ModuleCrashes
  BY <1>4, Anew
<1>5. CASE UNCHANGED vars
  BY <1>5 DEF vars, ModInv, TypeOK, Lists, Installing, Owned, Alive
<1>6. QED
  BY <1>1, <1>2, <1>3, <1>4, <1>5 DEF Next

\* The inductive invariant.
LEMMA ModInvariant == Spec => []ModInv
BY ModInit, ModStep, PTL DEF Spec

-----------------------------------------------------------------------------
(***************************************************************************)
(* The theorems.                                                           *)
(***************************************************************************)

\* Whatever draw_hookfunc and file_hookfunc call lies in an image whose module is in the list,
\* whose pages are in use, and which still holds what was copied from its file after
\* elf_fix_got had been through it, through every way module_install can fail, every file the
\* ELF loader passes over in silence and every order of installing and uninstalling.
THEOREM NoDanglingCorrect == Spec => []NoDangling
<1>1. ModInv => NoDangling
  <2> SUFFICES ASSUME ModInv, hooked, NEW r \in Range(drawfns) \union Range(filefns)
               PROVE  r \in Images \intersect runs /\ content[r] \in {"relocated", "unfixed"}
    BY DEF NoDangling
  <2>1. PICK i \in DOMAIN modules : modules[i].image = r
    BY DEF ModInv, Lists, Table, Range
  <2>2. r \in Images
    BY <2>1 DEF Images, Installed
  <2>3. r \in runs
    BY <2>1 DEF ModInv, Installing, Owned, ImagesOf
  <2>4. content[r] \in {"relocated", "unfixed"}
    BY <2>1 DEF ModInv, Lists, Assembled, Copied
  <2>5. QED
    BY <2>2, <2>3, <2>4
<1>2. QED
  BY <1>1, ModInvariant, PTL

\* Whenever module_install has returned, by success or by one of its error paths, the modules
\* in the list own all page runs and kmalloc objects in use, and no file is open.
THEOREM NoLeakCorrect == Spec => []NoLeak
<1>1. ModInv => NoLeak
  <2> SUFFICES ASSUME ModInv, ins.pc = "idle", Alive
               PROVE  /\ runs = Images /\ files = 0
                      /\ objs = {m.mod : m \in Installed} \union {m.copy : m \in Installed}
    BY DEF NoLeak, At, Alive
  <2>1. Runs0(ins) = {} /\ Objs0(ins) = {} /\ files = 0
    BY DEF ModInv, Installing, Stage, Runs0, Objs0
  <2>2. runs = ImagesOf(modules) /\ objs = ObjsOf(modules)
    BY <2>1 DEF ModInv, Owned
  <2>3. Images = ImagesOf(modules)
    BY DEF Images, Installed, ImagesOf
  <2>4. {m.mod : m \in Installed} \union {m.copy : m \in Installed} = ObjsOf(modules)
    BY DEF Installed, ObjsOf
  <2>5. QED
    BY <2>1, <2>2, <2>3, <2>4
<1>2. QED
  BY <1>1, ModInvariant, PTL

\* What a step may not do to the functions of the modules it leaves in the list.
OthersKept ==
    hooked' => \A m \in Installed \intersect Installed' :
        /\ Contains(drawfns, m.image) = Contains(drawfns', m.image)
        /\ Contains(filefns, m.image) = Contains(filefns', m.image)

LEMMA OthersStep == ModInv /\ [Next]_vars => OthersKept
<1> SUFFICES ASSUME ModInv, [Next]_vars PROVE OthersKept
  OBVIOUS
<1>1. CASE UNCHANGED <<drawfns, filefns>>
  BY <1>1 DEF OthersKept
<1>2. ASSUME NEW hooks \in BOOLEAN, InstallDone(hooks) PROVE OthersKept
  <2>1. \A m \in Installed : m.image # ins.image
    BY <1>2, LinkStep DEF Installed
  <2>2. \A r : r # ins.image => /\ Contains(drawfns', r) <=> Contains(drawfns, r)
                                /\ Contains(filefns', r) <=> Contains(filefns, r)
    BY <1>2, LinkStep
  <2>3. \A r : /\ Contains(drawfns, r) \in BOOLEAN /\ Contains(drawfns', r) \in BOOLEAN
               /\ Contains(filefns, r) \in BOOLEAN /\ Contains(filefns', r) \in BOOLEAN
    BY DEF Contains
  <2>4. QED
    BY <2>1, <2>2, <2>3 DEF OthersKept
<1>3. CASE ManagerPi
  <2>1. PICK i \in DOMAIN modules :
          /\ \A j \in DOMAIN modules' : \E k \in DOMAIN modules \ {i} : modules'[j] = modules[k]
          /\ \A k \in DOMAIN modules \ {i} : modules[k].image # modules[i].image
          /\ \A r : r # modules[i].image => /\ Contains(drawfns', r) <=> Contains(drawfns, r)
                                            /\ Contains(filefns', r) <=> Contains(filefns, r)
    BY <1>3, UnlinkStep
  <2>2. \A m \in Installed' : m.image # modules[i].image
    BY <2>1 DEF Installed
  <2>3. \A r : /\ Contains(drawfns, r) \in BOOLEAN /\ Contains(drawfns', r) \in BOOLEAN
               /\ Contains(filefns, r) \in BOOLEAN /\ Contains(filefns', r) \in BOOLEAN
    BY DEF Contains
  <2>4. QED
    BY <2>1, <2>2, <2>3 DEF OthersKept
<1>4. CASE StartOsext \/ ManagerPiPanics \/ ModuleCrashes
  <2>1. Installed' = {}
    BY <1>4, Anew DEF Installed
  <2>2. QED
    BY <2>1 DEF OthersKept
<1>5. CASE \/ LoadEnd \/ ShowManager \/ ManagerUp \/ ManagerDown \/ HideManager \/ UninstallOsext
           \/ \E name \in Names : LoadNext(name) \/ ManagerEnter(name)
  BY <1>1, <1>5, ScreenSteps
<1>6. CASE \/ InstallTwice \/ InstallPath \/ InstallNoFile \/ InstallOpen \/ InstallBadHeader
           \/ InstallNoElf \/ InstallLoad \/ InstallNoImage \/ InstallImage \/ InstallNoEntry
           \/ InstallRefused
  BY <1>1, <1>6 DEF InstallTwice, InstallPath, InstallNoFile, InstallOpen, InstallBadHeader,
                    InstallNoElf, InstallLoad, InstallNoImage, InstallImage, InstallNoEntry,
                    InstallRefused, tables
<1>7. CASE UNCHANGED vars
  BY <1>1, <1>7 DEF vars
<1>8. QED
  BY <1>2, <1>3, <1>4, <1>5, <1>6, <1>7 DEF Next, Install

\* module_uninstall takes nothing from the other modules: one that is in the list before and
\* after a step keeps its place in both tables of hook functions.
THEOREM OthersKeepHooksCorrect == Spec => OthersKeepHooks
<1>1. ModInv /\ [Next]_vars => [OthersKept]_vars
  BY OthersStep
<1>2. QED
  BY <1>1, ModInvariant, PTL DEF Spec, OthersKeepHooks, OthersKept

LEMMA PanicStep ==
    ASSUME ModInv, ManagerPiPanics
    PROVE  modules[Entry(modules[selected].name)].image \in refused
<1> DEFINE i == Entry(modules[selected].name)
<1>1. modules \in Seq(Modules) /\ selected \in Nat
  BY DEF ModInv, TypeOK
<1>2. selected \in DOMAIN modules /\ ~ Ends(modules[i])
  BY <1>1 DEF ManagerPiPanics
<1>3. i \in DOMAIN modules
  <2> DEFINE name == modules[selected].name
             First(q) == modules[q].name = name /\ \A j \in 1 .. q - 1 : modules[j].name # name
  <2>1. First(selected)
    <3> SUFFICES ASSUME NEW j \in 1 .. selected - 1, modules[j].name = name PROVE FALSE
      OBVIOUS
    <3>1. j \in DOMAIN modules /\ j # selected
      BY <1>1, <1>2
    <3>2. QED
      BY <1>2, <3>1 DEF ModInv, Lists, Distinct, Apart
  <2>2. QED
    BY <1>2, <2>1 DEF Entry
<1>4. QED
  <2> HIDE DEF i
  <2>1. modules[i].image \in refused
    BY <1>2, <1>3 DEF ModInv, Lists, Registered, Ends, CanUnregister
  <2>2. QED
    BY <2>1 DEF i

\* module_end panics because a function is not registered only when the functions of that
\* very module did not fit into the tables when it was installed.
THEOREM PanicOnlyWhenRefusedCorrect == Spec => PanicOnlyWhenRefused
<1>1. ModInv /\ [Next]_vars =>
         [ManagerPiPanics => modules[Entry(modules[selected].name)].image \in refused]_vars
  BY PanicStep
<1>2. QED
  BY <1>1, ModInvariant, PTL DEF Spec, PanicOnlyWhenRefused
=============================================================================
