-------------------------- MODULE Lifecycle_proofs --------------------------
(***************************************************************************)
(* Proofs about Lifecycle: however often OSExt is installed over itself    *)
(* and whatever fails on the way, the hooks, the LCD, the exception        *)
(* vectors, the interrupts and the memory of TI-OS are in order whenever   *)
(* TI-OS runs.  The invariant follows a launch from step to step.          *)
(***************************************************************************)
EXTENDS Lifecycle, SequenceTheorems, TLAPS

USE LifecycleAssumption

\* what ti_malloc is asked for
Allocations == (1 .. NLaunches) \X {"chunk", "init_pds", "blocks", "tmp_pds"}

\* The variables of an instance: what it saved of TI-OS is TI-OS's own.
FileSaved == {<<>>, <<Os(1), Os(2)>>}
DrawSaved == {<<>>, <<Nop, Nop>>}
InstSaved == {<<>>, <<Os(3), Os(4), Os(5), Os(6)>>}
Instances == [chunk : BOOLEAN, pds : BOOLEAN, blocks : 0 .. NBlocks,
              file : FileSaved, draw : DrawSaved, drawInst : InstSaved,
              enabled : BOOLEAN, oldfb : {0}]

Typed ==
    /\ cur \in 0 .. NLaunches
    /\ irq \in BOOLEAN /\ high \in BOOLEAN
    /\ tt \in [Sections -> [k : 0 .. NLaunches, table : {"none", "init_pds", "cpt"}]]
    /\ tt[UninstallerBase] = Invalid
    /\ ti \subseteq Allocations
    /\ inst \in [1 .. NLaunches -> Instances]
    /\ supported \in {{}, {"file"}, {"file", "draw"}}

\* OSExt is not there: no vectors, no hooks, and the LCD shows TI-OS.
Down == ~ high /\ os = Untouched /\ lcd = 0

\* Launch k has its code and its pages, its tables are in use, and the page table of
\* the relocation is freed.
Loaded(k) ==
    /\ inst[k].chunk
    /\ tt[KernelBase] = Table(k, "cpt")
    /\ {<<k, "chunk">>, <<k, "blocks">>} \subseteq ti
    /\ <<k, "init_pds">> \notin ti

Backed(k) == high /\ Loaded(k) /\ tt[Vectors] = Table(k, "cpt") /\ stacks = k

\* relocate_self has put the launch under way in its place.
Relocated == inst[cur].chunk /\ inst[cur].pds /\ <<cur, "chunk">> \in ti

\* The instructions at the two places, and what is fetched; once the caches are cleared
\* that is the same.
Code(x, y, f) == [memory |-> [file |-> x, draw |-> y], fetched |-> f]
Cleared(x, y) == Code(x, y, [file |-> x, draw |-> y])

\* The instructions of TI-OS with the hooks of launch k, which has saved the old ones.
HookedFile(k) == IF "file" \in supported THEN <<Jump, To(k)>> ELSE Original.file
HookedDraw(k) == IF "draw" \in supported THEN <<Jump, To(k), Nop, Nop>> ELSE Original.draw
Hooked(k) == Cleared(HookedFile(k), HookedDraw(k))

SavedBy(k) ==
    /\ "file" \in supported => inst[k].file = <<Os(1), Os(2)>>
    /\ "draw" \in supported => /\ inst[k].draw = <<Nop, Nop>>
                               /\ inst[k].drawInst = <<Os(3), Os(4), Os(5), Os(6)>>

\* Launch k is installed.
Up(k) == Backed(k) /\ os = Hooked(k) /\ SavedBy(k) /\ lcd \in {0, k}

\* Where the launch under way is, and what holds there.
Phase ==
    \/ pc = "idle" /\ irq /\ (Down \/ \E k \in 1 .. cur : Up(k))
    \/ pc = "main" /\ irq /\ cur > 0 /\ (Down \/ \E k \in 1 .. (cur - 1) : Up(k))
    \/ pc = "relocate" /\ irq /\ cur > 0 /\ Down
    \/ pc = "initialize" /\ irq /\ cur > 0 /\ Down /\ Relocated
    \/ pc = "space" /\ ~ irq /\ cur > 0 /\ Down /\ Relocated
                    /\ (inst[cur].blocks > 0 => <<cur, "blocks">> \in ti)
    \/ pc = "drivers" /\ ~ irq /\ cur > 0 /\ Down /\ Relocated
                      /\ <<cur, "blocks">> \in ti /\ tt[KernelBase] = Table(cur, "cpt")
    \/ pc = "vectors" /\ ~ irq /\ cur > 0 /\ Down /\ Loaded(cur)
    \/ pc = "lcd" /\ ~ irq /\ cur > 0 /\ Backed(cur) /\ os = Untouched /\ lcd = 0
    \/ pc = "hooks" /\ ~ irq /\ cur > 0 /\ Backed(cur) /\ os = Untouched /\ lcd = cur
    \/ pc = "modules" /\ ~ irq /\ cur > 0 /\ Up(cur)
    \/ pc = "return" /\ irq /\ cur > 0 /\ (Down \/ Up(cur))

\* Uninstalled launches are older than the one under way and have freed their memory.
Freed == /\ gone \subseteq 1 .. (cur - 1)
         /\ \A a \in ti : a[1] \in gone => a[2] = "tmp_pds"

LifeInv == Typed /\ Phase /\ Freed

-----------------------------------------------------------------------------
(***************************************************************************)
(* HOOK_INSTALL and HOOK_UNINSTALL on the instructions they meet.          *)
(***************************************************************************)
LEMMA PatchTwo ==
    ASSUME NEW a, NEW b, NEW c, NEW d
    PROVE  <<a, b>> \o SubSeq(<<c, d>>, 3, Len(<<c, d>>)) = <<a, b>>
<1>1. SubSeq(<<c, d>>, 3, Len(<<c, d>>)) = <<>>
  BY SubSeqEmpty
<1>2. <<a, b>> \in Seq({a, b})
  OBVIOUS
<1>3. QED
  BY <1>1, <1>2, ConcatEmptySeq

LEMMA ConcatIs ==
    ASSUME NEW S, NEW q \in Seq(S), NEW t \in Seq(S), NEW r \in Seq(S),
           Len(r) = Len(q) + Len(t), \A i \in 1 .. Len(q) : r[i] = q[i],
           \A i \in 1 .. Len(t) : r[i + Len(q)] = t[i]
    PROVE  q \o t = r
OBVIOUS

LEMMA PatchFour ==
    ASSUME NEW a, NEW b, NEW c, NEW d, NEW e, NEW f
    PROVE  <<a, b>> \o SubSeq(<<c, d, e, f>>, 3, Len(<<c, d, e, f>>)) = <<a, b, e, f>>
<1> DEFINE S == {a, b, c, d, e, f}
           s == <<c, d, e, f>>
           t == SubSeq(s, 3, 4)
           r == <<a, b, e, f>>
           q == <<a, b>>
<1>1. s \in Seq(S) /\ Len(s) = 4 /\ s[3] = e /\ s[4] = f
  OBVIOUS
<1>2. t \in Seq(S) /\ Len(t) = 2 /\ t[1] = e /\ t[2] = f
  <2>1. \A i \in 3 .. 4 : s[i] \in S
    BY <1>1
  <2> HIDE DEF s, S
  <2>2. t \in Seq(S) /\ Len(t) = 2 /\ \A i \in 1 .. 2 : t[i] = s[3 + i - 1]
    BY <2>1, SubSeqProperties
  <2>3. QED
    BY <1>1, <2>2
<1>3. /\ q \in Seq(S) /\ Len(q) = 2 /\ q[1] = a /\ q[2] = b
      /\ r \in Seq(S) /\ Len(r) = 4 /\ r[1] = a /\ r[2] = b /\ r[3] = e /\ r[4] = f
  OBVIOUS
<1>4. q \o t = r
  <2> HIDE DEF t, S, q, r
  <2>1. \A i \in 1 .. Len(q) : r[i] = q[i]
    BY <1>3
  <2>2. \A i \in 1 .. Len(t) : r[i + Len(q)] = t[i]
    BY <1>2, <1>3
  <2>3. Len(r) = Len(q) + Len(t)
    BY <1>2, <1>3
  <2>4. QED
    BY <1>2, <1>3, <2>1, <2>2, <2>3, ConcatIs
<1>5. QED
  BY <1>1, <1>4

LEMMA FirstTwo ==
    ASSUME NEW a, NEW b
    PROVE  SubSeq(<<a, b>>, 1, 2) = <<a, b>>
<1>1. <<a, b>> \in Seq({a, b}) /\ Len(<<a, b>>) = 2
  OBVIOUS
<1>2. QED
  BY <1>1, SubSeqFull

\* Instructions are stored at one place, and fetched once the caches are cleared.
LEMMA Cached ==
    ASSUME NEW x, NEW y, NEW f, NEW words
    PROVE  /\ Code(x, y, f).memory["file"] = x /\ Code(x, y, f).memory["draw"] = y
           /\ Store(Code(x, y, f), "file", words) = Code(words, y, f)
           /\ Store(Code(x, y, f), "draw", words) = Code(x, words, f)
           /\ ClearCaches(Code(x, y, f)) = Cleared(x, y)
<1> DEFINE p == [file |-> x, draw |-> y]
           code == [memory |-> p, fetched |-> f]
<1>1. p["file"] = x /\ p["draw"] = y /\ code.memory = p
  OBVIOUS
<1>2. [p EXCEPT !["file"] = words] = [file |-> words, draw |-> y]
  OBVIOUS
<1>3. [p EXCEPT !["draw"] = words] = [file |-> x, draw |-> words]
  OBVIOUS
<1>4. \A q : [code EXCEPT !.memory = q] = [memory |-> q, fetched |-> f]
  <2> HIDE DEF p
  <2>1. QED
    OBVIOUS
<1>5. Store(code, "file", words) = [memory |-> [file |-> words, draw |-> y], fetched |-> f]
  BY <1>1, <1>2, <1>4 DEF Store
<1>6. Store(code, "draw", words) = [memory |-> [file |-> x, draw |-> words], fetched |-> f]
  BY <1>1, <1>3, <1>4 DEF Store
<1>7. ClearCaches(code) = [memory |-> p, fetched |-> p]
  <2> HIDE DEF p
  <2>1. QED
    BY DEF ClearCaches
<1>8. QED
  BY <1>1, <1>5, <1>6, <1>7 DEF Code, Cleared

\* HOOK_INSTALL and HOOK_UNINSTALL, whatever was cached before.
LEMMA HookInstalls ==
    ASSUME NEW x, NEW y, NEW f, NEW k
    PROVE  /\ HookInstall(Code(x, y, f), "file", k) = Cleared(Patched(x, k), y)
           /\ HookInstall(Code(x, y, f), "draw", k) = Cleared(x, Patched(y, k))
<1>1. Code(x, y, f).memory["file"] = x /\ Code(x, y, f).memory["draw"] = y
  BY Cached
<1>2. \A w : ClearCaches(Store(Code(x, y, f), "file", w)) = Cleared(w, y)
  BY Cached
<1>3. \A w : ClearCaches(Store(Code(x, y, f), "draw", w)) = Cleared(x, w)
  BY Cached
<1>4. QED
  BY <1>1, <1>2, <1>3 DEF HookInstall

LEMMA HookUninstalls ==
    ASSUME NEW x, NEW y, NEW f, NEW saved
    PROVE  /\ HookUninstall(Code(x, y, f), "file", saved) = Cleared(Unpatched(x, saved), y)
           /\ HookUninstall(Code(x, y, f), "draw", saved) = Cleared(x, Unpatched(y, saved))
<1>1. Code(x, y, f).memory["file"] = x /\ Code(x, y, f).memory["draw"] = y
  BY Cached
<1>2. \A w : ClearCaches(Store(Code(x, y, f), "file", w)) = Cleared(w, y)
  BY Cached
<1>3. \A w : ClearCaches(Store(Code(x, y, f), "draw", w)) = Cleared(x, w)
  BY Cached
<1>4. QED
  BY <1>1, <1>2, <1>3 DEF HookUninstall

LEMMA ClearedIs ==
    ASSUME NEW x, NEW y
    PROVE  \E f : Cleared(x, y) = Code(x, y, f)
BY DEF Cleared

LEMMA UntouchedIs == Untouched = Cleared(Original.file, Original.draw)
BY DEF Untouched, Cleared, Code, Original

\* install_hooks on the original instructions.
LEMMA HooksInstalled ==
    ASSUME NEW k
    PROVE  /\ DrawHooked(k, FileHooked(k, Untouched)) = Hooked(k)
           /\ SubSeq(Original.file, 1, 2) = <<Os(1), Os(2)>>
<1>1. Original.file = <<Os(1), Os(2)>>
  BY DEF Original
<1>2. /\ Patched(Original.file, k) = <<Jump, To(k)>>
      /\ Patched(<<Nop, Nop, Nop, Nop>>, k) = <<Jump, To(k), Nop, Nop>>
  BY <1>1, PatchTwo, PatchFour DEF Patched
<1>3. FileHooked(k, Untouched) = Cleared(HookedFile(k), Original.draw)
  <2>1. HookInstall(Untouched, "file", k) = Cleared(<<Jump, To(k)>>, Original.draw)
    BY <1>2, UntouchedIs, ClearedIs, HookInstalls
  <2>2. QED
    BY <2>1, UntouchedIs DEF FileHooked, HookedFile
<1>4. HookInstall(Store(Cleared(HookedFile(k), Original.draw), "draw",
                        <<Nop, Nop, Nop, Nop>>), "draw", k)
          = Cleared(HookedFile(k), <<Jump, To(k), Nop, Nop>>)
  <2>1. PICK f : Cleared(HookedFile(k), Original.draw) = Code(HookedFile(k), Original.draw, f)
    BY ClearedIs
  <2>2. Store(Code(HookedFile(k), Original.draw, f), "draw", <<Nop, Nop, Nop, Nop>>)
            = Code(HookedFile(k), <<Nop, Nop, Nop, Nop>>, f)
    BY Cached
  <2>3. HookInstall(Code(HookedFile(k), <<Nop, Nop, Nop, Nop>>, f), "draw", k)
            = Cleared(HookedFile(k), Patched(<<Nop, Nop, Nop, Nop>>, k))
    BY HookInstalls
  <2>4. QED
    BY <1>2, <2>1, <2>2, <2>3, Zenon
<1>5. DrawHooked(k, FileHooked(k, Untouched)) = Hooked(k)
  BY <1>3, <1>4 DEF DrawHooked, Hooked, HookedDraw
<1>6. QED
  BY <1>1, <1>5, FirstTwo

\* uninstall_osext on the instructions with the hooks of k: the message that follows
\* uninstall_hooks makes the CPU fetch what was stored last.
LEMMA HooksRemoved ==
    ASSUME NEW k, SavedBy(k)
    PROVE  ShellPrintln(UninstallHooks(k, Hooked(k))) = Untouched
<1>1. FileRestored(k, Hooked(k)) = Cleared(Original.file, HookedDraw(k))
  <2>1. CASE "file" \in supported
    <3>1. HookedFile(k) = <<Jump, To(k)>> /\ inst[k].file = Original.file
          /\ Original.file = <<Os(1), Os(2)>>
      BY <2>1 DEF HookedFile, SavedBy, Original
    <3>2. Unpatched(HookedFile(k), inst[k].file) = Original.file
      BY <3>1, PatchTwo DEF Unpatched
    <3>3. HookUninstall(Hooked(k), "file", inst[k].file) = Cleared(Original.file, HookedDraw(k))
      BY <3>2, ClearedIs, HookUninstalls DEF Hooked
    <3>4. QED
      BY <2>1, <3>3 DEF FileRestored
  <2>2. CASE "file" \notin supported
    BY <2>2 DEF FileRestored, Hooked, HookedFile
  <2>3. QED
    BY <2>1, <2>2
<1>2. ASSUME NEW f PROVE ShellPrintln(Code(Original.file, Original.draw, f)) = Untouched
  BY Cached, UntouchedIs DEF ShellPrintln
<1>3. CASE "draw" \in supported
  <2>1. inst[k].drawInst = Original.draw
    BY <1>3 DEF SavedBy, Original
  <2> DEFINE w == Unpatched(HookedDraw(k), inst[k].draw)
  <2>2. HookUninstall(Cleared(Original.file, HookedDraw(k)), "draw", inst[k].draw)
            = Cleared(Original.file, w)
    BY ClearedIs, HookUninstalls
  <2> HIDE DEF w
  <2>3. DrawRestored(k, Cleared(Original.file, HookedDraw(k)))
            = Code(Original.file, Original.draw, [file |-> Original.file, draw |-> w])
    BY <2>1, <2>2, Cached DEF DrawRestored, Cleared
  <2>4. QED
    BY <1>1, <1>2, <1>3, <2>3 DEF UninstallHooks
<1>4. CASE "draw" \notin supported
  BY <1>1, <1>2, <1>4 DEF UninstallHooks, HookedDraw, Cleared
<1>5. QED
  BY <1>3, <1>4

-----------------------------------------------------------------------------
(***************************************************************************)
(* The steps of a launch.                                                  *)
(***************************************************************************)
LEMMA InstFields ==
    ASSUME Typed, NEW k \in 1 .. NLaunches
    PROVE  /\ inst[k] \in Instances
           /\ inst[k].chunk \in BOOLEAN /\ inst[k].pds \in BOOLEAN
           /\ inst[k].blocks \in 0 .. NBlocks
           /\ inst[k].oldfb = 0
<1>1. inst[k] \in Instances
  BY DEF Typed
<1>2. QED
  BY <1>1 DEF Instances

\* What uninstall_osext leaves of an instance, and what a launch records in it.
LEMMA InstUpdates ==
    ASSUME NEW r \in Instances, NEW n \in 0 .. NBlocks
    PROVE  /\ [[r EXCEPT !.enabled = FALSE] EXCEPT !.blocks = n] \in Instances
           /\ [r EXCEPT !.blocks = n] \in Instances
           /\ [r EXCEPT !.blocks = n].blocks = n
           /\ [r EXCEPT !.blocks = n].chunk = r.chunk
           /\ [r EXCEPT !.blocks = n].pds = r.pds
           /\ [r EXCEPT !.pds = FALSE] \in Instances
           /\ [r EXCEPT !.pds = FALSE].chunk = r.chunk
           /\ [r EXCEPT !.oldfb = 0] \in Instances
           /\ [r EXCEPT !.oldfb = 0].chunk = r.chunk
<1>1. [r EXCEPT !.blocks = n] \in Instances
  BY DEF Instances
<1>2. [[r EXCEPT !.enabled = FALSE] EXCEPT !.blocks = n] \in Instances
  BY DEF Instances
<1>3. [r EXCEPT !.pds = FALSE] \in Instances /\ [r EXCEPT !.oldfb = 0] \in Instances
  BY DEF Instances
<1>4. QED
  BY <1>1, <1>2, <1>3 DEF Instances

LEMMA ImageTyped ==
    /\ Image \in Instances /\ Copied \in Instances
    /\ Copied.chunk /\ Copied.pds
<1>1. 0 \in 0 .. NBlocks /\ <<>> \in FileSaved /\ <<>> \in DrawSaved /\ <<>> \in InstSaved
  BY DEF FileSaved, DrawSaved, InstSaved
<1>2. Image \in Instances
  BY <1>1 DEF Image, Instances
<1>3. QED
  BY <1>2 DEF Copied, Instances

\* The phases, one by one.
LEMMA PhaseCases ==
    ASSUME LifeInv
    PROVE  /\ pc = "idle" => irq /\ (Down \/ \E k \in 1 .. cur : Up(k))
           /\ pc = "main" => irq /\ cur > 0 /\ (Down \/ \E k \in 1 .. (cur - 1) : Up(k))
           /\ pc = "relocate" => irq /\ cur > 0 /\ Down
           /\ pc = "initialize" => irq /\ cur > 0 /\ Down /\ Relocated
           /\ pc = "space" => /\ ~ irq /\ cur > 0 /\ Down /\ Relocated
                              /\ inst[cur].blocks > 0 => <<cur, "blocks">> \in ti
           /\ pc = "drivers" => /\ ~ irq /\ cur > 0 /\ Down /\ Relocated
                                /\ <<cur, "blocks">> \in ti
                                /\ tt[KernelBase] = Table(cur, "cpt")
           /\ pc = "vectors" => ~ irq /\ cur > 0 /\ Down /\ Loaded(cur)
           /\ pc \in {"lcd", "hooks"} =>
                 ~ irq /\ cur > 0 /\ Backed(cur) /\ os = Untouched
           /\ pc = "lcd" => lcd = 0
           /\ pc = "hooks" => lcd = cur
           /\ pc = "modules" => ~ irq /\ cur > 0 /\ Up(cur)
           /\ pc = "return" => irq /\ cur > 0 /\ (Down \/ Up(cur))
BY DEF LifeInv, Phase

LEMMA LifeLaunch ==
    ASSUME LifeInv, Launch
    PROVE  LifeInv'
<1>1. /\ cur \in 0 .. NLaunches /\ cur' = cur + 1 /\ cur' \in 1 .. NLaunches
      /\ cur' - 1 = cur
  BY DEF LifeInv, Typed, Launch
<1>2. Typed'
  BY <1>1 DEF LifeInv, Typed, Launch
<1>3. Freed'
  <2>1. 1 .. (cur - 1) \subseteq 1 .. (cur' - 1)
    BY <1>1
  <2>2. QED
    BY <2>1 DEF LifeInv, Freed, Launch
<1>4. Phase'
  <2>1. irq /\ (Down \/ \E k \in 1 .. cur : Up(k))
    BY PhaseCases DEF Launch
  <2>2. Down => Down'
    BY DEF Down, Launch
  <2>3. \A k : Up(k) => Up(k)'
    BY DEF Up, Backed, Loaded, Hooked, HookedFile, HookedDraw, SavedBy, Launch
  <2>4. irq' /\ cur' > 0 /\ (Down' \/ \E k \in 1 .. (cur' - 1) : Up(k)')
    BY <1>1, <2>1, <2>2, <2>3 DEF Launch
  <2>5. QED
    BY <2>4 DEF Phase, Launch
<1>5. QED
  BY <1>2, <1>3, <1>4 DEF LifeInv

LEMMA LifeUninstall ==
    ASSUME LifeInv, MainUninstalls
    PROVE  LifeInv'
<1>1. /\ pc = "main" /\ high /\ irq /\ cur > 0
  BY PhaseCases DEF MainUninstalls, OsextDetected
<1>2. PICK k \in 1 .. (cur - 1) : Up(k)
  BY <1>1, PhaseCases DEF Down
<1>3. /\ tt[Vectors].k = k /\ inst[k].chunk /\ os = Hooked(k) /\ SavedBy(k)
      /\ <<k, "init_pds">> \notin ti
  BY <1>2 DEF Up, Backed, Loaded, Table
<1>4. cur \in 1 .. NLaunches /\ k \in 1 .. NLaunches
  BY <1>1, <1>2 DEF LifeInv, Typed
<1>5. /\ UninstallOsext(k)
      /\ tt' = [tt EXCEPT ![KernelBase] = Invalid]
      /\ ti' = ti \ {<<k, "blocks">>, <<k, "chunk">>}
      /\ pc' = "relocate"
  BY <1>3 DEF MainUninstalls, FreedOnUninstall
<1>6. /\ cur' = cur /\ irq' = irq /\ supported' = supported /\ high' = FALSE
      /\ gone' = gone \union {k} /\ lcd' = inst[k].oldfb
      /\ inst' = [inst EXCEPT ![k] = [[inst[k] EXCEPT !.enabled = FALSE] EXCEPT !.blocks = 0]]
  BY <1>4, <1>5 DEF UninstallOsext, LifeInv, Typed
<1>7. Typed'
  <2>1. inst' \in [1 .. NLaunches -> Instances]
    <3>1. inst[k] \in Instances /\ 0 \in 0 .. NBlocks
      BY <1>4, InstFields DEF LifeInv
    <3>2. [[inst[k] EXCEPT !.enabled = FALSE] EXCEPT !.blocks = 0] \in Instances
      BY <3>1, InstUpdates
    <3>3. QED
      BY <1>4, <1>6, <3>2 DEF LifeInv, Typed
  <2>2. tt' \in [Sections -> [k : 0 .. NLaunches, table : {"none", "init_pds", "cpt"}]]
        /\ tt'[UninstallerBase] = Invalid
    BY <1>5 DEF LifeInv, Typed, Sections, Invalid, Table, KernelBase, UninstallerBase, Vectors
  <2>3. QED
    BY <1>5, <1>6, <2>1, <2>2 DEF LifeInv, Typed
<1>8. Freed'
  <2>1. gone' \subseteq 1 .. (cur' - 1)
    BY <1>2, <1>6 DEF LifeInv, Freed
  <2>2. ASSUME NEW a \in ti', a[1] \in gone' PROVE a[2] = "tmp_pds"
    <3>1. a \in ti /\ a # <<k, "blocks">> /\ a # <<k, "chunk">> /\ a # <<k, "init_pds">>
      BY <1>3, <1>5, <2>2
    <3>2. a = <<a[1], a[2]>> /\ a[2] \in {"chunk", "init_pds", "blocks", "tmp_pds"}
      BY <3>1 DEF LifeInv, Typed, Allocations
    <3>3. CASE a[1] = k
      BY <3>1, <3>2, <3>3
    <3>4. CASE a[1] # k
      BY <1>6, <2>2, <3>1, <3>4 DEF LifeInv, Freed
    <3>5. QED
      BY <3>3, <3>4
  <2>3. QED
    BY <2>1, <2>2 DEF Freed
<1>9. Phase'
  <2>1. os' = Untouched
    BY <1>3, <1>5, HooksRemoved DEF UninstallOsext
  <2>2. lcd' = 0
    BY <1>4, <1>6, InstFields DEF LifeInv
  <2>3. QED
    BY <1>1, <1>5, <1>6, <2>1, <2>2 DEF Phase, Down
<1>10. QED
  BY <1>7, <1>8, <1>9 DEF LifeInv

\* Steps that move on, and those that let TI-OS run.
LEMMA LifeMoves ==
    ASSUME LifeInv, MainFresh \/ RelocateFails \/ Finish \/ Return
    PROVE  LifeInv'
<1>1. /\ UNCHANGED <<cur, high, tt, ti, os, lcd, stacks, inst, supported, gone>>
      /\ irq' \in BOOLEAN
  BY DEF MainFresh, RelocateFails, Finish, Return, LifeInv, Typed
<1>2. Typed' /\ Freed'
  BY <1>1 DEF LifeInv, Typed, Freed
<1>3. /\ Down => Down'
      /\ \A k : Up(k) => Up(k)'
  BY <1>1 DEF Down, Up, Backed, Loaded, Hooked, HookedFile, HookedDraw, SavedBy
<1>4. cur \in Nat
  BY DEF LifeInv, Typed
<1>5. Phase'
  <2>1. CASE MainFresh
    <3>1. /\ pc = "main" /\ pc' = "relocate" /\ irq' = irq
          /\ ~ (high /\ tt[KernelBase] # Invalid)
      BY <2>1 DEF MainFresh, OsextDetected
    <3>2. \A k \in 1 .. (cur - 1) : ~ Up(k)
      BY <3>1 DEF Up, Backed, Loaded, Invalid, Table
    <3>3. irq' /\ cur' > 0 /\ Down'
      BY <1>1, <1>3, <3>1, <3>2, PhaseCases
    <3>4. QED
      BY <3>1, <3>3 DEF Phase
  <2>2. CASE RelocateFails
    BY <1>1, <1>3, <2>2, PhaseCases DEF RelocateFails, Phase
  <2>3. CASE Finish
    <3>1. pc' = "return" /\ irq' /\ cur' > 0 /\ Up(cur)'
      BY <1>1, <1>3, <2>3, PhaseCases DEF Finish
    <3>2. QED
      BY <1>1, <3>1 DEF Phase
  <2>4. CASE Return
    <3>1. pc' = "idle" /\ irq' /\ cur \in 1 .. cur' /\ (Down \/ Up(cur))
      BY <1>1, <1>4, <2>4, PhaseCases DEF Return
    <3>2. Down' \/ \E k \in 1 .. cur' : Up(k)'
      BY <1>3, <3>1
    <3>3. QED
      BY <3>1, <3>2 DEF Phase
  <2>5. QED
    BY <2>1, <2>2, <2>3, <2>4
<1>6. QED
  BY <1>2, <1>5 DEF LifeInv

\* The uninstaller looks where OSExt never is.
LEMMA LifeUninstaller ==
    ASSUME LifeInv, Uninstaller
    PROVE  UNCHANGED vars
<1>1. ~ OsextDetected(UninstallerBase)
  BY DEF OsextDetected, LifeInv, Typed
<1>2. QED
  BY <1>1 DEF Uninstaller, vars

LEMMA LifeDraw ==
    ASSUME LifeInv, Draw
    PROVE  LifeInv'
<1>1. UNCHANGED <<pc, cur, irq, high, tt, ti, os, stacks, inst, supported, gone>> /\ irq
  BY DEF Draw
<1>2. Typed' /\ Freed'
  BY <1>1 DEF LifeInv, Typed, Freed
<1>3. PICK from \in DOMAIN os :
          lcd' = IF os[from].draw[1] = Jump /\ inst[os[from].draw[2].arg].enabled
                 THEN os[from].draw[2].arg ELSE 0
  BY DEF Draw
<1>4. Original.draw[1] # Jump
  BY DEF Original, Os, Jump
<1>5. Down => Down'
  <2>1. SUFFICES ASSUME Down PROVE Down'
    OBVIOUS
  <2>2. os[from] = Original
    BY <1>3, <2>1 DEF Down, Untouched
  <2>3. lcd' = 0
    BY <1>3, <1>4, <2>2
  <2>4. QED
    BY <1>1, <2>1, <2>3 DEF Down
<1>6. ASSUME NEW k, Up(k) PROVE Up(k)'
  <2>1. os[from] = [file |-> HookedFile(k), draw |-> HookedDraw(k)]
    BY <1>3, <1>6 DEF Up, Hooked, Cleared, Code
  <2>2. lcd' \in {0, k}
    <3>1. CASE "draw" \in supported
      <4>1. os[from].draw = <<Jump, To(k), Nop, Nop>>
        BY <2>1, <3>1 DEF HookedDraw
      <4>2. os[from].draw[2].arg = k
        BY <4>1 DEF To
      <4>3. QED
        BY <1>3, <4>2
    <3>2. CASE "draw" \notin supported
      <4>1. os[from].draw[1] # Jump
        BY <1>4, <2>1, <3>2 DEF HookedDraw
      <4>2. QED
        BY <1>3, <4>1
    <3>3. QED
      BY <3>1, <3>2
  <2>3. QED
    BY <1>1, <1>6, <2>2 DEF Up, Backed, Loaded, Hooked, HookedFile, HookedDraw, SavedBy
<1>7. Relocated => Relocated'
  BY <1>1 DEF Relocated
<1>8. Phase'
  BY <1>1, <1>5, <1>6, <1>7 DEF LifeInv, Phase
<1>9. QED
  BY <1>2, <1>8 DEF LifeInv

LEMMA LifeRelocate ==
    ASSUME LifeInv, RelocateSelf
    PROVE  LifeInv'
<1>1. pc = "relocate" /\ irq /\ Down /\ cur \in 1 .. NLaunches
  BY PhaseCases DEF RelocateSelf, LifeInv, Typed
<1>2. inst' \in [1 .. NLaunches -> Instances] /\ inst'[cur] = Copied
  BY <1>1, ImageTyped DEF RelocateSelf, LifeInv, Typed
<1>3. /\ tt' \in [Sections -> [k : 0 .. NLaunches, table : {"none", "init_pds", "cpt"}]]
      /\ tt'[UninstallerBase] = Invalid
  BY <1>1 DEF RelocateSelf, LifeInv, Typed, Sections, Table, KernelBase, UninstallerBase,
              Vectors
<1>4. ti' \subseteq Allocations
  BY <1>1 DEF RelocateSelf, LifeInv, Typed, Allocations
<1>5. Typed'
  BY <1>2, <1>3, <1>4 DEF RelocateSelf, LifeInv, Typed
<1>6. Freed'
  <2>1. cur \notin gone
    BY <1>1 DEF LifeInv, Freed
  <2>2. QED
    BY <2>1 DEF LifeInv, Freed, RelocateSelf
<1>7. Phase'
  <2>1. Relocated' /\ Down'
    BY <1>1, <1>2, ImageTyped DEF Relocated, Down, RelocateSelf
  <2>2. QED
    BY <1>1, <2>1 DEF Phase, RelocateSelf
<1>8. QED
  BY <1>5, <1>6, <1>7 DEF LifeInv

LEMMA LifeAllocBlocks ==
    ASSUME LifeInv, NEW n \in 0 .. NBlocks, AllocBlocks(n)
    PROVE  LifeInv'
<1>1. pc = "initialize" /\ Down /\ Relocated /\ cur \in 1 .. NLaunches
  BY PhaseCases DEF AllocBlocks, LifeInv, Typed
<1>2. inst' = [inst EXCEPT ![cur] = [inst[cur] EXCEPT !.blocks = n]]
  BY DEF AllocBlocks
<1>3. /\ [inst[cur] EXCEPT !.blocks = n] \in Instances
      /\ [inst[cur] EXCEPT !.blocks = n].blocks = n
      /\ [inst[cur] EXCEPT !.blocks = n].chunk = inst[cur].chunk
      /\ [inst[cur] EXCEPT !.blocks = n].pds = inst[cur].pds
  BY <1>1, InstFields, InstUpdates DEF LifeInv
<1>4. /\ inst' \in [1 .. NLaunches -> Instances]
      /\ inst'[cur].blocks = n /\ inst'[cur].chunk = inst[cur].chunk
      /\ inst'[cur].pds = inst[cur].pds
  BY <1>1, <1>2, <1>3 DEF LifeInv, Typed
<1>5. ti' \subseteq Allocations
  BY <1>1 DEF AllocBlocks, LifeInv, Typed, Allocations
<1>6. Typed'
  BY <1>4, <1>5 DEF AllocBlocks, LifeInv, Typed
<1>7. Freed'
  <2>1. cur \notin gone
    BY <1>1 DEF LifeInv, Freed
  <2>2. QED
    BY <2>1 DEF LifeInv, Freed, AllocBlocks
<1>8. Phase'
  <2>1. Relocated' /\ Down' /\ (inst'[cur].blocks > 0 => <<cur, "blocks">> \in ti')
    BY <1>1, <1>4 DEF Relocated, Down, AllocBlocks
  <2>2. QED
    BY <1>1, <2>1 DEF Phase, AllocBlocks
<1>9. QED
  BY <1>6, <1>7, <1>8 DEF LifeInv

\* init_kernel frees the page table of the relocation, whether it goes on or gives up.
LEMMA PdsFreed ==
    ASSUME LifeInv, Relocated, cur \in 1 .. NLaunches, ti' = FreeInitPds,
           inst' = [inst EXCEPT ![cur].pds = FALSE],
           UNCHANGED <<cur, gone>>
    PROVE  /\ ti' = ti \ {<<cur, "init_pds">>} /\ ti' \subseteq Allocations
           /\ inst' \in [1 .. NLaunches -> Instances] /\ inst'[cur].chunk
           /\ Freed'
<1>1. ti' = ti \ {<<cur, "init_pds">>}
  BY DEF FreeInitPds, Relocated
<1>2. inst' = [inst EXCEPT ![cur] = [inst[cur] EXCEPT !.pds = FALSE]]
  OBVIOUS
<1>3. /\ [inst[cur] EXCEPT !.pds = FALSE] \in Instances
      /\ [inst[cur] EXCEPT !.pds = FALSE].chunk = inst[cur].chunk
  <2>1. inst[cur] \in Instances /\ 0 \in 0 .. NBlocks
    BY InstFields DEF LifeInv
  <2>2. QED
    BY <2>1, InstUpdates
<1>4. QED
  BY <1>1, <1>2, <1>3 DEF LifeInv, Typed, Freed, Relocated

LEMMA LifeSpaceFails ==
    ASSUME LifeInv, SpaceFails
    PROVE  LifeInv'
<1>1. pc = "space" /\ Down /\ Relocated /\ cur \in 1 .. NLaunches
  BY PhaseCases DEF SpaceFails, LifeInv, Typed
<1>2. /\ ti' \subseteq Allocations /\ inst' \in [1 .. NLaunches -> Instances] /\ Freed'
  BY <1>1, PdsFreed DEF SpaceFails
<1>3. Typed'
  BY <1>2 DEF SpaceFails, LifeInv, Typed
<1>4. Down'
  BY <1>1 DEF Down, SpaceFails
<1>5. QED
  BY <1>1, <1>2, <1>3, <1>4 DEF LifeInv, Phase, SpaceFails

LEMMA LifeSpace ==
    ASSUME LifeInv, InitializeKernelSpace
    PROVE  LifeInv'
<1>1. /\ pc = "space" /\ ~ irq /\ Down /\ Relocated /\ cur \in 1 .. NLaunches
      /\ <<cur, "blocks">> \in ti
  BY PhaseCases DEF InitializeKernelSpace, LifeInv, Typed
<1>2. /\ tt' \in [Sections -> [k : 0 .. NLaunches, table : {"none", "init_pds", "cpt"}]]
      /\ tt'[UninstallerBase] = Invalid
      /\ tt'[KernelBase] = Table(cur, "cpt")
  BY <1>1 DEF InitializeKernelSpace, LifeInv, Typed, Sections, Table, KernelBase,
              UninstallerBase, Vectors
<1>3. ti' \subseteq Allocations
  BY <1>1 DEF InitializeKernelSpace, LifeInv, Typed, Allocations
<1>4. Typed'
  BY <1>2, <1>3 DEF InitializeKernelSpace, LifeInv, Typed
<1>5. Freed'
  BY DEF InitializeKernelSpace, LifeInv, Freed
<1>6. Down' /\ Relocated' /\ <<cur, "blocks">> \in ti'
  BY <1>1 DEF InitializeKernelSpace, Down, Relocated
<1>7. QED
  BY <1>1, <1>2, <1>4, <1>5, <1>6 DEF LifeInv, Phase, InitializeKernelSpace

LEMMA LifeDrivers ==
    ASSUME LifeInv, InitDrivers
    PROVE  LifeInv'
<1>1. /\ pc = "drivers" /\ ~ irq /\ Down /\ Relocated /\ cur \in 1 .. NLaunches
      /\ <<cur, "blocks">> \in ti /\ tt[KernelBase] = Table(cur, "cpt")
  BY PhaseCases DEF InitDrivers, LifeInv, Typed
<1>2. /\ ti' = ti \ {<<cur, "init_pds">>} /\ ti' \subseteq Allocations
      /\ inst' \in [1 .. NLaunches -> Instances] /\ inst'[cur].chunk /\ Freed'
  BY <1>1, PdsFreed DEF InitDrivers
<1>3. Typed'
  BY <1>2 DEF InitDrivers, LifeInv, Typed
<1>4. Down'
  BY <1>1 DEF Down, InitDrivers
<1>5. Loaded(cur)'
  BY <1>1, <1>2 DEF Loaded, Relocated, InitDrivers
<1>6. QED
  BY <1>1, <1>2, <1>3, <1>4, <1>5 DEF LifeInv, Phase, InitDrivers

LEMMA LifePanic ==
    ASSUME LifeInv, InitDriversPanic
    PROVE  LifeInv'
<1>1. Typed'
  BY DEF InitDriversPanic, LifeInv, Typed, Sections, Invalid, Table, UninstallerBase
<1>2. Freed'
  BY DEF InitDriversPanic, LifeInv, Freed
<1>3. Phase'
  BY DEF InitDriversPanic, Phase, Down
<1>4. QED
  BY <1>1, <1>2, <1>3 DEF LifeInv

LEMMA LifeVectorsFail ==
    ASSUME LifeInv, VectorsFail
    PROVE  LifeInv'
<1>1. pc = "vectors" /\ cur > 0 /\ Down
  BY PhaseCases DEF VectorsFail
<1>2. Typed' /\ Freed'
  BY DEF VectorsFail, LifeInv, Typed, Freed
<1>3. Down'
  BY <1>1 DEF Down, VectorsFail
<1>4. QED
  BY <1>1, <1>2, <1>3 DEF LifeInv, Phase, VectorsFail

LEMMA LifeVectors ==
    ASSUME LifeInv, InstallExceptionHandlers
    PROVE  LifeInv'
<1>1. pc = "vectors" /\ ~ irq /\ Down /\ Loaded(cur) /\ cur \in 1 .. NLaunches
  BY PhaseCases DEF InstallExceptionHandlers, LifeInv, Typed
<1>2. /\ tt' \in [Sections -> [k : 0 .. NLaunches, table : {"none", "init_pds", "cpt"}]]
      /\ tt'[UninstallerBase] = Invalid
      /\ tt'[KernelBase] = tt[KernelBase]
      /\ tt'[Vectors] = Table(cur, "cpt")
  BY <1>1 DEF InstallExceptionHandlers, LifeInv, Typed, Sections, Table, KernelBase,
              UninstallerBase, Vectors
<1>3. Typed' /\ Freed'
  BY <1>2 DEF InstallExceptionHandlers, LifeInv, Typed, Freed
<1>4. Backed(cur)' /\ os' = Untouched /\ lcd' = 0
  BY <1>1, <1>2 DEF InstallExceptionHandlers, Backed, Loaded, Down
<1>5. QED
  BY <1>1, <1>3, <1>4 DEF LifeInv, Phase, InstallExceptionHandlers

LEMMA LifeClaimLCD ==
    ASSUME LifeInv, ClaimLCD
    PROVE  LifeInv'
<1>1. /\ pc = "lcd" /\ ~ irq /\ Backed(cur) /\ os = Untouched /\ lcd = 0
      /\ cur \in 1 .. NLaunches
  BY PhaseCases DEF ClaimLCD, LifeInv, Typed
<1>2. inst' = [inst EXCEPT ![cur] = [inst[cur] EXCEPT !.oldfb = 0]]
  BY <1>1 DEF ClaimLCD
<1>3. /\ [inst[cur] EXCEPT !.oldfb = 0] \in Instances
      /\ [inst[cur] EXCEPT !.oldfb = 0].chunk = inst[cur].chunk
  <2>1. inst[cur] \in Instances /\ 0 \in 0 .. NBlocks
    BY <1>1, InstFields DEF LifeInv
  <2>2. QED
    BY <2>1, InstUpdates
<1>4. inst' \in [1 .. NLaunches -> Instances] /\ inst'[cur].chunk = inst[cur].chunk
  BY <1>1, <1>2, <1>3 DEF LifeInv, Typed
<1>5. Typed' /\ Freed'
  BY <1>4 DEF ClaimLCD, LifeInv, Typed, Freed
<1>6. Backed(cur)'
  BY <1>1, <1>4 DEF ClaimLCD, Backed, Loaded
<1>7. QED
  BY <1>1, <1>5, <1>6 DEF LifeInv, Phase, ClaimLCD

\* install_hooks saves the original instructions and puts the hooks in their place.
LEMMA LifeHooks ==
    ASSUME LifeInv, InstallHooks
    PROVE  LifeInv'
<1>1. /\ pc = "hooks" /\ ~ irq /\ Backed(cur) /\ os = Untouched /\ lcd = cur
      /\ cur \in 1 .. NLaunches
  BY PhaseCases DEF InstallHooks, LifeInv, Typed
<1> DEFINE f == IF "file" \in supported THEN SubSeq(os.memory.file, 1, 2) ELSE inst[cur].file
           di == IF "draw" \in supported THEN os.memory.draw ELSE inst[cur].drawInst
           d == IF "draw" \in supported THEN <<Nop, Nop>> ELSE inst[cur].draw
           en == "draw" \in supported
           r == [inst[cur] EXCEPT !.file = f, !.drawInst = di, !.draw = d, !.enabled = en]
<1>2. inst' = [inst EXCEPT ![cur] = r]
  BY DEF InstallHooks, HooksSaved
<1>3. inst[cur] \in Instances
  BY <1>1, InstFields DEF LifeInv
<1>4. f \in FileSaved /\ ("file" \in supported => f = <<Os(1), Os(2)>>)
  BY <1>1, <1>3, HooksInstalled DEF FileSaved, Instances, Untouched
<1>5. di \in InstSaved /\ ("draw" \in supported => di = <<Os(3), Os(4), Os(5), Os(6)>>)
  BY <1>1, <1>3 DEF InstSaved, Instances, Original, Untouched
<1>6. d \in DrawSaved /\ ("draw" \in supported => d = <<Nop, Nop>>) /\ en \in BOOLEAN
  BY <1>3 DEF DrawSaved, Instances
<1>7. /\ r \in Instances /\ r.file = f /\ r.drawInst = di /\ r.draw = d
      /\ r.chunk = inst[cur].chunk
  <2> HIDE DEF f, di, d, en
  <2>1. QED
    BY <1>3, <1>4, <1>5, <1>6 DEF Instances
<1>8. inst' \in [1 .. NLaunches -> Instances] /\ inst'[cur] = r
  <2> HIDE DEF r
  <2>1. QED
    BY <1>1, <1>2, <1>7 DEF LifeInv, Typed
<1>9. SavedBy(cur)' /\ inst'[cur].chunk = inst[cur].chunk
  <2>1. supported' = supported /\ cur' = cur
    BY DEF InstallHooks
  <2> HIDE DEF f, di, d, en, r
  <2>2. QED
    BY <1>4, <1>5, <1>6, <1>7, <1>8, <2>1 DEF SavedBy
<1>10. os' = Hooked(cur)'
  <2>1. Hooked(cur)' = Hooked(cur)
    BY DEF InstallHooks, Hooked, HookedFile, HookedDraw
  <2>2. QED
    BY <1>1, <2>1, HooksInstalled DEF InstallHooks
<1>11. Typed' /\ Freed'
  BY <1>8 DEF InstallHooks, LifeInv, Typed, Freed
<1>12. Backed(cur)'
  BY <1>1, <1>9 DEF InstallHooks, Backed, Loaded
<1>13. Up(cur)'
  BY <1>1, <1>9, <1>10, <1>12 DEF InstallHooks, Up
<1>14. QED
  BY <1>1, <1>11, <1>13 DEF LifeInv, Phase, InstallHooks

LEMMA LifeStep ==
    ASSUME LifeInv, [Next]_vars
    PROVE  LifeInv'
<1>1. CASE UNCHANGED vars
  BY <1>1 DEF vars, LifeInv, Typed, Phase, Freed, Down, Up, Backed, Loaded, Relocated,
              Hooked, HookedFile, HookedDraw, SavedBy
<1>2. CASE Uninstaller
  BY <1>1, <1>2, LifeUninstaller
<1>3. CASE Launch \/ MainUninstalls \/ MainFresh \/ Draw \/ RelocateFails \/ RelocateSelf
           \/ Finish \/ Return
  BY <1>3, LifeLaunch, LifeUninstall, LifeMoves, LifeDraw, LifeRelocate
<1>4. CASE \/ \E n \in 0 .. NBlocks : AllocBlocks(n)
           \/ SpaceFails \/ InitializeKernelSpace \/ InitDrivers \/ InitDriversPanic
  BY <1>4, LifeAllocBlocks, LifeSpaceFails, LifeSpace, LifeDrivers, LifePanic
<1>5. CASE VectorsFail \/ InstallExceptionHandlers \/ ClaimLCD \/ InstallHooks
  BY <1>5, LifeVectorsFail, LifeVectors, LifeClaimLCD, LifeHooks
<1>6. QED
  BY <1>1, <1>2, <1>3, <1>4, <1>5 DEF Next

LEMMA LifeInit == Init => LifeInv
<1> SUFFICES ASSUME Init PROVE LifeInv
  OBVIOUS
<1>1. Typed
  <2>1. inst \in [1 .. NLaunches -> Instances]
    BY ImageTyped DEF Init
  <2>2. QED
    <3>1. /\ tt \in [Sections -> [k : 0 .. NLaunches, table : {"none", "init_pds", "cpt"}]]
          /\ tt[UninstallerBase] = Invalid
      BY DEF Init, Sections, Invalid, Table
    <3>2. cur \in 0 .. NLaunches /\ ti \subseteq Allocations
      BY DEF Init
    <3>3. irq \in BOOLEAN /\ high \in BOOLEAN /\ supported \in {{}, {"file"}, {"file", "draw"}}
      BY Zenon DEF Init
    <3>4. QED
      BY <2>1, <3>1, <3>2, <3>3, Zenon DEF Typed
<1>2. Phase /\ Freed
  BY DEF Init, Phase, Freed, Down
<1>3. QED
  BY <1>1, <1>2 DEF LifeInv

LEMMA LifeInvariant == Spec => []LifeInv
BY LifeInit, LifeStep, PTL DEF Spec

-----------------------------------------------------------------------------
(***************************************************************************)
(* What the invariant says wherever TI-OS runs.                            *)
(***************************************************************************)
LEMMA UpReached ==
    ASSUME NEW k, Up(k), k # 0
    PROVE  Reached \subseteq {k}
<1>1. /\ os = Hooked(k) /\ tt[Vectors].k = k /\ stacks = k /\ lcd \in {0, k}
  BY DEF Up, Backed, Table
<1>2. Addresses(HookedFile(k)) \subseteq {k}
  BY DEF Addresses, HookedFile, Original, Jump, To, Os
<1>3. Addresses(HookedDraw(k)) \subseteq {k}
  BY DEF Addresses, HookedDraw, Original, Jump, To, Os, Nop
<1>4. \A from \in DOMAIN os : os[from].file = HookedFile(k) /\ os[from].draw = HookedDraw(k)
  BY <1>1 DEF Hooked, Cleared, Code
<1>5. \A from \in DOMAIN os : Addresses(os[from].file) \union Addresses(os[from].draw) \subseteq {k}
  BY <1>2, <1>3, <1>4
<1>6. (UNION {Addresses(os[from].file) \union Addresses(os[from].draw) : from \in DOMAIN os})
          \subseteq {k}
  BY <1>5
<1>7. QED
  BY <1>1, <1>6 DEF Reached

LEMMA DownReached ==
    ASSUME Down
    PROVE  Reached = {}
<1>1. Addresses(Original.file) = {} /\ Addresses(Original.draw) = {}
  BY DEF Addresses, Original, Os
<1>2. \A from \in DOMAIN os : os[from] = Original
  BY DEF Down, Untouched
<1>3. ~ high /\ lcd = 0
  BY DEF Down
<1>4. QED
  BY <1>1, <1>2, <1>3 DEF Reached

\* uninstall_osext: whenever interrupts are on without OSExt, the instructions TI-OS has
\* in memory and those it fetches are the original ones and the LCD shows its
\* framebuffer, after any number of launches, any failure of its heap and with any set of
\* supported hooks.  The instructions uninstall_hooks stores after its last clear_caches
\* are fetched thanks to the message that follows it.
THEOREM OsRestoredCorrect == Spec => []OsRestored
<1>1. LifeInv => OsRestored
  BY DEF LifeInv, Phase, OsRestored, Down, Up, Backed
<1>2. QED
  BY <1>1, LifeInvariant, PTL

\* HOOK_INSTALL, install_exception_handlers and claimLCD: whatever TI-OS, the CPU and
\* the LCD controller reach while interrupts are on belongs to one launch, which is
\* mapped by its own tables and whose code and pages are allocated.
THEOREM ReachedBackedCorrect == Spec => []ReachedBacked
<1>1. ASSUME LifeInv PROVE ReachedBacked
  <2>1. SUFFICES ASSUME irq PROVE \A k \in Reached :
              /\ tt[KernelBase] = Table(k, "cpt") /\ tt[Vectors] = Table(k, "cpt") /\ high
              /\ {<<k, "chunk">>, <<k, "blocks">>} \subseteq ti
    BY DEF ReachedBacked
  <2>2. cur \in Nat
    BY <1>1 DEF LifeInv, Typed
  <2>3. Down \/ \E k \in 1 .. cur : Up(k)
    BY <1>1, <2>1, <2>2 DEF LifeInv, Phase
  <2>4. CASE Down
    BY <2>4, DownReached
  <2>5. ASSUME NEW k \in 1 .. cur, Up(k)
        PROVE  \A l \in Reached :
              /\ tt[KernelBase] = Table(l, "cpt") /\ tt[Vectors] = Table(l, "cpt") /\ high
              /\ {<<l, "chunk">>, <<l, "blocks">>} \subseteq ti
    <3>1. Reached \subseteq {k}
      BY <2>2, <2>5, UpReached
    <3>2. QED
      BY <2>5, <3>1 DEF Up, Backed, Loaded
  <2>6. QED
    BY <2>3, <2>4, <2>5
<1>2. QED
  BY <1>1, LifeInvariant, PTL

\* uninstall_osext and the end of main: a launch that was uninstalled has given its
\* memory back to the heap of TI-OS, but for the page table initSlabAllocator leaks.
THEOREM UninstalledFreedCorrect == Spec => []UninstalledFreed
<1>1. LifeInv => UninstalledFreed
  BY DEF LifeInv, Freed, UninstalledFreed
<1>2. QED
  BY <1>1, LifeInvariant, PTL

\* initialize: TI-OS gets its interrupts back on every way out of a launch.
THEOREM IrqRestoredCorrect == Spec => []IrqRestored
<1>1. LifeInv => IrqRestored
  BY DEF LifeInv, Phase, IrqRestored
<1>2. QED
  BY <1>1, LifeInvariant, PTL

=============================================================================
