---------------------------- MODULE ModuleSystem ----------------------------
(***************************************************************************)
(* Loadable modules: module_install and module_uninstall                   *)
(* (kernel/modules/modules.c) with the ELF loader under them               *)
(* (kernel/elf/elf.c), the tables of draw and file functions the hooks     *)
(* call (kernel/os-hooks.c), the module manager                            *)
(* (kernel/modules/module_manager.c), and what the modules themselves      *)
(* (modules/clock, battery, background, test) do when they start and end.  *)
(*                                                                         *)
(* The hooks run in the GUI task with interrupts off, so one thing happens *)
(* at a time; an installation is split into steps because each of them can *)
(* fail, and has to give back what the steps before it have taken.         *)
(*                                                                         *)
(* A run of pages and a kmalloc object are numbers; 0 is NULL.  A          *)
(* registered function is named by the image it lies in.                   *)
(***************************************************************************)
EXTENDS Integers, Sequences, SequencesExt, FiniteSets, FiniteSetsExt

CONSTANTS Names,    \* module files in /documents/modules
          NoName,
          MaxFns,   \* functions a hook table takes, 99 in the code
          NRuns,    \* bound: page runs the physical memory manager can give
          NObjs     \* bound: kmalloc objects

ASSUME NamesAssumption == IsFiniteSet(Names) /\ NoName \notin Names
ASSUME BoundsAssumption == MaxFns \in Nat /\ NRuns \in Nat /\ NObjs \in Nat

Runs == 1 .. NRuns
Objs == 1 .. NObjs
NULL == 0

VARIABLES
    modules,   \* the list of struct module, head first
    drawfns,   \* drawhook_functions: the image every draw function lies in
    filefns,   \* filehook_functions
    runs,      \* page runs in use
    content,   \* what a run holds
    objs,      \* kmalloc objects in use
    files,     \* open NUC_FILEs
    ins,       \* the module_install under way
    gui,       \* what the GUI task does: boots OSExt, runs the OS, shows the manager
    hooked,    \* the OS code jumps to the hooks
    selected,  \* the selection of the module manager
    dir,       \* entries module_load_all has still to read
    refused    \* history: images one of whose functions was not registered

vars == <<modules, drawfns, filefns, runs, content, objs, files, ins, gui, hooked, selected, dir, refused>>

memory == <<runs, content, objs, files>>
tables == <<drawfns, filefns, refused>>
screen == <<gui, hooked, selected, dir>>

\* no module_install is under way
Idle == [pc |-> "idle", name |-> NoName, path |-> NULL, elf |-> NULL, start |-> NULL, image |-> NULL]

-----------------------------------------------------------------------------
\* The services modules.c is built on.

\* kmalloc: an object nobody has
Kmalloc(used) == Min(Objs \ used)

\* useConsecutivePages: a run nobody has
FreeRun == Min(Runs \ runs)

\* register_draw_function and register_file_function refuse when the table is full
CanRegister(fns) == Len(fns) < MaxFns
\* mutant: a full table gives its last entry away
RegisterOver(fns, image) == IF CanRegister(fns) THEN Append(fns, image) ELSE Append(Front(fns), image)

Register(fns, image) == IF CanRegister(fns) THEN Append(fns, image) ELSE fns

\* mutants: the search stops one entry early; the later entries do not move up
CanUnregisterShort(fns, image) == \E i \in 1 .. Len(fns) - 1 : fns[i] = image
UnregisterLast(fns, image) == Front(fns)

\* unregister_draw_function and unregister_file_function: the first entry that is the
\* function goes, the later ones move up
CanUnregister(fns, image) == Contains(fns, image)
Unregister(fns, image) ==
    LET i == CHOOSE i \in DOMAIN fns : fns[i] = image /\ \A j \in 1 .. i - 1 : fns[j] # image
    IN  SubSeq(fns, 1, i - 1) \o SubSeq(fns, i + 1, Len(fns))

-----------------------------------------------------------------------------
\* module_install(name), step by step.

At(pc) == ins.pc = pc

\* a module of this name is in the list
IsInstalled(name) == \E i \in DOMAIN modules : modules[i].name = name

\* called, and nothing to do
InstallTwice ==
    /\ At("called") /\ IsInstalled(ins.name)
    /\ ins' = Idle
    /\ UNCHANGED <<modules, screen, memory, tables>>

\* builds the path of the file
InstallPath ==
    /\ At("called") /\ ~ IsInstalled(ins.name)
    /\ objs # Objs
    /\ ins' = [ins EXCEPT !.pc = "path", !.path = Kmalloc(objs)]
    /\ objs' = objs \union {Kmalloc(objs)}
    /\ UNCHANGED <<modules, runs, content, files, screen, tables>>

\* nuc_stat or nuc_fopen fails
InstallNoFile ==
    /\ At("path")
    /\ objs' = objs \ {ins.path}
    /\ ins' = Idle
    /\ UNCHANGED <<modules, runs, content, files, screen, tables>>

InstallOpen ==
    /\ At("path")
    /\ files' = files + 1
    /\ objs' = objs \ {ins.path}
    /\ ins' = [ins EXCEPT !.pc = "open", !.path = NULL]
    /\ UNCHANGED <<modules, runs, content, screen, tables>>

\* elf_check_header refuses what elf_read_header has read
InstallBadHeader ==
    /\ At("open")
    /\ files' = files - 1
    /\ ins' = Idle
    /\ UNCHANGED <<modules, runs, content, objs, screen, tables>>

\* mutant: the file stays open
InstallNoElfOpen ==
    /\ At("open")
    /\ ins' = Idle
    /\ UNCHANGED <<modules, memory, screen, tables>>

\* elf_load_file finds no pages for the file and gives its elf_desc back
InstallNoElf ==
    /\ At("open") /\ objs # Objs
    /\ files' = files - 1
    /\ ins' = Idle
    /\ UNCHANGED <<modules, runs, content, objs, screen, tables>>

\* elf_load_file: the whole file into a run of its own
InstallLoad ==
    /\ At("open") /\ runs # Runs /\ objs # Objs
    /\ LET elf == Kmalloc(objs)
           start == FreeRun
       IN  /\ ins' = [ins EXCEPT !.pc = "loaded", !.elf = elf, !.start = start]
           /\ objs' = objs \union {elf}
           /\ runs' = runs \union {start}
           /\ content' = [content EXCEPT ![start] = "file"]
    /\ files' = files - 1
    /\ UNCHANGED <<modules, screen, tables>>

\* elf_destroy
ElfDestroy ==
    /\ runs' = runs \ ({ins.start, ins.image} \ {NULL})
    /\ objs' = objs \ {ins.elf}

\* elf_alloc_image finds no segment to load or no pages for it
InstallNoImage ==
    /\ At("loaded")
    /\ ElfDestroy
    /\ ins' = Idle
    /\ UNCHANGED <<modules, content, files, screen, tables>>

\* elf_entry: the entry point lies outside the image
InstallNoEntry ==
    /\ At("image")
    /\ ElfDestroy
    /\ ins' = Idle
    /\ UNCHANGED <<modules, content, files, screen, tables>>

\* elf_fix_got relocates the GOT of the file.  It returns without a word when the file has
\* no sections or no GOT, or when a table lies outside the file or is not aligned: then
\* got is FALSE.
FixGot(mem, got) == [mem EXCEPT ![ins.start] = IF got THEN "relocated" ELSE "unfixed"]

\* elf_assemble_image copies the segment from the file into the image, unless a header or
\* the segment lies outside the file: then segment is FALSE, and it returns as silently
AssembleImage(mem, image, segment) ==
    IF segment THEN [mem EXCEPT ![image] = mem[ins.start]] ELSE mem

\* mutant: the segment is copied before the GOT of the file is relocated
BuildImageEarly(mem, image, got, segment) ==
    FixGot(AssembleImage([mem EXCEPT ![image] = "cleared"], image, segment), got)

\* elf_alloc_image clears the image, then the two work on it; module_install goes on
\* whatever they did
BuildImage(mem, image, got, segment) ==
    AssembleImage(FixGot([mem EXCEPT ![image] = "cleared"], got), image, segment)

InstallImage ==
    /\ At("loaded") /\ runs # Runs
    /\ ins' = [ins EXCEPT !.pc = "image", !.image = FreeRun]
    /\ runs' = runs \union {FreeRun}
    /\ \E got, segment \in BOOLEAN : content' = BuildImage(content, FreeRun, got, segment)
    /\ UNCHANGED <<modules, objs, files, screen, tables>>

\* module_start runs to its end: an image that was only cleared has no code to do so (see
\* ModuleCrashes)
Starts ==
    /\ At("image") /\ content[ins.image] # "cleared"
    /\ Cardinality(Objs \ objs) >= 2

\* module_start does not find a function it needs and returns NULL: struct module, name
\* and ELF file are given back, the first two within the step that has taken them
InstallRefused ==
    /\ Starts
    /\ ElfDestroy
    /\ ins' = Idle
    /\ UNCHANGED <<modules, content, files, screen, tables>>

\* what module_install links in: the struct, its name and the image
NewModule(hooks) ==
    LET mod == Kmalloc(objs)
    IN  [name |-> ins.name, image |-> ins.image, hooks |-> hooks,
         mod |-> mod, copy |-> Kmalloc(objs \union {mod})]

\* module_start, the same in all modules with functions: nobody looks whether both were
\* registered (the test module has none)
ModuleStart(hooks) ==
    /\ drawfns' = IF hooks THEN Register(drawfns, ins.image) ELSE drawfns
    /\ filefns' = IF hooks THEN Register(filefns, ins.image) ELSE filefns
    /\ refused' = IF hooks /\ ~ (CanRegister(drawfns) /\ CanRegister(filefns))
                  THEN refused \union {ins.image} ELSE refused \ {ins.image}

\* the module goes to the head of the list; elf_destroy_without_image frees the file and
\* its descriptor
InstallDone(hooks) ==
    /\ Starts
    /\ ModuleStart(hooks)
    /\ LET new == NewModule(hooks)
       IN  /\ modules' = <<new>> \o modules
           /\ objs' = (objs \union {new.mod, new.copy}) \ {ins.elf}
    /\ runs' = runs \ {ins.start}
    /\ ins' = Idle
    /\ UNCHANGED <<content, files, screen>>

Install ==
    \/ InstallTwice \/ InstallPath \/ InstallNoFile \/ InstallOpen \/ InstallBadHeader
    \/ InstallNoElf \/ InstallLoad \/ InstallNoImage \/ InstallImage \/ InstallNoEntry \/ InstallRefused
    \/ \E hooks \in BOOLEAN : InstallDone(hooks)

-----------------------------------------------------------------------------
\* Who installs and uninstalls.

\* init_kernel: hooks first, then the modules of the directory
Booting ==
    /\ modules = <<>> /\ drawfns = <<>> /\ filefns = <<>> /\ refused = {}
    /\ runs = {} /\ content = [r \in Runs |-> "unknown"] /\ objs = {} /\ files = 0
    /\ ins = Idle /\ gui = "boot" /\ hooked = TRUE /\ selected = 0
    /\ dir \in SUBSET Names

Init == Booting

\* module_load_all reads the next entry of the directory
LoadNext(name) ==
    /\ gui = "boot" /\ At("idle") /\ name \in dir
    /\ dir' = dir \ {name}
    /\ ins' = [Idle EXCEPT !.pc = "called", !.name = name]
    /\ UNCHANGED <<modules, gui, hooked, selected, memory, tables>>

LoadEnd ==
    /\ gui = "boot" /\ At("idle") /\ dir = {}
    /\ gui' = "os"
    /\ UNCHANGED <<modules, ins, hooked, selected, dir, memory, tables>>

\* file_hookfunc, with CTRL and the comma pressed
ShowManager ==
    /\ gui = "os" /\ hooked
    /\ gui' = "manager" /\ selected' = 0
    /\ UNCHANGED <<modules, ins, hooked, dir, memory, tables>>

InManager == gui = "manager" /\ At("idle")

ManagerUp ==
    /\ InManager /\ selected # 0
    /\ selected' = selected - 1
    /\ UNCHANGED <<modules, ins, gui, hooked, dir, memory, tables>>

ManagerDown ==
    /\ InManager /\ selected < Len(modules)
    /\ selected' = selected + 1
    /\ UNCHANGED <<modules, ins, gui, hooked, dir, memory, tables>>

\* ENTER on the line a name has been typed into
ManagerEnter(name) ==
    /\ InManager /\ selected = 0
    /\ ins' = [Idle EXCEPT !.pc = "called", !.name = name]
    /\ UNCHANGED <<modules, screen, memory, tables>>

\* the entry module_uninstall finds for a name: the first one
Entry(name) == CHOOSE i \in DOMAIN modules :
    modules[i].name = name /\ \A j \in 1 .. i - 1 : modules[j].name # name

\* module_end panics when one of its functions is not registered
Ends(m) == m.hooks => CanUnregister(drawfns, m.image) /\ CanUnregister(filefns, m.image)

ModuleEnd(m) ==
    /\ drawfns' = IF m.hooks THEN Unregister(drawfns, m.image) ELSE drawfns
    /\ filefns' = IF m.hooks THEN Unregister(filefns, m.image) ELSE filefns

\* the selection after an uninstallation
SelectionReset == 0

\* PI on a module: module_end, its pages, its entry, its name and its struct
ManagerPi ==
    /\ InManager /\ selected # 0 /\ selected <= Len(modules)
    /\ LET i == Entry(modules[selected].name)
           m == modules[i]
       IN  /\ Ends(m)
           /\ ModuleEnd(m)
           /\ runs' = runs \ {m.image}
           /\ modules' = RemoveAt(modules, i)
           /\ objs' = objs \ {m.mod, m.copy}
    /\ selected' = SelectionReset
    /\ UNCHANGED <<content, files, ins, gui, hooked, dir, refused>>

\* the machine is reset: no OSExt any more
Reset ==
    /\ modules' = <<>> /\ drawfns' = <<>> /\ filefns' = <<>> /\ refused' = {}
    /\ runs' = {} /\ content' = [r \in Runs |-> "unknown"] /\ objs' = {} /\ files' = 0
    /\ ins' = Idle /\ gui' = "panic" /\ hooked' = FALSE /\ selected' = 0 /\ dir' = {}

ManagerPiPanics ==
    /\ InManager /\ selected # 0 /\ selected <= Len(modules)
    /\ ~ Ends(modules[Entry(modules[selected].name)])
    /\ Reset

\* The code of an image whose GOT was not relocated, or that was not copied at all, goes
\* where the build happens to lead it (external): when module_start, one of its functions or
\* module_end runs it may end in an abort, which stops the machine.
ModuleCrashes ==
    /\ hooked
    /\ \/ At("image") /\ content[ins.image] # "relocated"
       \/ \E i \in DOMAIN modules : content[modules[i].image] # "relocated"
    /\ Reset

\* ESC; file_hookfunc goes on to call the file functions
HideManager ==
    /\ InManager
    /\ gui' = "os"
    /\ UNCHANGED <<modules, ins, hooked, selected, dir, memory, tables>>

\* the uninstall system call: hooks off, every page block freed; no module_end is called
UninstallOsext ==
    /\ gui = "os"
    /\ gui' = "off" /\ hooked' = FALSE
    /\ runs' = {}
    /\ UNCHANGED <<modules, content, objs, files, ins, selected, dir, tables>>

\* osext is started again: a new copy of the kernel
StartOsext ==
    /\ gui \in {"off", "panic"}
    /\ modules' = <<>> /\ drawfns' = <<>> /\ filefns' = <<>> /\ refused' = {}
    /\ runs' = {} /\ content' = [r \in Runs |-> "unknown"] /\ objs' = {} /\ files' = 0
    /\ ins' = Idle /\ gui' = "boot" /\ hooked' = TRUE /\ selected' = 0
    /\ dir' \in SUBSET Names

Next ==
    \/ Install
    \/ \E name \in Names : LoadNext(name) \/ ManagerEnter(name)
    \/ LoadEnd \/ ShowManager \/ ManagerUp \/ ManagerDown \/ ManagerPi \/ ManagerPiPanics
    \/ ModuleCrashes
    \/ HideManager \/ UninstallOsext \/ StartOsext

Spec == Init /\ [][Next]_vars

-----------------------------------------------------------------------------
\* Properties.

Modules == [name : Names, image : Runs, hooks : BOOLEAN, mod : Objs, copy : Objs]

\* Types: the tables of hook functions stay within their size, and the steps of an
\* installation hold what they have allocated so far.
TypeOK ==
    /\ modules \in Seq(Modules)
    /\ drawfns \in Seq(Runs) /\ Len(drawfns) <= MaxFns
    /\ filefns \in Seq(Runs) /\ Len(filefns) <= MaxFns
    /\ runs \subseteq Runs /\ objs \subseteq Objs /\ files \in Nat /\ refused \subseteq Runs
    /\ content \in [Runs -> {"unknown", "file", "cleared", "unfixed", "relocated"}]
    /\ ins \in [pc : {"idle", "called", "path", "open", "loaded", "image"},
                name : Names \union {NoName}, path : Objs \union {NULL},
                elf : Objs \union {NULL}, start : Runs \union {NULL}, image : Runs \union {NULL}]
    /\ gui \in {"boot", "os", "manager", "off", "panic"} /\ hooked \in BOOLEAN
    /\ selected \in Nat /\ dir \subseteq Names

Installed == {modules[i] : i \in DOMAIN modules}
Images == {m.image : m \in Installed}

\* Whatever the hooks call is code of an installed module: the functions in the two tables
\* lie in images that are in the list, still have their pages, and hold a segment that was
\* copied from the file after elf_fix_got had been through it; no later file, image or
\* module has been loaded over them.  (A file in which elf_fix_got finds no GOT is started as
\* it is, "unfixed": module_install does not learn of it.)
NoDangling ==
    hooked => \A r \in Range(drawfns) \union Range(filefns) :
                 r \in Images \intersect runs /\ content[r] \in {"relocated", "unfixed"}

\* Between two calls of module_install, however they ended, the modules in the list
\* own all the page runs and objects in use, and no file is open.
NoLeak ==
    At("idle") /\ gui \notin {"off", "panic"} =>
        /\ runs = Images
        /\ objs = {m.mod : m \in Installed} \union {m.copy : m \in Installed}
        /\ files = 0

\* Uninstalling a module takes nothing from the others: one that is in the list before
\* and after keeps its place in both tables.
OthersKeepHooks ==
    [][hooked' => \A m \in Installed \intersect Installed' :
          /\ Contains(drawfns, m.image) = Contains(drawfns', m.image)
          /\ Contains(filefns, m.image) = Contains(filefns', m.image)]_vars

\* A module_end panics only when the functions of that very module did not fit into the
\* tables, however many modules have come and gone since.
PanicOnlyWhenRefused ==
    [][ManagerPiPanics => modules[Entry(modules[selected].name)].image \in refused]_vars
=============================================================================
