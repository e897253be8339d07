----------------------------- MODULE Background -----------------------------
(***************************************************************************)
(* The background module, src/modules/background: up to four images, read  *)
(* from files into memory of the kernel, drawn behind the menus of TI-OS   *)
(* as a single picture or a slideshow, replaced on a key and given back    *)
(* when the module ends.                                                   *)
(*                                                                         *)
(* The hooks of TI-OS call the module in one task with IRQs masked, so     *)
(* that an update is not interrupted by a draw; it takes several steps     *)
(* here because each file can fail in its own way.                         *)
(*                                                                         *)
(* An object on the heap is the sequence of the data pointers of the       *)
(* images it holds: one for a struct img565, several for an array of them, *)
(* none for the pixels of a small image.  Pixels of more than 1024 bytes   *)
(* are a run of consecutive pages.                                         *)
(***************************************************************************)
EXTENDS Integers, Sequences, FiniteSets, SequencesExt

CONSTANTS
    Objs,       \* addresses kmalloc can return
    Runs,       \* addresses useConsecutivePages can return
    MaxOpen,    \* files TI-OS opens at a time
    Free,       \* content of an address that is not in use
    Wild,       \* data pointer made of the NULL of useConsecutivePages
    NULL

Files == 1..4        \* background.bmp.tns, background2.bmp.tns, ...
UpdateNeeds == 9     \* objects an update allocates at most

ASSUME BackgroundAssumption ==
    /\ IsFiniteSet(Objs) /\ Objs \subseteq Nat
    /\ Runs \cap Objs = {} /\ MaxOpen \in Nat
    /\ {Wild, NULL} \cap (Runs \union Objs) = {}
    /\ Free \notin Seq(Objs \union Runs \union {Wild})

VARIABLES
    image,             \* the object drawn from, or NULL
    slideshow, slideshow_length, slideshow_index,
    heap,              \* content of every object
    runs,              \* page runs in use
    open,              \* number of files open
    pc,                \* "none": not loaded; "idle"; in an update: "read", "set"
    file,              \* the file an update is at
    imgs,              \* img1 to img4 of background_update
    bk, length,        \* its other variables
    copied             \* history: structs copied into the array of a slideshow

show == <<image, slideshow, slideshow_length, slideshow_index>>
BackgroundVars == <<show, heap, runs, open, pc, file, imgs, bk, length, copied>>

BackgroundInit ==
    /\ image = NULL
    /\ slideshow = FALSE /\ slideshow_length = 0 /\ slideshow_index = 0
    /\ heap = [o \in Objs |-> Free]
    /\ runs = {}
    /\ open = 0
    /\ pc = "none" /\ file = 1
    /\ imgs = [i \in Files |-> NULL]
    /\ bk = FALSE /\ length = 0
    /\ copied = {}
-----------------------------------------------------------------------------
(* Images, img565.c. *)

(* The slab allocator takes the first object that is free. *)
kmalloc(h) == CHOOSE o \in Objs : /\ h[o] = Free
                                  /\ \A p \in Objs : h[p] = Free => o <= p

(***************************************************************************)
(* The possible results of create_img565.  Pages that cannot be had give   *)
(* no NULL: the address is moved by the offset of the kernel's mapping     *)
(* before it is compared.                                                  *)
(***************************************************************************)
create_img565(h, r) ==
    LET img == kmalloc(h)
        taken == [h EXCEPT ![img] = <<>>]
        data == kmalloc(taken)
    IN {[img |-> img, runs |-> r, heap |-> [taken EXCEPT ![img] = <<data>>,
                                                         ![data] = <<>>]]}
       \union
       {[img |-> img, runs |-> r \union ({d} \ {Wild}),
         heap |-> [taken EXCEPT ![img] = <<d>>]] : d \in (Runs \ r) \union {Wild}}

(***************************************************************************)
(* destroy_img565 of every image an object holds, and kfree of the object. *)
(* Of an array, the loop in background_update passes the address of each   *)
(* element to kfree; the slab allocator takes them all for the object they *)
(* lie in, which is free after the first.                                  *)
(***************************************************************************)
Destroy(m, obj) ==
    IF obj = NULL THEN m
    ELSE LET data == ToSet(m.heap[obj])
         IN [heap |-> [o \in Objs |-> IF o = obj \/ o \in data THEN Free ELSE m.heap[o]],
             runs |-> m.runs \ data]

(***************************************************************************)
(* The possible results of load_bmp_file: NULL for no bitmap, no memory    *)
(* for the file, a header or a number of bits that is not supported; else  *)
(* the image.  The pages of the file are given back in any case.           *)
(***************************************************************************)
\* mutant: the image is not destroyed when its bits are not supported
load_bmp_file_leaky(h, r) ==
    LET none == [img |-> NULL, heap |-> h, runs |-> r]
        created(rest) == create_img565(h, r \union {rest})
    IN {none} \union
       UNION {{[c EXCEPT !.runs = @ \ {rest}] : c \in created(rest)} \union
              {[img |-> NULL, heap |-> c.heap, runs |-> c.runs \ {rest}] :
                  c \in created(rest)} : rest \in Runs \ r}

load_bmp_file(h, r) ==
    LET none == [img |-> NULL, heap |-> h, runs |-> r]
        created(rest) == create_img565(h, r \union {rest})
        destroyed(c) == Destroy([heap |-> c.heap, runs |-> c.runs], c.img)
    IN {none} \union
       UNION {{[c EXCEPT !.runs = @ \ {rest}] : c \in created(rest)} \union
              {[img |-> NULL, heap |-> destroyed(c).heap,
                runs |-> destroyed(c).runs \ {rest}] : c \in created(rest)} :
                  rest \in Runs \ r}
-----------------------------------------------------------------------------
(* background.c *)

\* Gives the images shown so far back and shows none.
Release == LET m == Destroy([heap |-> heap, runs |-> runs], image)
           IN /\ heap' = m.heap
              /\ runs' = m.runs

unset == /\ image' = NULL
         /\ slideshow' = FALSE
         /\ slideshow_length' = 0
         /\ slideshow_index' = 0

\* The bound: what is never freed adds up, and without objects for an update
\* the model stops, where the slab allocator would find no page and panic.
Room == Cardinality({o \in Objs : heap[o] = Free}) >= UpdateNeeds

\* The local variables of background_update.
Locals == /\ file' = 1
          /\ imgs' = [i \in Files |-> NULL]
          /\ bk' = FALSE
          /\ length' = 0

StartUpdate == /\ Release
               /\ unset
               /\ pc' = "read"
               /\ Locals
               /\ UNCHANGED <<open, copied>>

\* module_start registers the functions and loads the images.
module_start == /\ pc = "none"
                /\ Room
                /\ StartUpdate

\* Ctrl and pi.
filefunc == /\ pc = "idle"
            /\ Room
            /\ StartUpdate

AtFile(i) == pc = "read" /\ file = i

NextFile(i) == IF i = 4 THEN pc' = "set" /\ UNCHANGED file
                        ELSE file' = i + 1 /\ UNCHANGED pc

\* The i-th file cannot be opened, or gives no image: the images end here.
EndsAt(i) == /\ bk' = TRUE
             /\ length' = IF i > 1 /\ ~bk THEN i - 1 ELSE length

\* One of the four blocks of background_update.
nuc_fopen_fails(i) ==
    /\ AtFile(i)
    /\ EndsAt(i)
    /\ NextFile(i)
    /\ UNCHANGED <<show, heap, runs, open, imgs, copied>>

\* A file behind the first failure is opened all the same, and stays open.
OpenedForNothing(i) ==
    /\ AtFile(i) /\ open < MaxOpen
    /\ bk
    /\ open' = open + 1
    /\ NextFile(i)
    /\ UNCHANGED <<show, heap, runs, imgs, bk, length, copied>>

LoadFile(i) ==
    /\ AtFile(i) /\ open < MaxOpen
    /\ ~bk
    /\ \E result \in load_bmp_file(heap, runs) :
         /\ heap' = result.heap
         /\ runs' = result.runs
         /\ imgs' = [imgs EXCEPT ![i] = result.img]
         /\ IF result.img = NULL THEN EndsAt(i) ELSE UNCHANGED <<bk, length>>
    /\ NextFile(i)
    /\ UNCHANGED <<show, open, copied>>

Length == IF bk THEN length ELSE 4

\* One image is shown itself; more are copied into an array.  The structs
\* copied stay allocated; nothing points to them any more, and their content
\* is left out.
SetImages ==
    /\ pc = "set"
    /\ pc' = "idle"
    /\ IF imgs[2] = NULL
       THEN /\ image' = imgs[1]
            /\ UNCHANGED <<slideshow, slideshow_length, slideshow_index, heap, copied>>
       ELSE LET array == kmalloc(heap)
                sources == {imgs[i] : i \in 1..Length}
            IN /\ image' = array
               /\ heap' = [o \in Objs |->
                    CASE o = array -> [i \in 1..Length |-> heap[imgs[i]][1]]
                      [] o \in sources -> <<>>
                      [] OTHER -> heap[o]]
               /\ slideshow' = TRUE
               /\ slideshow_length' = Length
               /\ slideshow_index' = 0
               /\ copied' = copied \union sources
    /\ Locals
    /\ UNCHANGED <<runs, open>>

\* mutant: one image too far
next_image_late == IF slideshow_index >= slideshow_length THEN 0
                   ELSE slideshow_index + 1

next_image == IF slideshow_index >= slideshow_length - 1 THEN 0
              ELSE slideshow_index + 1

\* The menus of TI-OS are drawn.  A slideshow goes on when the RTC, which a
\* program may set, is more than slideshow_time from where it was.
background_draw_image ==
    /\ pc = "idle"
    /\ slideshow
    /\ slideshow_index' = next_image
    /\ UNCHANGED <<image, slideshow, slideshow_length, heap, runs, open, pc, file,
                   imgs, bk, length, copied>>

module_end == /\ pc = "idle"
              /\ Release
              /\ unset
              /\ pc' = "none"
              /\ UNCHANGED <<open, file, imgs, bk, length, copied>>

ReadFile == \E i \in Files : nuc_fopen_fails(i) \/ OpenedForNothing(i) \/ LoadFile(i)
-----------------------------------------------------------------------------
BackgroundNext ==
    \/ module_start
    \/ filefunc
    \/ ReadFile
    \/ SetImages
    \/ background_draw_image
    \/ module_end

BackgroundSpec == BackgroundInit /\ [][BackgroundNext]_BackgroundVars
-----------------------------------------------------------------------------
(***************************************************************************)
(* What a draw reads is there: the object the picture comes from is in     *)
(* use, the index of a slideshow lies inside it, and the pixels are in     *)
(* use, and a different run for each picture.  The exception is the wild   *)
(* pointer of create_img565 (img565.c:34).                                 *)
(***************************************************************************)
Live(data) == data \in runs \/ data \in {o \in Objs : heap[o] # Free} \/ data = Wild

DrawnLive ==
    pc = "idle" /\ image # NULL =>
      /\ heap[image] # Free
      /\ slideshow_index < Len(heap[image])
      /\ slideshow => slideshow_length = Len(heap[image])
      /\ \A i \in DOMAIN heap[image] :
           /\ Live(heap[image][i])
           /\ \A j \in DOMAIN heap[image] \ {i} :
                heap[image][i] = heap[image][j] => heap[image][i] = Wild

(***************************************************************************)
(* Whatever fails in reading the files, and however often the images are   *)
(* replaced, no pixels and no pages of files are left behind: between      *)
(* updates the page runs in use are those of the pictures shown, and all   *)
(* are given back when the module ends.  The objects that stay behind are  *)
(* the structs a slideshow's array was copied from (background.c:267),     *)
(* which nothing frees, and no others.                                     *)
(***************************************************************************)
Shown == IF image = NULL THEN {} ELSE ToSet(heap[image])

MemoryExact ==
    pc \in {"none", "idle"} =>
      /\ runs = Shown \ (Objs \union {Wild})
      /\ {o \in Objs : heap[o] # Free} =
            copied \union ({image} \ {NULL}) \union (Shown \cap Objs)
=============================================================================
