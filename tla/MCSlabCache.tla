---------------------------- MODULE MCSlabCache ----------------------------
(***************************************************************************)
(* SlabCache scaled down: pages of 12 units, bytes of 2 bits, three        *)
(* objects on a slab.  The caches are the ones initSlabAllocator builds by *)
(* hand, and the translation tables, of one page each.                     *)
(***************************************************************************)
EXTENDS SlabCache, TLC

CONSTANTS linkedlist, slabdesc, cpt, tt

MCOrder == <<tt, slabdesc, linkedlist, cpt>>
MCSize == (linkedlist :> 2) @@ (slabdesc :> 3) @@ (cpt :> 4) @@ (tt :> 12)

\* cpt_slab has its descriptor in the slab of slab_cache and its used array in the
\* slab of linkedlist_cache.
MCBoot == <<[cache |-> slabdesc, used |-> {0}],
            [cache |-> linkedlist, used |-> {0}],
            [cache |-> cpt, used |-> {}]>>
=============================================================================
