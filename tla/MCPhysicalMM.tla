---------------------------- MODULE MCPhysicalMM ----------------------------
(***************************************************************************)
(* PhysicalMM with blocks of a few pages and a short heap.  Addresses are  *)
(* symmetric under no permutation (alignment, order), so no symmetry.      *)
(***************************************************************************)
EXTENDS PhysicalMM

\* The alignments of the slab caches and of the callers that pass 0.
MCAligns == {0, 2 * PAGE}
=============================================================================
