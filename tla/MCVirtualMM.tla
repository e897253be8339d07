---------------------------- MODULE MCVirtualMM ----------------------------
(***************************************************************************)
(* VirtualMM with two address spaces, two sections of the kernel and one   *)
(* of the user, tables of two entries.                                     *)
(***************************************************************************)
EXTENDS VirtualMM, TLC

CONSTANTS s1, s2, page1, page2

MCSpaces == {s1, s2}
MCPages == {page1, page2}
Symmetry == Permutations(MCSpaces) \union Permutations(MCPages)
=============================================================================
