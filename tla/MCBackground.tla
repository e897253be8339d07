---------------------------- MODULE MCBackground ----------------------------
(***************************************************************************)
(* Background with four page runs, one less than four pictures and the     *)
(* file being read need, and objects enough for two slideshows' copies     *)
(* besides the largest update.                                             *)
(***************************************************************************)
EXTENDS Background, TLC

MCObjs == 1..18
MCSymmetry == Permutations(Runs)
=============================================================================
