--------------------------- MODULE MCSyscallEntry ---------------------------
(***************************************************************************)
(* SyscallEntry with two threads, each of which nests up to three calls:   *)
(* as many as the slots do not hold.                                       *)
(***************************************************************************)
EXTENDS SyscallEntry
=============================================================================
