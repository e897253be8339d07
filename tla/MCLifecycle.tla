---------------------------- MODULE MCLifecycle ----------------------------
(***************************************************************************)
(* Lifecycle with three launches: install, install over, and once more     *)
(* after a failure.                                                        *)
(***************************************************************************)
EXTENDS Lifecycle
=============================================================================
