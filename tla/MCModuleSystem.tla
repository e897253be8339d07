--------------------------- MODULE MCModuleSystem ---------------------------
(***************************************************************************)
(* ModuleSystem with four module files and tables of two functions, so    *)
(* that the third module with functions is refused.                        *)
(***************************************************************************)
EXTENDS ModuleSystem, TLC

CONSTANTS clock, battery, background, test

Files == {clock, battery, background, test}
Symmetry == Permutations(Files)
=============================================================================
