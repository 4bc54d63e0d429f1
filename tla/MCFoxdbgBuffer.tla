--------------------------- MODULE MCFoxdbgBuffer ---------------------------
(***************************************************************************)
(* Instances of FoxdbgBuffer for TLC.                                      *)
(***************************************************************************)
EXTENDS FoxdbgBuffer, TLC

\* Writer threads run the same code; only safety is checked under it.
Symmetry == Permutations(Writers)
=============================================================================
