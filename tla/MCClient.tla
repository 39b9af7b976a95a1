------------------------------ MODULE MCClient ------------------------------
(* Small instances of Client for TLC.                                       *)
EXTENDS Client, TLC

Symmetry == Permutations(Callers)
=============================================================================
