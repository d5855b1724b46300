----------------------------- MODULE MCLastUsed -----------------------------
(* LastUsed for TLC.                                                       *)
EXTENDS LastUsed, TLC

Symmetry == Permutations(Calls)
=============================================================================
