-------------------------- MODULE MCHealthTracking --------------------------
(* HealthTracking for TLC.                                                 *)
EXTENDS HealthTracking, TLC

Symmetry == Permutations(Calls)
=============================================================================
