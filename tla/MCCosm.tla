------------------------------- MODULE MCCosm -------------------------------
(* Small instances of Cosm for TLC. *)
EXTENDS Cosm, TLC

(* The threads that write commands are interchangeable. *)
Symmetry == Permutations(Callers)
=============================================================================
