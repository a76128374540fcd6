---------------------------- MODULE MCScifStream ----------------------------
(* Small instances of ScifStream for TLC. *)
EXTENDS ScifStream, TLC

(* The senders are interchangeable. *)
Symmetry == Permutations(Senders)
=============================================================================
