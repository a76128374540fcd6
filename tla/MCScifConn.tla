----------------------------- MODULE MCScifConn -----------------------------
(* Small instances of ScifConn for TLC. *)
EXTENDS ScifConn, TLC

(* The addresses of one kind are interchangeable, and so are the ports of  *)
(* node B, which the code only compares for equality.                      *)
Symmetry ==
    UNION {Permutations(S) : S \in {Clients, Listeners, Slots, ListenPorts}}
=============================================================================
