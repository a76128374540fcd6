------------------------------ MODULE MCMicDma ------------------------------
(* Instances of MicDma for TLC. *)
EXTENDS MicDma

\* A plain copy, a copy with a callback and a bare fence,
\* and a request for nothing.
MCRequests == {[n |-> 1, flags |-> "none"], [n |-> 1, flags |-> "intr"],
               [n |-> 0, flags |-> "fence"], [n |-> 0, flags |-> "none"]}
=============================================================================
