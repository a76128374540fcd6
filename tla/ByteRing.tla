------------------------------ MODULE ByteRing ------------------------------
(***************************************************************************)
(* What the SCIF driver promises of the bytes between two endpoints: a     *)
(* queue of bounded room with one producer and one consumer.  The producer *)
(* sees only how much the consumer has released, the consumer only how     *)
(* much the producer has published.  ScifRb implements it byte by byte in  *)
(* shared memory, and ScifStream, the connection built on that ring, is    *)
(* shown to need no more of it than this.                                  *)
(***************************************************************************)
EXTENDS Naturals, Sequences

CONSTANTS Values,    \* what is put in
          Room       \* how much fits

VARIABLES in,        \* everything ever put in, in order
          pub,       \* how much of it the consumer may take
          out,       \* everything ever taken out, in order
          rel        \* how much of that the producer may reuse

ringvars == <<in, pub, out, rel>>

(* s is how t begins. *)
Begins(s, t) == Len(s) <= Len(t) /\ \A i \in 1..Len(s) : s[i] = t[i]

Init == in = <<>> /\ pub = 0 /\ out = <<>> /\ rel = 0

(* The producer adds at the end, never more than there is room for, and    *)
(* publishes as far as it has come.                                        *)
Write == /\ in' \in Seq(Values) /\ Begins(in, in')
         /\ Len(in') - rel <= Room
         /\ pub' \in pub..Len(in')
         /\ UNCHANGED <<out, rel>>

(* The consumer takes what comes next of what is published, and releases   *)
(* as far as it has come.                                                  *)
Read == /\ Begins(out, out') /\ Begins(out', in) /\ Len(out') <= pub
        /\ rel' \in rel..Len(out')
        /\ UNCHANGED <<in, pub>>

Spec == Init /\ [][Write \/ Read]_ringvars
=============================================================================
