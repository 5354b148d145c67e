------------------------------ MODULE MCReaders ------------------------------
(* Small instances of Readers. *)
EXTENDS Readers
CONSTANTS p1, r, b, g1, g2, k1, k2, v1

SomeCalls == {[kind |-> "set", key |-> k, val |-> v1] : k \in Keys}
               \cup {[kind |-> "remove", key |-> k1]}
SomeMaps == {[EmptyMap EXCEPT ![k1] = v1]}
=============================================================================
