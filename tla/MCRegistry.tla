------------------------------ MODULE MCRegistry ------------------------------
(* Small instances of Registry. *)
EXTENDS RegistryProofs
CONSTANTS t1, t2, t3

=============================================================================
