------------------------------ MODULE MCFileLock ------------------------------
(* Small instances of FileLock. *)
EXTENDS FileLock, TLC
CONSTANTS p1, p2, p3

Symmetry == Permutations(Procs)
=============================================================================
