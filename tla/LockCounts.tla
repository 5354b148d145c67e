------------------------------ MODULE LockCounts ------------------------------
(***************************************************************************)
(* What the flock on the ".crc" file promises the instances: a recursive   *)
(* shared/exclusive lock between processes, described by nothing but the   *)
(* two reference counts of every process.                                  *)
(***************************************************************************)
EXTENDS Integers

CONSTANT Procs

VARIABLES ex, sh   \* per process: exclusive and shared references

vars == <<ex, sh>>

Init == ex = [p \in Procs |-> 0] /\ sh = [p \in Procs |-> 0]

TakeShared(p) ==
    /\ ex[p] = 0 /\ sh[p] = 0 => \A q \in Procs \ {p} : ex[q] = 0
    /\ sh' = [sh EXCEPT ![p] = @ + 1]
    /\ UNCHANGED ex

TakeExclusive(p) ==
    /\ ex[p] = 0 => \A q \in Procs \ {p} : ex[q] = 0 /\ sh[q] = 0
    /\ ex' = [ex EXCEPT ![p] = @ + 1]
    /\ UNCHANGED sh

Release(p) ==
    \/ sh[p] > 0 /\ sh' = [sh EXCEPT ![p] = @ - 1] /\ UNCHANGED ex
    \/ ex[p] > 0 /\ ex' = [ex EXCEPT ![p] = @ - 1] /\ UNCHANGED sh

Die(p) == ex' = [ex EXCEPT ![p] = 0] /\ sh' = [sh EXCEPT ![p] = 0]

Next == \E p \in Procs : TakeShared(p) \/ TakeExclusive(p) \/ Release(p) \/ Die(p)

Spec == Init /\ [][Next]_vars
=============================================================================
