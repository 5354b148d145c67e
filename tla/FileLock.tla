------------------------------- MODULE FileLock -------------------------------
(***************************************************************************)
(* fileLock (flock.go): reference counts over flock(2), with the upgrade   *)
(* of a shared lock to an exclusive one and the downgrade back.  Every     *)
(* process has one fileLock, used under the thread lock of its instance,   *)
(* so a process is in at most one call; every flock system call is a step  *)
(* of its own.                                                             *)
(*                                                                         *)
(* The kernel (external): flock converts a lock by removing it and taking  *)
(* the new one, and others may get in between; a conversion that fails may *)
(* or may not have lost the old lock.                                      *)
(***************************************************************************)
EXTENDS Integers

CONSTANTS
    Procs,
    Converting, \* whether callers upgrade and downgrade: ask for exclusive while
                \* holding shared only, or release exclusive and keep shared
    MaxCount    \* bound on the reference counts

ASSUME FileLockAssumption == Converting \in BOOLEAN /\ MaxCount \in Nat

VARIABLES
    kern,       \* per process: what the kernel has granted its descriptor
    shared,     \* per process: the two reference counts
    exclusive,
    pc,         \* per process: the system call it is in
    want, wait  \* per process: the parameters `how` and `wait` of platformLock

vars == <<kern, shared, exclusive, pc, want, wait>>

TypeOK ==
    /\ kern \in [Procs -> {"un", "sh", "ex"}]
    /\ shared \in [Procs -> Nat] /\ exclusive \in [Procs -> Nat]
    /\ pc \in [Procs -> {"idle", "upgrade", "drop", "flock", "recover",
                         "downgrade"}]
    /\ want \in [Procs -> {"sh", "ex"}]
    /\ wait \in [Procs -> BOOLEAN]

Init ==
    /\ kern = [p \in Procs |-> "un"]
    /\ shared = [p \in Procs |-> 0] /\ exclusive = [p \in Procs |-> 0]
    /\ pc = [p \in Procs |-> "idle"]
    /\ want = [p \in Procs |-> "sh"]
    /\ wait = [p \in Procs |-> TRUE]

\* Whether the kernel can grant p a lock of type t now.
Free(p, t) == \A q \in Procs \ {p} : IF t = "ex" THEN kern[q] = "un"
                                                 ELSE kern[q] # "ex"

-----------------------------------------------------------------------------
(***************************************************************************)
(* lock(t) and tryLock(t).                                                 *)
(***************************************************************************)
\* Mutant: a shared lock is taken to cover an exclusive request.
CoveredByAny(p, t) == exclusive[p] > 0 \/ shared[p] > 0

Covered(p, t) == exclusive[p] > 0 \/ (t = "sh" /\ shared[p] > 0)
unlockFirst(p) == want[p] = "ex" /\ shared[p] > 0

\* The kernel state already covers the request.
Count(p, t) ==
    IF t = "sh"
    THEN shared' = [shared EXCEPT ![p] = @ + 1] /\ UNCHANGED exclusive
    ELSE exclusive' = [exclusive EXCEPT ![p] = @ + 1] /\ UNCHANGED shared

LockCovered(p, t) ==
    /\ pc[p] = "idle" /\ Covered(p, t)
    /\ shared[p] + exclusive[p] < MaxCount
    /\ Count(p, t)
    /\ UNCHANGED <<kern, pc, want, wait>>

\* Enter platformLock.
Call(p, t, blocking) ==
    /\ pc[p] = "idle" /\ ~Covered(p, t)
    /\ shared[p] + exclusive[p] < MaxCount
    /\ t = "ex" /\ shared[p] > 0 => Converting
    /\ want' = [want EXCEPT ![p] = t]
    /\ wait' = [wait EXCEPT ![p] = blocking]
    /\ pc' = [pc EXCEPT ![p] = IF t = "ex" /\ shared[p] > 0
                               THEN "upgrade" ELSE "flock"]
    /\ UNCHANGED <<kern, shared, exclusive>>

\* The non-blocking upgrade: it succeeds, or the shared lock is dropped.
UpgradeNow(p) ==
    /\ pc[p] = "upgrade" /\ Free(p, "ex")
    /\ kern' = [kern EXCEPT ![p] = "ex"]
    /\ Count(p, "ex")
    /\ pc' = [pc EXCEPT ![p] = "idle"]
    /\ UNCHANGED <<want, wait>>

\* Mutant: the shared lock is kept while the exclusive one is waited for.
UpgradeBusyKeeps(p) ==
    /\ pc[p] = "upgrade" /\ ~Free(p, "ex")
    /\ pc' = [pc EXCEPT ![p] = "flock"]
    /\ UNCHANGED <<kern, shared, exclusive, want, wait>>

UpgradeBusy(p) ==
    /\ pc[p] = "upgrade" /\ ~Free(p, "ex")
    /\ \E k \in {kern[p], "un"} : kern' = [kern EXCEPT ![p] = k]
    /\ pc' = [pc EXCEPT ![p] = "drop"]
    /\ UNCHANGED <<shared, exclusive, want, wait>>

Drop(p) ==
    /\ pc[p] = "drop"
    /\ kern' = [kern EXCEPT ![p] = "un"]
    /\ pc' = [pc EXCEPT ![p] = "flock"]
    /\ UNCHANGED <<shared, exclusive, want, wait>>

\* The flock the caller asked for.
Granted(p) ==
    /\ pc[p] = "flock" /\ Free(p, want[p])
    /\ kern' = [kern EXCEPT ![p] = want[p]]
    /\ Count(p, want[p])
    /\ pc' = [pc EXCEPT ![p] = "idle"]
    /\ UNCHANGED <<want, wait>>

\* Mutant: the dropped shared lock is not taken again.
ContendedNoRecover(p) ==
    /\ pc[p] = "flock" /\ ~wait[p] /\ ~Free(p, want[p])
    /\ pc' = [pc EXCEPT ![p] = "idle"]
    /\ UNCHANGED <<kern, shared, exclusive, want, wait>>

Contended(p) ==
    /\ pc[p] = "flock" /\ ~wait[p] /\ ~Free(p, want[p])
    /\ pc' = [pc EXCEPT ![p] = IF unlockFirst(p) THEN "recover" ELSE "idle"]
    /\ UNCHANGED <<kern, shared, exclusive, want, wait>>

\* A failed upgrade takes the dropped shared lock again, blocking.
Recover(p) ==
    /\ pc[p] = "recover" /\ Free(p, "sh")
    /\ kern' = [kern EXCEPT ![p] = "sh"]
    /\ pc' = [pc EXCEPT ![p] = "idle"]
    /\ UNCHANGED <<shared, exclusive, want, wait>>

-----------------------------------------------------------------------------
(***************************************************************************)
(* unlock(t).  Unlocking what is not held is an error and changes nothing. *)
(***************************************************************************)
UnlockShared(p) ==
    /\ pc[p] = "idle" /\ shared[p] > 0
    /\ shared' = [shared EXCEPT ![p] = @ - 1]
    /\ kern' = IF shared[p] > 1 \/ exclusive[p] > 0
               THEN kern ELSE [kern EXCEPT ![p] = "un"]
    /\ UNCHANGED <<exclusive, pc, want, wait>>

\* Mutant: unlocking what is not held is not refused.
UnlockExclusiveUnheld(p) ==
    /\ pc[p] = "idle" /\ (exclusive[p] # 1 \/ shared[p] = 0)
    /\ exclusive' = [exclusive EXCEPT ![p] = @ - 1]
    /\ kern' = IF exclusive[p] > 1 THEN kern ELSE [kern EXCEPT ![p] = "un"]
    /\ UNCHANGED <<shared, pc, want, wait>>

UnlockExclusive(p) ==
    /\ pc[p] = "idle" /\ exclusive[p] > 0 /\ (exclusive[p] > 1 \/ shared[p] = 0)
    /\ exclusive' = [exclusive EXCEPT ![p] = @ - 1]
    /\ kern' = IF exclusive[p] > 1 THEN kern ELSE [kern EXCEPT ![p] = "un"]
    /\ UNCHANGED <<shared, pc, want, wait>>

UnlockToShared(p) ==
    /\ pc[p] = "idle" /\ exclusive[p] = 1 /\ shared[p] > 0
    /\ Converting
    /\ pc' = [pc EXCEPT ![p] = "downgrade"]
    /\ UNCHANGED <<kern, shared, exclusive, want, wait>>

Downgraded(p) ==
    /\ pc[p] = "downgrade" /\ Free(p, "sh")
    /\ kern' = [kern EXCEPT ![p] = "sh"]
    /\ exclusive' = [exclusive EXCEPT ![p] = @ - 1]
    /\ pc' = [pc EXCEPT ![p] = "idle"]
    /\ UNCHANGED <<shared, want, wait>>

-----------------------------------------------------------------------------
(***************************************************************************)
(* The kernel in the middle of a conversion, and after a death.            *)
(***************************************************************************)
KernelGap(p) ==
    /\ pc[p] \in {"upgrade", "downgrade"} /\ kern[p] # "un"
    /\ kern' = [kern EXCEPT ![p] = "un"]
    /\ UNCHANGED <<shared, exclusive, pc, want, wait>>

Die(p) ==
    /\ kern' = [kern EXCEPT ![p] = "un"]
    /\ shared' = [shared EXCEPT ![p] = 0]
    /\ exclusive' = [exclusive EXCEPT ![p] = 0]
    /\ pc' = [pc EXCEPT ![p] = "idle"]
    /\ UNCHANGED <<want, wait>>

Next == \E p \in Procs :
            \/ \E t \in {"sh", "ex"} :
                  LockCovered(p, t) \/ \E b \in BOOLEAN : Call(p, t, b)
            \/ UpgradeNow(p) \/ UpgradeBusy(p) \/ Drop(p)
            \/ Granted(p) \/ Contended(p) \/ Recover(p)
            \/ UnlockShared(p) \/ UnlockExclusive(p)
            \/ UnlockToShared(p) \/ Downgraded(p)
            \/ KernelGap(p) \/ Die(p)

Spec == Init /\ [][Next]_vars

-----------------------------------------------------------------------------
(***************************************************************************)
(* Properties.                                                             *)
(***************************************************************************)
Held(p) == IF exclusive[p] > 0 THEN "ex" ELSE IF shared[p] > 0 THEN "sh" ELSE "un"

\* Whenever a fileLock is not inside a call, its counters tell what the kernel
\* has granted, also after a failed upgrade, a downgrade others got into, or a
\* failed tryLock.
CountsMatchKernel == \A p \in Procs : pc[p] = "idle" => kern[p] = Held(p)

\* While a process relies on an exclusive reference, no other process relies
\* on a reference of any kind.
ExclusiveExcludes ==
    \A p, q \in Procs :
        p # q /\ pc[p] = "idle" /\ pc[q] = "idle" /\ exclusive[p] > 0 =>
            exclusive[q] = 0 /\ shared[q] = 0

\* Processes never wait for each other in a circle: whoever blocks in flock
\* waits for a lock whose holder is not itself blocked.  Two processes that
\* upgrade at the same time are why platformLock drops the shared lock first.
Blocked(p) ==
    \/ pc[p] = "flock" /\ wait[p] /\ ~Free(p, want[p])
    \/ pc[p] \in {"recover", "downgrade"} /\ ~Free(p, "sh")
NoCircularWait ==
    \A p \in Procs : Blocked(p) =>
        \E q \in Procs \ {p} : kern[q] # "un" /\ ~Blocked(q)

\* Without conversions, as the API uses it, the file lock implements the lock of
\* LockCounts: the counters change only as the kernel lock allows.
Counts == INSTANCE LockCounts WITH ex <- exclusive, sh <- shared
ImplementsLockCounts == Counts!Spec

\* tryLock is "a non-blocking acquire" (flock.go, tryLock).
TryLockDoesNotBlock ==
    \A p \in Procs : pc[p] = "recover" => Free(p, "sh")
=============================================================================
