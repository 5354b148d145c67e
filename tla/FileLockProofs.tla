---------------------------- MODULE FileLockProofs ----------------------------
(***************************************************************************)
(* Proofs about FileLock, for any number of processes.                     *)
(***************************************************************************)
EXTENDS FileLock, TLAPS

\* The kernel grants an exclusive lock to one descriptor alone.
KernelExcludes ==
    \A p, q \in Procs : p # q /\ kern[p] = "ex" => kern[q] = "un"

\* What a process inside each system call holds.
Agrees(p) ==
    /\ pc[p] = "idle" => kern[p] = Held(p)
    /\ pc[p] \in {"upgrade", "drop"} =>
          /\ want[p] = "ex" /\ shared[p] > 0 /\ exclusive[p] = 0
          /\ kern[p] # "ex" /\ Converting
    /\ pc[p] = "flock" =>
          /\ kern[p] = "un" /\ exclusive[p] = 0
          /\ shared[p] > 0 => want[p] = "ex" /\ Converting
    /\ pc[p] = "recover" =>
          kern[p] = "un" /\ exclusive[p] = 0 /\ shared[p] > 0 /\ Converting
    /\ pc[p] = "downgrade" =>
          kern[p] # "sh" /\ exclusive[p] = 1 /\ shared[p] > 0 /\ Converting

IInv == TypeOK /\ KernelExcludes /\ \A p \in Procs : Agrees(p)

LEMMA InitIInv == Init => IInv
  BY DEF Init, IInv, TypeOK, KernelExcludes, Agrees, Held

\* A step of one process leaves the other processes' part alone.
LEMMA StepIInv == IInv /\ [Next]_vars => IInv'
<1> SUFFICES ASSUME IInv, [Next]_vars PROVE IInv'
  OBVIOUS
<1> USE DEF IInv, TypeOK, KernelExcludes, Agrees, Held
<1>1. ASSUME NEW p \in Procs, NEW t \in {"sh", "ex"}, LockCovered(p, t)
      PROVE  IInv'
  BY <1>1 DEF LockCovered, Covered, Count
<1>2. ASSUME NEW p \in Procs, NEW t \in {"sh", "ex"}, NEW b \in BOOLEAN,
             Call(p, t, b)
      PROVE  IInv'
  BY <1>2 DEF Call, Covered
<1>3. ASSUME NEW p \in Procs, UpgradeNow(p) PROVE IInv'
  BY <1>3 DEF UpgradeNow, Count, Free
<1>4. ASSUME NEW p \in Procs, UpgradeBusy(p) PROVE IInv'
  BY <1>4 DEF UpgradeBusy
<1>5. ASSUME NEW p \in Procs, Drop(p) PROVE IInv'
  BY <1>5 DEF Drop
<1>6. ASSUME NEW p \in Procs, Granted(p) PROVE IInv'
  BY <1>6 DEF Granted, Count, Free
<1>7. ASSUME NEW p \in Procs, Contended(p) PROVE IInv'
  BY <1>7 DEF Contended, unlockFirst
<1>8. ASSUME NEW p \in Procs, Recover(p) PROVE IInv'
  BY <1>8 DEF Recover, Free
<1>9. ASSUME NEW p \in Procs, UnlockShared(p) PROVE IInv'
  BY <1>9 DEF UnlockShared
<1>10. ASSUME NEW p \in Procs, UnlockExclusive(p) PROVE IInv'
  BY <1>10 DEF UnlockExclusive
<1>11. ASSUME NEW p \in Procs, UnlockToShared(p) PROVE IInv'
  BY <1>11 DEF UnlockToShared
<1>12. ASSUME NEW p \in Procs, Downgraded(p) PROVE IInv'
  BY <1>12 DEF Downgraded, Free
<1>13. ASSUME NEW p \in Procs, KernelGap(p) PROVE IInv'
  BY <1>13 DEF KernelGap
<1>14. ASSUME NEW p \in Procs, Die(p) PROVE IInv'
  BY <1>14 DEF Die
<1>15. CASE UNCHANGED vars
  BY <1>15 DEF vars
<1> QED
  BY <1>1, <1>2, <1>3, <1>4, <1>5, <1>6, <1>7, <1>8, <1>9, <1>10, <1>11,
     <1>12, <1>13, <1>14, <1>15 DEF Next

LEMMA Inductive == Spec => []IInv
  BY InitIInv, StepIInv, PTL DEF Spec

-----------------------------------------------------------------------------
\* The variables of a fileLock stay in their types.
THEOREM TypeCorrect == Spec => []TypeOK
  BY Inductive, PTL DEF IInv

\* The counters of a fileLock that is not inside a call tell what the kernel
\* has granted, for any number of processes and nested calls.
THEOREM CountsAreRight == Spec => []CountsMatchKernel
<1>1. IInv => CountsMatchKernel
  BY DEF IInv, Agrees, CountsMatchKernel
<1> QED
  BY <1>1, Inductive, PTL

\* An exclusive reference excludes every reference of any other process.
THEOREM Exclusion == Spec => []ExclusiveExcludes
<1>1. IInv => ExclusiveExcludes
  BY DEF IInv, TypeOK, KernelExcludes, Agrees, Held, ExclusiveExcludes
<1> QED
  BY <1>1, Inductive, PTL

\* Whoever blocks in flock waits for a lock whose holder is not blocked.
THEOREM NoDeadlock == Spec => []NoCircularWait
<1>1. ASSUME IInv, NEW p \in Procs, Blocked(p)
      PROVE  \E q \in Procs \ {p} : kern[q] # "un" /\ ~Blocked(q)
  <2>1. PICK q \in Procs \ {p} : kern[q] # "un"
    BY <1>1 DEF Blocked, Free, IInv, TypeOK
  <2>2. ~Blocked(q)
    BY <1>1, <2>1 DEF Blocked, Free, IInv, TypeOK, Agrees, KernelExcludes
  <2> QED
    BY <2>1, <2>2
<1>2. IInv => NoCircularWait
  BY <1>1 DEF NoCircularWait
<1> QED
  BY <1>2, Inductive, PTL

\* Used as the API uses it, without conversions, fileLock implements the
\* lock that the instances of MMKVCore are written against.
THEOREM Implementation == ASSUME ~Converting PROVE Spec => ImplementsLockCounts
<1>1. Init => Counts!Init
  BY DEF Init, Counts!Init
<1>2. ASSUME IInv, ~Converting, [Next]_vars PROVE [Counts!Next]_(Counts!vars)
  <2> USE DEF Counts!Next, Counts!vars, IInv, TypeOK
  <2> SUFFICES ASSUME Next, <<exclusive, shared>>' # <<exclusive, shared>>
               PROVE  Counts!Next
    BY <1>2 DEF vars
  <2>1. ASSUME NEW p \in Procs, NEW t \in {"sh", "ex"}, LockCovered(p, t)
        PROVE  Counts!Next
    BY <1>2, <2>1 DEF LockCovered, Covered, Count, Counts!TakeShared,
                      Counts!TakeExclusive, KernelExcludes, Agrees, Held
  <2>2. ASSUME NEW p \in Procs, Granted(p) PROVE Counts!Next
    BY <1>2, <2>2 DEF Granted, Count, Free, Counts!TakeShared,
                      Counts!TakeExclusive, Agrees, Held
  <2>3. ASSUME NEW p \in Procs, UnlockShared(p) \/ UnlockExclusive(p)
        PROVE  Counts!Next
    BY <2>3 DEF UnlockShared, UnlockExclusive, Counts!Release
  <2>4. ASSUME NEW p \in Procs, Die(p) PROVE Counts!Next
    BY <2>4, Zenon DEF Die, Counts!Die
  <2> QED
    BY <1>2, <2>1, <2>2, <2>3, <2>4
       DEF Next, Call, UpgradeNow, UpgradeBusy, Drop, Contended, Recover,
           UnlockToShared, Downgraded, KernelGap, Agrees
<1> QED
  BY <1>1, <1>2, Inductive, PTL DEF Spec, Counts!Spec, ImplementsLockCounts
=============================================================================
