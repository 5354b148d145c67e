------------------------------- MODULE Registry -------------------------------
(***************************************************************************)
(* The goroutines of one process and one store (mmkv.go: MMKVWithID, open, *)
(* Close; mmkv_ns.go: RemoveStorage; mmkv_backup.go: RestoreOneFrom-       *)
(* Directory): the registry of instances under gInstanceMu, the thread     *)
(* lock of every instance, the flock on the ".crc" file, and the two files *)
(* in their directory.                                                     *)
(*                                                                         *)
(* A file is an inode that the directory may or may not still name.  Of    *)
(* what an instance has loaded only one thing matters: whether a restore   *)
(* has replaced it since.  It reloads on needLoad alone, because the       *)
(* restored meta may equal the one it remembers.                           *)
(* The stores of a call are in module MMKVCore.                            *)
(***************************************************************************)
EXTENDS Integers, FiniteSets

CONSTANTS
    Threads,      \* goroutines
    MultiProcess, \* WithMultiProcess: calls take the flock
    MaxInst,      \* bound on the instances made
    MaxInode,     \* bound on the files made
    MaxRestores   \* bound on the restores begun

ASSUME RegistryAssumption ==
    /\ MultiProcess \in BOOLEAN
    /\ "nobody" \notin Threads
    /\ MaxInst \in Nat /\ MaxInode \in Nat /\ MaxRestores \in Nat

Nobody == "nobody"
Instances == 1..MaxInst

VARIABLES
    gmu,       \* who holds gInstanceMu
    reg,       \* gInstances[key], or 0
    inst,      \* per instance: its state, locks and files
    dir,       \* the inodes the directory names, 0 if it names none
    inodes,    \* how many inodes there have been
    fl,        \* per open file on ".crc", of an instance or a restore: its flock
    pc, on,    \* per thread: what it does next, and with which instance; a
               \* restore, with which inode of ".crc"
    restores,  \* restores begun
    failed     \* whether a restore has failed after it wrote something

vars == <<gmu, reg, inst, dir, inodes, fl, pc, on, restores, failed>>

Files == [data : Nat, crc : Nat]
Unmade == [made |-> FALSE, closed |-> FALSE, mu |-> Nobody, needLoad |-> FALSE,
           outdated |-> FALSE, data |-> 0, crc |-> 0, raced |-> FALSE]
Closed == [Unmade EXCEPT !.made = TRUE, !.closed = TRUE]

Steps == {"idle",
          "lookup", "data", "meta", "repair", "register",    \* MMKVWithID
          "lock", "flockGet", "flockSet", "check", "body",   \* a getter, a setter
          "unregister", "close",                             \* Close
          "find", "unregisterRm", "closeRm", "rmData", "rmCrc",  \* RemoveStorage
          "rsFlock", "rsData", "rsCrc", "rsRegistry", "rsFlag", "rsUnlock"}

Instance == [made : BOOLEAN, closed : BOOLEAN, mu : Threads \cup {Nobody},
             needLoad : BOOLEAN, outdated : BOOLEAN, data : Nat, crc : Nat,
             raced : BOOLEAN]

RegistryTypeOK ==
    /\ gmu \in Threads \cup {Nobody}
    /\ reg \in 0..MaxInst
    /\ inst \in [Instances -> Instance]
    /\ dir \in Files
    /\ inodes \in Nat /\ restores \in Nat /\ failed \in BOOLEAN
    /\ fl \in [Instances \cup Threads -> {"un", "sh", "ex"}]
    /\ pc \in [Threads -> Steps]
    /\ on \in [Threads -> Nat]

Live(i) == inst[i].made /\ ~inst[i].closed

Go(t, step) == pc' = [pc EXCEPT ![t] = step]
Done(t) == Go(t, "idle") /\ on' = [on EXCEPT ![t] = 0]

-----------------------------------------------------------------------------
(***************************************************************************)
(* The flock (external; module FileLock).  Every open file holds its own.  *)
(***************************************************************************)
CrcOf(f) == IF f \in Instances THEN inst[f].crc ELSE on[f]
Free(f, mode) ==
    \A g \in DOMAIN fl \ {f} :
        CrcOf(g) = CrcOf(f) => fl[g] = "un" \/ (mode = "sh" /\ fl[g] = "sh")
Flock(f, mode) == Free(f, mode) /\ fl' = [fl EXCEPT ![f] = mode]
Funlock(f) == fl' = [fl EXCEPT ![f] = "un"]

-----------------------------------------------------------------------------
(***************************************************************************)
(* MMKVWithID: the whole of it under gInstanceMu.                          *)
(***************************************************************************)
BeginOpen(t) ==
    /\ pc[t] = "idle" /\ gmu = Nobody
    /\ reg = 0 => \E i \in Instances : ~inst[i].made    \* bound
    /\ gmu' = t
    /\ Go(t, "lookup")
    /\ UNCHANGED <<reg, inst, dir, inodes, fl, on, restores, failed>>

\* A live instance is returned to the caller; a closed one is replaced.
Lookup(t) ==
    /\ pc[t] = "lookup"
    /\ IF reg # 0 /\ ~inst[reg].closed
       THEN gmu' = Nobody /\ Done(t)
       ELSE /\ \E i \in Instances :
                 ~inst[i].made /\ (\A j \in Instances : ~inst[j].made => i <= j)
                    /\ on' = [on EXCEPT ![t] = i]
            /\ Go(t, "data") /\ UNCHANGED gmu
    /\ UNCHANGED <<reg, inst, dir, inodes, fl, restores, failed>>

\* RemoveStorage is past the point where it looks for an instance to close.
Removing == \E t \in Threads : pc[t] \in {"unregisterRm", "closeRm", "rmData", "rmCrc"}

\* openMemoryFile of the data file: O_CREATE, ftruncate, mmap.
Made(name) == IF dir[name] = 0 THEN inodes + 1 ELSE dir[name]
CreateIfMissing(name) ==
    /\ dir' = [dir EXCEPT ![name] = Made(name)]
    /\ inodes' = IF dir[name] = 0 THEN inodes + 1 ELSE inodes

OpenData(t) ==
    /\ pc[t] = "data"
    /\ CreateIfMissing("data")
    /\ inst' = [inst EXCEPT ![on[t]] =
                   [@ EXCEPT !.data = Made("data"), !.raced = Removing]]
    /\ Go(t, "meta")
    /\ UNCHANGED <<gmu, reg, fl, on, restores, failed>>

\* openMemoryFile of the meta, and loadData, which may call for a repair.
OpenMeta(t) ==
    /\ pc[t] = "meta"
    /\ CreateIfMissing("crc")
    /\ inst' = [inst EXCEPT ![on[t]] =
                   [@ EXCEPT !.crc = Made("crc"), !.outdated = FALSE]]
    /\ Go(t, "register") \/ Go(t, "repair")
    /\ UNCHANGED <<gmu, reg, fl, on, restores, failed>>

\* The write-back of a salvaged store, under the flock.
Repair(t) ==
    /\ pc[t] = "repair"
    /\ MultiProcess => Free(on[t], "ex")
    /\ Go(t, "register")
    /\ UNCHANGED <<gmu, reg, inst, dir, inodes, fl, on, restores, failed>>

Register(t) ==
    /\ pc[t] = "register"
    /\ reg' = on[t]
    /\ inst' = [inst EXCEPT ![on[t]].made = TRUE]
    /\ gmu' = Nobody
    /\ Done(t)
    /\ UNCHANGED <<dir, inodes, fl, restores, failed>>

\* Mutant: the registry stays locked.
OpenFailsLocked(t) ==
    /\ pc[t] \in {"data", "meta", "register"}
    /\ inst' = [inst EXCEPT ![on[t]] = Unmade]
    /\ Done(t)
    /\ UNCHANGED <<gmu, reg, dir, inodes, fl, restores, failed>>

\* A system call of open fails.
OpenFails(t) ==
    /\ pc[t] \in {"data", "meta", "register"}
    /\ inst' = [inst EXCEPT ![on[t]] = Unmade]
    /\ gmu' = Nobody
    /\ Done(t)
    /\ UNCHANGED <<reg, dir, inodes, fl, restores, failed>>

-----------------------------------------------------------------------------
(***************************************************************************)
(* A call on an instance somebody was given, perhaps closed since.         *)
(***************************************************************************)
BeginCall(t, i) ==
    /\ pc[t] = "idle" /\ inst[i].made
    /\ on' = [on EXCEPT ![t] = i]
    /\ Go(t, "lock")
    /\ UNCHANGED <<gmu, reg, inst, dir, inodes, fl, restores, failed>>

\* Mutant: the thread lock is not waited for.
LockThreadAnyway(t) ==
    /\ pc[t] = "lock"
    /\ inst' = [inst EXCEPT ![on[t]].mu = t]
    /\ Go(t, "flockGet") \/ Go(t, "flockSet")
    /\ UNCHANGED <<gmu, reg, dir, inodes, fl, on, restores, failed>>

\* m.mu.Lock of lockShared and lockExclusive.
LockThread(t) ==
    /\ pc[t] = "lock" /\ inst[on[t]].mu = Nobody
    /\ inst' = [inst EXCEPT ![on[t]].mu = t]
    /\ Go(t, "flockGet") \/ Go(t, "flockSet")
    /\ UNCHANGED <<gmu, reg, dir, inodes, fl, on, restores, failed>>

\* fl.lock; on the file of a closed instance it fails, which is ignored.
LockFile(t) ==
    /\ pc[t] \in {"flockGet", "flockSet"}
    /\ IF MultiProcess /\ ~inst[on[t]].closed
       THEN Flock(on[t], IF pc[t] = "flockGet" THEN "sh" ELSE "ex")
       ELSE UNCHANGED fl
    /\ Go(t, "check")
    /\ UNCHANGED <<gmu, reg, inst, dir, inodes, on, restores, failed>>

\* unlockShared and unlockExclusive.
Return(t) ==
    /\ inst' = [inst EXCEPT ![on[t]].mu = Nobody]
    /\ Funlock(on[t])
    /\ Done(t)

RejectClosed(t) ==
    /\ pc[t] = "check" /\ inst[on[t]].closed
    /\ Return(t)
    /\ UNCHANGED <<gmu, reg, dir, inodes, restores, failed>>

\* checkLoadData: a flagged instance remaps and loads.
Loaded(m) == [m EXCEPT !.needLoad = FALSE, !.outdated = m.outdated /\ ~m.needLoad]

\* Mutant: a closed instance is not rejected.
CheckLoadClosed(t) ==
    /\ pc[t] = "check"
    /\ inst' = [inst EXCEPT ![on[t]] = Loaded(inst[on[t]])]
    /\ Go(t, "body")
    /\ UNCHANGED <<gmu, reg, dir, inodes, fl, on, restores, failed>>

CheckLoad(t) ==
    /\ pc[t] = "check" /\ ~inst[on[t]].closed
    /\ inst' = [inst EXCEPT ![on[t]] = Loaded(inst[on[t]])]
    /\ Go(t, "body")
    /\ UNCHANGED <<gmu, reg, dir, inodes, fl, on, restores, failed>>

Body(t) ==
    /\ pc[t] = "body"
    /\ Return(t)
    /\ UNCHANGED <<gmu, reg, dir, inodes, restores, failed>>

-----------------------------------------------------------------------------
(***************************************************************************)
(* Close, also as part of RemoveStorage.                                   *)
(***************************************************************************)
BeginClose(t, i) ==
    /\ pc[t] = "idle" /\ inst[i].made
    /\ on' = [on EXCEPT ![t] = i]
    /\ Go(t, "unregister")
    /\ UNCHANGED <<gmu, reg, inst, dir, inodes, fl, restores, failed>>

AfterUnregister(t) == IF pc[t] = "unregister" THEN "close" ELSE "closeRm"

\* Mutant: whatever is registered is removed.
UnregisterAny(t) ==
    /\ pc[t] \in {"unregister", "unregisterRm"} /\ gmu = Nobody
    /\ reg' = 0
    /\ Go(t, AfterUnregister(t))
    /\ UNCHANGED <<gmu, inst, dir, inodes, fl, on, restores, failed>>

\* Mutant: Close leaves the registry to MMKVWithID, which replaces closed instances.
UnregisterNot(t) ==
    /\ pc[t] \in {"unregister", "unregisterRm"} /\ gmu = Nobody
    /\ Go(t, AfterUnregister(t))
    /\ UNCHANGED <<gmu, reg, inst, dir, inodes, fl, on, restores, failed>>

Unregister(t) ==
    /\ pc[t] \in {"unregister", "unregisterRm"} /\ gmu = Nobody
    /\ reg' = IF reg = on[t] THEN 0 ELSE reg
    /\ Go(t, AfterUnregister(t))
    /\ UNCHANGED <<gmu, inst, dir, inodes, fl, on, restores, failed>>

\* Under m.mu: closed, unmapped, and both files closed, which ends its flock.
CloseFiles(t) ==
    /\ pc[t] \in {"close", "closeRm"} /\ inst[on[t]].mu = Nobody
    /\ inst' = [inst EXCEPT ![on[t]] = Closed]
    /\ Funlock(on[t])
    /\ IF pc[t] = "close" THEN Done(t) ELSE Go(t, "rmData") /\ UNCHANGED on
    /\ UNCHANGED <<gmu, reg, dir, inodes, restores, failed>>

BeginRemoveStorage(t) ==
    /\ pc[t] = "idle" /\ inodes + 2 <= MaxInode
    /\ Go(t, "find")
    /\ UNCHANGED <<gmu, reg, inst, dir, inodes, fl, on, restores, failed>>

\* Mutant: the instance is not closed.
FindForgets(t) ==
    /\ pc[t] = "find" /\ gmu = Nobody
    /\ Go(t, "rmData")
    /\ UNCHANGED <<gmu, reg, inst, dir, inodes, fl, on, restores, failed>>

Find(t) ==
    /\ pc[t] = "find" /\ gmu = Nobody
    /\ on' = IF reg = 0 THEN on ELSE [on EXCEPT ![t] = reg]
    /\ Go(t, IF reg = 0 THEN "rmData" ELSE "unregisterRm")
    /\ UNCHANGED <<gmu, reg, inst, dir, inodes, fl, restores, failed>>

UnlinkData(t) ==
    /\ pc[t] = "rmData"
    /\ dir' = [dir EXCEPT !.data = 0]
    /\ Go(t, "rmCrc")
    /\ UNCHANGED <<gmu, reg, inst, inodes, fl, on, restores, failed>>

UnlinkCrc(t) ==
    /\ pc[t] = "rmCrc"
    /\ dir' = [dir EXCEPT !.crc = 0]
    /\ Done(t)
    /\ UNCHANGED <<gmu, reg, inst, inodes, fl, restores, failed>>

-----------------------------------------------------------------------------
(***************************************************************************)
(* RestoreOneFromDirectory: the flock of a file of its own, the two copies *)
(* in place, and the flag for a cached instance.                           *)
(***************************************************************************)
BeginRestore(t) ==
    /\ pc[t] = "idle" /\ restores < MaxRestores
    /\ restores' = restores + 1
    /\ CreateIfMissing("crc")
    /\ on' = [on EXCEPT ![t] = Made("crc")]
    /\ Go(t, "rsFlock")
    /\ UNCHANGED <<gmu, reg, inst, fl, failed>>

RestoreFlock(t) ==
    /\ pc[t] = "rsFlock"
    /\ Flock(t, "ex")
    /\ Go(t, "rsData")
    /\ UNCHANGED <<gmu, reg, inst, dir, inodes, on, restores, failed>>

\* copyFile truncates the file the directory names, or creates one.
Copy(name) ==
    /\ CreateIfMissing(name)
    /\ inst' = [i \in Instances |-> [inst[i] EXCEPT !.outdated = inst[i].crc # 0]]

RestoreData(t) ==
    /\ pc[t] = "rsData" /\ Copy("data")
    /\ Go(t, "rsCrc")
    /\ UNCHANGED <<gmu, reg, fl, on, restores, failed>>

RestoreCrc(t) ==
    /\ pc[t] = "rsCrc" /\ Copy("crc")
    /\ Go(t, "rsRegistry")
    /\ UNCHANGED <<gmu, reg, fl, on, restores, failed>>

\* The flock or a copy fails: the restore returns, and flags nothing.
RestoreFails(t) ==
    /\ pc[t] \in {"rsFlock", "rsData", "rsCrc"}
    /\ \/ /\ UNCHANGED <<inst, dir, inodes>>
          /\ failed' = (failed \/ pc[t] = "rsCrc")
       \/ /\ (pc[t] = "rsData" /\ Copy("data")) \/ (pc[t] = "rsCrc" /\ Copy("crc"))
          /\ failed' = TRUE
    /\ Funlock(t)
    /\ Done(t)
    /\ UNCHANGED <<gmu, reg, restores>>

RestoreRegistry(t) ==
    /\ pc[t] = "rsRegistry" /\ gmu = Nobody
    /\ gmu' = t
    /\ Go(t, "rsFlag")
    /\ UNCHANGED <<reg, inst, dir, inodes, fl, on, restores, failed>>

\* Mutant: a restore does not tell the cached instance.
RestoreFlagForgotten(t) ==
    /\ pc[t] = "rsFlag" /\ (reg # 0 => inst[reg].mu = Nobody)
    /\ gmu' = Nobody
    /\ Go(t, "rsUnlock")
    /\ UNCHANGED <<reg, inst, dir, inodes, fl, on, restores, failed>>

RestoreFlag(t) ==
    /\ pc[t] = "rsFlag" /\ (reg # 0 => inst[reg].mu = Nobody)
    /\ inst' = IF reg = 0 THEN inst ELSE [inst EXCEPT ![reg].needLoad = TRUE]
    /\ gmu' = Nobody
    /\ Go(t, "rsUnlock")
    /\ UNCHANGED <<reg, dir, inodes, fl, on, restores, failed>>

RestoreUnlock(t) ==
    /\ pc[t] = "rsUnlock"
    /\ Funlock(t)
    /\ Done(t)
    /\ UNCHANGED <<gmu, reg, inst, dir, inodes, restores, failed>>

-----------------------------------------------------------------------------
Init ==
    /\ gmu = Nobody /\ reg = 0
    /\ inst = [i \in Instances |-> Unmade]
    /\ dir = [data |-> 0, crc |-> 0] /\ inodes = 0
    /\ restores = 0 /\ failed = FALSE
    /\ fl = [f \in Instances \cup Threads |-> "un"]
    /\ pc = [t \in Threads |-> "idle"]
    /\ on = [t \in Threads |-> 0]

Begin(t) ==
    \/ BeginOpen(t) \/ BeginRemoveStorage(t) \/ BeginRestore(t)
    \/ \E i \in Instances : BeginCall(t, i) \/ BeginClose(t, i)

\* What a thread does inside a call.
Run(t) ==
    \/ Lookup(t) \/ OpenData(t) \/ OpenMeta(t) \/ Repair(t) \/ Register(t)
    \/ OpenFails(t)
    \/ LockThread(t) \/ LockFile(t) \/ RejectClosed(t) \/ CheckLoad(t) \/ Body(t)
    \/ Unregister(t) \/ CloseFiles(t)
    \/ Find(t) \/ UnlinkData(t) \/ UnlinkCrc(t)
    \/ RestoreFlock(t) \/ RestoreData(t) \/ RestoreCrc(t)
    \/ RestoreFails(t)
    \/ RestoreRegistry(t) \/ RestoreFlag(t) \/ RestoreUnlock(t)

Next == \E t \in Threads : Begin(t) \/ Run(t)
Spec == Init /\ [][Next]_vars

\* Every thread inside a call goes on.  Strong fairness where it waits for a
\* lock: sync.Mutex hands the lock to the goroutine that has waited longest, and
\* the kernel is assumed not to pass over a waiter for the flock for ever.
FairSpec == Spec /\ \A t \in Threads : SF_vars(Run(t))

-----------------------------------------------------------------------------
(***************************************************************************)
(* Properties.                                                             *)
(***************************************************************************)
\* At most one usable instance per file: an open instance that is not the one
\* MMKVWithID returns is about to be closed by a Close already past the
\* registry (mmkv.go: "One instance is cached per file per process").
OneInstance ==
    \A i \in Instances : Live(i) /\ i # reg =>
        \E t \in Threads : pc[t] \in {"close", "closeRm"} /\ on[t] = i

\* MMKVWithID reads m.closed with gInstanceMu and without m.mu.  No Close can
\* be writing it then: a registered instance is open and no Close has got
\* beyond the registry with it.
ClosedReadIsOrdered ==
    reg # 0 => /\ Live(reg)
               /\ \A t \in Threads : pc[t] \in {"close", "closeRm"} => on[t] # reg

\* No call touches the mapping of an instance that has been closed, also when
\* it was waiting for the thread lock while another goroutine closed it.
NoUseAfterClose == \A t \in Threads : pc[t] = "body" => Live(on[t])

\* A call through the registered instance never works on what was loaded
\* before a restore, also if it was opened while the restore copied the files,
\* unless a restore has failed half-way (mmkv_backup.go: "flags any cached instance to remap+reload").
RestoredIsReloaded ==
    \A t \in Threads :
        pc[t] = "body" /\ on[t] = reg /\ ~failed
          /\ (\A u \in Threads : pc[u] \notin {"rsCrc", "rsRegistry", "rsFlag"})
        => ~inst[reg].outdated

\* The registered instance maps the files the directory names, unless it was
\* opened while a RemoveStorage was between closing and unlinking.
MapsTheFiles ==
    reg # 0 /\ ~inst[reg].raced => inst[reg].data = dir.data /\ inst[reg].crc = dir.crc

\* Who keeps t from going on.
WaitsFor(t) ==
    CASE pc[t] \in {"unregister", "unregisterRm", "find", "rsRegistry"} -> {gmu} \ {Nobody}
      [] pc[t] \in {"lock", "close", "closeRm"} -> {inst[on[t]].mu} \ {Nobody}
      [] pc[t] = "rsFlag" /\ reg # 0 -> {inst[reg].mu} \ {Nobody}
      [] pc[t] \in {"flockGet", "flockSet", "repair"} /\ MultiProcess ->
            {u \in Threads : fl[u] = "ex" /\ CrcOf(u) = CrcOf(on[t])}
      [] OTHER -> {}

NoCircle == \A S \in SUBSET Threads \ {{}} : \E t \in S : WaitsFor(t) \cap S = {}

\* A restore over a live instance goes through: it never waits for the thread
\* lock of a call that itself waits for the restore's flock (mmkv_backup.go:
\* "restore over multi-process instances or while the file is idle").
RestoreGoesThrough ==
    \A t, u \in Threads :
        ~(pc[t] = "rsFlag" /\ WaitsFor(t) = {u} /\ t \in WaitsFor(u))

\* Every call, open, close, removal and restore ends, as long as a restore and
\* a call do not block each other for good.
EveryCallReturns ==
    []NoCircle => \A t \in Threads : pc[t] # "idle" ~> pc[t] = "idle"
=============================================================================
