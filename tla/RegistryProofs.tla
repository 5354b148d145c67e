---------------------------- MODULE RegistryProofs ----------------------------
(***************************************************************************)
(* The safety properties of Registry, for any number of goroutines and     *)
(* instances.                                                              *)
(***************************************************************************)
EXTENDS Registry, TLAPS

Opening == {"data", "meta", "repair", "register"}
InCall == {"flockGet", "flockSet", "check", "body"}
Using == {"lock", "unregister", "close", "unregisterRm", "closeRm"} \cup InCall
RmSteps == {"unregisterRm", "closeRm", "rmData", "rmCrc"}
Copying == \E u \in Threads : pc[u] \in {"rsCrc", "rsRegistry", "rsFlag"}

\* What a thread relies on: the locks it holds and the instance it works with.
ThreadInv(t) ==
    /\ pc[t] \in {"lookup", "rsFlag"} \cup Opening => gmu = t
    /\ pc[t] \in Opening => on[t] \in Instances /\ ~inst[on[t]].made /\ reg = 0
    /\ pc[t] \in Using => on[t] \in Instances /\ inst[on[t]].made
    /\ pc[t] \in InCall => inst[on[t]].mu = t
    /\ pc[t] = "body" => Live(on[t]) /\ ~inst[on[t]].needLoad

\* The files of the registered instance and of the one being opened.
FilesInv ==
    /\ MapsTheFiles
    /\ reg # 0 => inst[reg].data # 0 /\ inst[reg].crc # 0
    /\ reg # 0 /\ ~inst[reg].raced =>
          \A t \in Threads : pc[t] \in RmSteps => pc[t] = "unregisterRm" /\ on[t] = reg
    /\ \A t \in Threads : pc[t] \in {"meta", "repair", "register"} =>
          /\ inst[on[t]].data # 0
          /\ ~inst[on[t]].raced => inst[on[t]].data = dir.data /\ ~Removing
    /\ \A t \in Threads : pc[t] \in {"repair", "register"} =>
          /\ inst[on[t]].crc # 0
          /\ ~inst[on[t]].raced => inst[on[t]].crc = dir.crc

\* What has been restored since it was loaded is flagged, or about to be.
ReloadInv ==
    /\ reg # 0 /\ inst[reg].outdated => inst[reg].needLoad \/ Copying \/ failed
    /\ \A t \in Threads : pc[t] \in {"repair", "register"} /\ inst[on[t]].outdated =>
          failed \/ \E u \in Threads : pc[u] \in {"rsCrc", "rsRegistry"}

ClosedWereMade == \A i \in Instances : inst[i].closed => inst[i].made

\* The inductive invariant.  The registry and the files agree because every
\* step that looks at both holds gInstanceMu, or comes after the instance has
\* left the registry.
RegistryInv ==
    /\ RegistryTypeOK
    /\ \A t \in Threads : ThreadInv(t)
    /\ ClosedWereMade
    /\ OneInstance /\ ClosedReadIsOrdered
    /\ FilesInv
    /\ ReloadInv

Closing == {"close", "closeRm"}

\* A step of one goroutine moves no other.
LEMMA OthersStay ==
    ASSUME RegistryTypeOK, NEW t \in Threads, Begin(t) \/ Run(t),
           NEW u \in Threads, u # t
    PROVE  pc'[u] = pc[u] /\ on'[u] = on[u]
<1> USE DEF RegistryTypeOK, Go, Done, Return
<1>1. CASE Begin(t)
  BY <1>1 DEF Begin, BeginOpen, BeginRemoveStorage, BeginRestore, BeginCall, BeginClose
<1>2. CASE \/ Lookup(t) \/ OpenData(t) \/ OpenMeta(t) \/ Repair(t) \/ Register(t)
           \/ OpenFails(t)
  BY <1>2 DEF Lookup, OpenData, OpenMeta, Repair, Register, OpenFails
<1>3. CASE \/ LockThread(t) \/ LockFile(t) \/ RejectClosed(t) \/ CheckLoad(t)
           \/ Body(t)
  BY <1>3 DEF LockThread, LockFile, RejectClosed, CheckLoad, Body
<1>4. CASE \/ Unregister(t) \/ CloseFiles(t) \/ Find(t) \/ UnlinkData(t)
           \/ UnlinkCrc(t)
  BY <1>4 DEF Unregister, CloseFiles, Find, UnlinkData, UnlinkCrc
<1>5. CASE \/ RestoreFlock(t) \/ RestoreData(t) \/ RestoreCrc(t)
           \/ RestoreRegistry(t) \/ RestoreFlag(t) \/ RestoreUnlock(t)
           \/ RestoreFails(t)
  BY <1>5 DEF RestoreFlock, RestoreData, RestoreCrc, RestoreRegistry, RestoreFlag,
              RestoreUnlock, RestoreFails
<1> QED
  BY <1>1, <1>2, <1>3, <1>4, <1>5, Zenon DEF Run

\* The record updates of the actions give records of instances.
LEMMA RecordTypes ==
    /\ Unmade \in Instance /\ Closed \in Instance
    /\ \A r \in Instance :
          /\ \A d \in Nat, b \in BOOLEAN : [r EXCEPT !.data = d, !.raced = b] \in Instance
          /\ \A c \in Nat : [r EXCEPT !.crc = c, !.outdated = FALSE] \in Instance
          /\ [r EXCEPT !.made = TRUE] \in Instance
          /\ \A u \in Threads \cup {Nobody} : [r EXCEPT !.mu = u] \in Instance
          /\ \A b \in BOOLEAN : [r EXCEPT !.needLoad = FALSE, !.outdated = b] \in Instance
          /\ \A b \in BOOLEAN : [r EXCEPT !.outdated = b] \in Instance
          /\ [r EXCEPT !.needLoad = TRUE] \in Instance
<1>1. Unmade \in Instance
  BY DEF Unmade, Instance, Nobody
<1>2. Closed \in Instance
  BY <1>1, Zenon DEF Closed, Instance
<1> QED
  BY <1>1, <1>2, Zenon DEF Instance

\* Every step keeps the types.
LEMMA TypeStep ==
    ASSUME RegistryInv, NEW t \in Threads, Begin(t) \/ Run(t)
    PROVE  RegistryTypeOK'
<1>0. RegistryTypeOK /\ ThreadInv(t)
  BY DEF RegistryInv
<1> DEFINE m == inst[on[t]]
<1>a. on[t] \in Instances => m \in Instance
  BY <1>0 DEF RegistryTypeOK
<1> USE RegistryAssumption DEF RegistryTypeOK, Go, Done, Nobody, Files, Steps
<1>1. CASE Begin(t)
  <2>1. \A i \in Instances : i \in Nat
    BY DEF Instances
  <2> QED
    BY <1>0, <1>1, <2>1 DEF Begin, BeginOpen, BeginRemoveStorage, BeginRestore,
                            BeginCall, BeginClose, CreateIfMissing, Made
<1>2. CASE Lookup(t)
  <2>1. \A i \in Instances : i \in Nat
    BY DEF Instances
  <2> QED
    BY <1>0, <1>2, <2>1 DEF Lookup
<1>3. CASE OpenData(t)
  <2>1. on[t] \in Instances /\ Made("data") \in Nat /\ Removing \in BOOLEAN
    BY <1>0, <1>3 DEF OpenData, ThreadInv, Opening, Made, Removing
  <2>2. [m EXCEPT !.data = Made("data"), !.raced = Removing] \in Instance
    BY <1>a, <2>1, RecordTypes, Zenon
  <2> QED
    BY <1>0, <1>3, <2>1, <2>2 DEF OpenData, CreateIfMissing
<1>4. CASE OpenMeta(t)
  <2>1. on[t] \in Instances /\ Made("crc") \in Nat
    BY <1>0, <1>4 DEF OpenMeta, ThreadInv, Opening, Made
  <2>2. [m EXCEPT !.crc = Made("crc"), !.outdated = FALSE] \in Instance
    BY <1>a, <2>1, RecordTypes, Zenon
  <2> QED
    BY <1>0, <1>4, <2>1, <2>2 DEF OpenMeta, CreateIfMissing
<1>5. CASE Register(t)
  <2>1. on[t] \in Instances
    BY <1>0, <1>5 DEF Register, ThreadInv, Opening
  <2>2. [m EXCEPT !.made = TRUE] \in Instance
    BY <1>a, <2>1, RecordTypes, Zenon
  <2> QED
    BY <1>0, <1>5, <2>1, <2>2 DEF Register, Instances
<1>6. CASE Repair(t)
  BY <1>0, <1>6, Zenon DEF Repair
<1>b. Unmade \in Instance /\ Closed \in Instance
  BY RecordTypes, Zenon
<1>c. CASE OpenFails(t)
  BY <1>0, <1>b, <1>c, Zenon DEF OpenFails
<1>7. CASE LockThread(t) \/ RejectClosed(t) \/ Body(t)
  <2>1. on[t] \in Instances
    BY <1>0, <1>7 DEF LockThread, RejectClosed, Body, ThreadInv, Using, InCall
  <2>2. \A u \in Threads \cup {Nobody} : [m EXCEPT !.mu = u] \in Instance
    BY <1>a, <2>1, RecordTypes, Zenon
  <2> QED
    BY <1>0, <1>7, <2>1, <2>2 DEF LockThread, RejectClosed, Body, Return, Funlock
<1>8. CASE LockFile(t)
  BY <1>0, <1>8 DEF LockFile, Flock
<1>9. CASE CheckLoad(t)
  <2>1. on[t] \in Instances
    BY <1>0, <1>9 DEF CheckLoad, ThreadInv, Using, InCall
  <2>2. (m.outdated /\ ~m.needLoad) \in BOOLEAN
    BY <1>a, <2>1 DEF Instance
  <2>3. Loaded(m) \in Instance
    BY <1>a, <2>1, <2>2, RecordTypes, Zenon DEF Loaded
  <2> QED
    BY <1>0, <1>9, <2>1, <2>3 DEF CheckLoad
<1>10. CASE Unregister(t) \/ Find(t) \/ UnlinkData(t) \/ UnlinkCrc(t)
  <2>1. CASE Unregister(t)
    BY <1>0, <2>1 DEF Unregister, AfterUnregister
  <2>4. CASE UnlinkCrc(t)
    BY <1>0, <2>4 DEF UnlinkCrc
  <2>2. CASE Find(t)
    BY <1>0, <2>2 DEF Find
  <2>3. CASE UnlinkData(t)
    <3>1. dir' \in Files
      BY <1>0, <2>3 DEF UnlinkData
    <3> QED
      BY <1>0, <2>3, <3>1 DEF UnlinkData
  <2> QED
    BY <1>10, <2>1, <2>2, <2>3, <2>4
<1>11. CASE CloseFiles(t)
  <2>1. on[t] \in Instances
    BY <1>0, <1>11 DEF CloseFiles, ThreadInv, Using
  <2>2. inst' \in [Instances -> Instance]
    BY <1>0, <1>11, <1>b, <2>1, Zenon DEF CloseFiles, RegistryTypeOK
  <2>3. fl' \in [Instances \cup Threads -> {"un", "sh", "ex"}]
    BY <1>0, <1>11, Zenon DEF CloseFiles, Funlock
  <2> QED
    BY <1>0, <1>11, <2>2, <2>3 DEF CloseFiles
<1>12. CASE RestoreFlock(t) \/ RestoreRegistry(t) \/ RestoreUnlock(t)
  BY <1>0, <1>12 DEF RestoreFlock, RestoreRegistry, RestoreUnlock, Flock, Funlock
<1>13. CASE RestoreData(t) \/ RestoreCrc(t) \/ RestoreFails(t)
  <2>1. \A i \in Instances : [inst[i] EXCEPT !.outdated = inst[i].crc # 0] \in Instance
    BY <1>0, RecordTypes, Zenon DEF RegistryTypeOK
  <2> QED
    <3>1. CASE RestoreData(t) \/ RestoreCrc(t)
      BY <1>0, <2>1, <3>1 DEF RestoreData, RestoreCrc, Copy, CreateIfMissing, Made
    <3>2. CASE RestoreFails(t)
      <4>1. inst' \in [Instances -> Instance]
        BY <1>0, <2>1, <3>2 DEF RestoreFails, Copy
      <4>2. dir' \in Files /\ inodes' \in Nat
        BY <1>0, <3>2 DEF RestoreFails, Copy, CreateIfMissing, Made
      <4>3. failed' \in BOOLEAN
        BY <1>0, <3>2, Zenon DEF RestoreFails
      <4> QED
        BY <1>0, <3>2, <4>1, <4>2, <4>3 DEF RestoreFails, Funlock
    <3> QED
      BY <1>13, <3>1, <3>2
<1>14. CASE RestoreFlag(t)
  <2>1. reg # 0 => reg \in Instances /\ [inst[reg] EXCEPT !.needLoad = TRUE] \in Instance
    <3>1. reg # 0 => reg \in Instances
      BY <1>0 DEF Instances
    <3> QED
      BY <1>0, <3>1, RecordTypes, Zenon DEF RegistryTypeOK
  <2> QED
    BY <1>0, <1>14, <2>1 DEF RestoreFlag
<1> QED
  BY <1>1, <1>2, <1>3, <1>4, <1>5, <1>6, <1>c, <1>7, <1>8, <1>9, <1>10, <1>11, <1>12,
     <1>13, <1>14, Zenon DEF Run

\* Every step of t keeps what any goroutine u relies on.
LEMMA ThreadStep ==
    ASSUME RegistryInv, NEW t \in Threads, Begin(t) \/ Run(t), NEW u \in Threads
    PROVE  ThreadInv(u)'
<1> USE DEF RegistryInv, RegistryTypeOK, ThreadInv, Opening, InCall, Using, Live,
            Go, Done, Nobody
<1> USE RegistryAssumption, OthersStay
<1>0. CASE Begin(t)
  BY <1>0 DEF Begin, BeginOpen, BeginRemoveStorage, BeginRestore, BeginCall, BeginClose
<1>1. CASE Lookup(t)
  <2>1. CASE reg # 0 /\ ~inst[reg].closed
    BY <1>1, <2>1 DEF Lookup
  <2>2. CASE reg = 0
    BY <1>1, <2>2 DEF Lookup
  <2>3. reg # 0 => ~inst[reg].closed
    BY DEF ClosedReadIsOrdered
  <2> QED
    BY <2>1, <2>2, <2>3
<1>2. CASE OpenData(t)
  BY <1>2 DEF OpenData, Instance
<1>3. CASE OpenMeta(t)
  BY <1>3 DEF OpenMeta, Instance
<1>4. CASE Repair(t)
  BY <1>4 DEF Repair
<1>5. CASE Register(t)
  BY <1>5 DEF Register, Instance
<1>6. CASE OpenFails(t)
  BY <1>6 DEF OpenFails, Instance, Unmade
<1>7. CASE LockThread(t)
  BY <1>7 DEF LockThread, Instance
<1>8. CASE LockFile(t)
  BY <1>8 DEF LockFile
<1>9. CASE RejectClosed(t)
  BY <1>9 DEF RejectClosed, Return, Instance
<1>10. CASE CheckLoad(t)
  BY <1>10 DEF CheckLoad, Loaded, Instance
<1>11. CASE Body(t)
  BY <1>11 DEF Body, Return, Instance
<1>12. CASE Unregister(t)
  BY <1>12 DEF Unregister, AfterUnregister
<1>13. CASE CloseFiles(t)
  BY <1>13 DEF CloseFiles, Instance, Closed, Unmade
<1>14. CASE Find(t)
  <2>1. reg # 0 => reg \in Instances /\ inst[reg].made
    BY DEF ClosedReadIsOrdered, Instances
  <2>2. CASE reg = 0
    BY <1>14, <2>2 DEF Find
  <2>3. CASE reg # 0
    BY <1>14, <2>1, <2>3 DEF Find
  <2> QED
    BY <2>2, <2>3
<1>15. CASE UnlinkData(t)
  BY <1>15 DEF UnlinkData
<1>16. CASE UnlinkCrc(t)
  BY <1>16 DEF UnlinkCrc
<1>17. CASE RestoreFlock(t)
  BY <1>17 DEF RestoreFlock
<1>18. CASE RestoreData(t)
  BY <1>18 DEF RestoreData, Copy, Instance
<1>19. CASE RestoreCrc(t)
  BY <1>19 DEF RestoreCrc, Copy, Instance
<1>20. CASE RestoreRegistry(t)
  BY <1>20 DEF RestoreRegistry
<1>21. CASE RestoreFlag(t)
  BY <1>21 DEF RestoreFlag, Instance
<1>22. CASE RestoreUnlock(t)
  BY <1>22 DEF RestoreUnlock
<1>23. CASE RestoreFails(t)
  BY <1>23, SMTT(30) DEF RestoreFails, Copy, Instance
<1> QED
  BY <1>23, <1>0, <1>1, <1>2, <1>3, <1>4, <1>5, <1>6, <1>7, <1>8, <1>9, <1>10, <1>11, <1>12, <1>13, <1>14, <1>15, <1>16, <1>17, <1>18, <1>19, <1>20, <1>21, <1>22, Zenon DEF Run

\* An instance is closed only after open has returned it.
LEMMA MadeStep ==
    ASSUME RegistryInv, NEW t \in Threads, Begin(t) \/ Run(t)
    PROVE  ClosedWereMade'
<1>0. RegistryTypeOK /\ ClosedWereMade
  BY DEF RegistryInv
<1> USE DEF RegistryTypeOK, ClosedWereMade, Instance
<1>1. CASE inst' = inst
  BY <1>0, <1>1
<1>2. CASE OpenData(t) \/ OpenMeta(t) \/ Register(t) \/ OpenFails(t)
  <2>1. CASE OpenData(t)
    BY <1>0, <2>1 DEF OpenData
  <2>2. CASE OpenMeta(t)
    BY <1>0, <2>2 DEF OpenMeta
  <2>3. CASE Register(t)
    BY <1>0, <2>3 DEF Register
  <2>4. CASE OpenFails(t)
    BY <1>0, <2>4 DEF OpenFails, Unmade
  <2> QED
    BY <1>2, <2>1, <2>2, <2>3, <2>4
<1>3. CASE LockThread(t) \/ RejectClosed(t) \/ CheckLoad(t) \/ Body(t)
  <2>1. CASE LockThread(t)
    BY <1>0, <2>1 DEF LockThread
  <2>2. CASE RejectClosed(t)
    BY <1>0, <2>2 DEF RejectClosed, Return
  <2>3. CASE CheckLoad(t)
    BY <1>0, <2>3 DEF CheckLoad, Loaded
  <2>4. CASE Body(t)
    BY <1>0, <2>4 DEF Body, Return
  <2> QED
    BY <1>3, <2>1, <2>2, <2>3, <2>4
<1>4. CASE CloseFiles(t) \/ RestoreData(t) \/ RestoreCrc(t) \/ RestoreFlag(t)
           \/ RestoreFails(t)
  <2>1. CASE CloseFiles(t)
    BY <1>0, <2>1, SMTT(30) DEF CloseFiles, Closed, Unmade
  <2>2. CASE RestoreData(t)
    BY <1>0, <2>2, SMTT(30) DEF RestoreData, Copy
  <2>3. CASE RestoreCrc(t)
    BY <1>0, <2>3, SMTT(30) DEF RestoreCrc, Copy
  <2>4. CASE RestoreFlag(t)
    BY <1>0, <2>4 DEF RestoreFlag
  <2>5. CASE RestoreFails(t)
    BY <1>0, <2>5, SMTT(30) DEF RestoreFails, Copy
  <2> QED
    BY <1>4, <2>1, <2>2, <2>3, <2>4, <2>5
<1>5. inst' = inst \/ ~Begin(t)
  BY DEF Begin, BeginOpen, BeginRemoveStorage, BeginRestore, BeginCall, BeginClose
<1>6. \/ inst' = inst
      \/ ~(Lookup(t) \/ Repair(t) \/ LockFile(t) \/ Unregister(t) \/ Find(t)
           \/ UnlinkData(t) \/ UnlinkCrc(t) \/ RestoreFlock(t) \/ RestoreRegistry(t)
           \/ RestoreUnlock(t))
  BY DEF Lookup, Repair, LockFile, Unregister, Find, UnlinkData, UnlinkCrc, RestoreFlock,
         RestoreRegistry, RestoreUnlock
<1> QED
  BY <1>1, <1>2, <1>3, <1>4, <1>5, <1>6, Zenon DEF Run

\* A step that leaves the registry, the liveness of every instance and the set of
\* closing threads alone keeps the registry right.
LEMMA QuietForRegistry ==
    ASSUME RegistryInv, NEW t \in Threads, Begin(t) \/ Run(t),
           reg' = reg, \A i \in Instances : Live(i)' <=> Live(i),
           pc[t] \notin Closing, pc'[t] \notin Closing
    PROVE  (OneInstance /\ ClosedReadIsOrdered)'
<1>1. \A u \in Threads \ {t} : pc'[u] = pc[u] /\ on'[u] = on[u]
  BY OthersStay DEF RegistryInv
<1>2. \A u \in Threads : pc[u] \in Closing \/ pc'[u] \in Closing =>
          pc'[u] = pc[u] /\ on'[u] = on[u]
  BY <1>1
<1>3. reg # 0 => reg \in Instances
  BY DEF RegistryInv, RegistryTypeOK, Instances
<1>4. OneInstance'
  BY <1>2 DEF RegistryInv, OneInstance, Closing
<1>5. ClosedReadIsOrdered'
  BY <1>2, <1>3 DEF RegistryInv, ClosedReadIsOrdered, Closing
<1> QED
  BY <1>4, <1>5

\* Every step keeps the registry right: Register adds a live instance nobody
\* closes, Unregister hands the instance to its closer, CloseFiles closes one that
\* has left the registry.
LEMMA RegisteredStep ==
    ASSUME RegistryInv, NEW t \in Threads, Begin(t) \/ Run(t)
    PROVE  (OneInstance /\ ClosedReadIsOrdered)'
<1> DEFINE m == inst[on[t]]
<1>0. RegistryTypeOK /\ ThreadInv(t) /\ OneInstance /\ ClosedReadIsOrdered
  BY DEF RegistryInv
<1>a. /\ reg # 0 => reg \in Instances
      /\ \A i \in Instances : i # 0 /\ inst[i] \in Instance
  BY <1>0, SMTT(30) DEF RegistryTypeOK, Instances
<1>b. \A u \in Threads \ {t} : pc'[u] = pc[u] /\ on'[u] = on[u]
  BY <1>0, OthersStay
<1> USE DEF Go, Done, Closing
<1>1. CASE Begin(t)
  BY <1>0, <1>1, QuietForRegistry
  DEF RegistryTypeOK, Live, Begin, BeginOpen, BeginRemoveStorage, BeginRestore, BeginCall,
      BeginClose
<1>2. CASE Lookup(t) \/ Repair(t) \/ LockFile(t) \/ UnlinkData(t) \/ UnlinkCrc(t)
  BY <1>0, <1>2, QuietForRegistry
  DEF RegistryTypeOK, Live, Lookup, Repair, LockFile, UnlinkData, UnlinkCrc
<1>3. CASE Find(t)
  BY <1>0, <1>3, QuietForRegistry DEF RegistryTypeOK, Live, Find
<1>4. CASE RestoreFlock(t) \/ RestoreRegistry(t) \/ RestoreUnlock(t)
  BY <1>0, <1>4, QuietForRegistry
  DEF RegistryTypeOK, Live, RestoreFlock, RestoreRegistry, RestoreUnlock
<1>5. CASE OpenData(t) \/ OpenMeta(t) \/ OpenFails(t)
  <2>1. \A i \in Instances : Live(i)' <=> Live(i)
    <3> USE DEF RegistryTypeOK, ThreadInv, Live, Instance, Opening
    <3>1. CASE OpenData(t)
      BY <1>0, <1>a, <3>1 DEF OpenData
    <3>2. CASE OpenMeta(t)
      BY <1>0, <1>a, <3>2 DEF OpenMeta
    <3>3. CASE OpenFails(t)
      BY <1>0, <1>a, <3>3 DEF OpenFails, Unmade
    <3> QED
      BY <1>5, <3>1, <3>2, <3>3
  <2> QED
    BY <1>0, <1>5, <2>1, QuietForRegistry
    DEF RegistryTypeOK, OpenData, OpenMeta, OpenFails
<1>6. CASE LockThread(t) \/ RejectClosed(t) \/ CheckLoad(t) \/ Body(t)
  <2>1. \A i \in Instances : Live(i)' <=> Live(i)
    <3> USE DEF RegistryTypeOK, ThreadInv, Live, Instance
    <3>1. CASE LockThread(t)
      BY <1>0, <1>a, <3>1 DEF LockThread
    <3>2. CASE RejectClosed(t)
      BY <1>0, <1>a, <3>2 DEF RejectClosed, Return
    <3>3. CASE CheckLoad(t)
      BY <1>0, <1>a, <3>3 DEF CheckLoad, Loaded
    <3>4. CASE Body(t)
      BY <1>0, <1>a, <3>4 DEF Body, Return
    <3> QED
      BY <1>6, <3>1, <3>2, <3>3, <3>4
  <2> QED
    BY <1>0, <1>6, <2>1, QuietForRegistry
    DEF RegistryTypeOK, LockThread, RejectClosed, CheckLoad, Body, Return
<1>7. CASE RestoreData(t) \/ RestoreCrc(t) \/ RestoreFlag(t) \/ RestoreFails(t)
  <2>1. \A i \in Instances : Live(i)' <=> Live(i)
    <3> USE DEF RegistryTypeOK, ThreadInv, Live, Instance
    <3>1. CASE RestoreData(t)
      BY <1>0, <1>a, <3>1 DEF RestoreData, Copy
    <3>2. CASE RestoreCrc(t)
      BY <1>0, <1>a, <3>2 DEF RestoreCrc, Copy
    <3>3. CASE RestoreFlag(t)
      BY <1>0, <1>a, <3>3 DEF RestoreFlag
    <3>4. CASE RestoreFails(t)
      <4>1. CASE inst' = inst
        BY <4>1
      <4>2. CASE Copy("data") \/ Copy("crc")
        BY <1>0, <1>a, <4>2 DEF Copy
      <4> QED
        BY <3>4, <4>1, <4>2 DEF RestoreFails
    <3> QED
      BY <1>7, <3>1, <3>2, <3>3, <3>4
  <2> QED
    BY <1>0, <1>7, <2>1, QuietForRegistry
    DEF RegistryTypeOK, RestoreData, RestoreCrc, RestoreFlag, RestoreFails
<1>8. CASE Register(t)
  <2>1. on[t] \in Instances /\ ~m.made /\ reg = 0 /\ reg' = on[t]
    BY <1>0, <1>8 DEF Register, ThreadInv, Opening
  <2>2. /\ inst'[on[t]].made /\ inst'[on[t]].closed = m.closed
        /\ \A i \in Instances \ {on[t]} : inst'[i] = inst[i]
    BY <1>0, <1>8, <1>a, <2>1 DEF Register, RegistryTypeOK, Instance
  <2>3. \A u \in Threads : pc'[u] \in Closing =>
            u # t /\ inst[on[u]].made /\ pc[u] \in Closing
    BY <1>0, <1>8, <1>b DEF Register, RegistryTypeOK, RegistryInv, ThreadInv, Using
  <2>4. ~m.closed
    BY <2>1 DEF RegistryInv, ClosedWereMade
  <2>5. ClosedReadIsOrdered'
    BY <1>b, <2>1, <2>2, <2>3, <2>4 DEF ClosedReadIsOrdered, Live
  <2>6. OneInstance'
    <3>1. \A i \in Instances : Live(i)' /\ i # reg' => Live(i) /\ i # reg
      BY <1>a, <2>1, <2>2 DEF Live
    <3>2. \A u \in Threads : pc[u] \in Closing => u # t
      BY <1>8 DEF Register
    <3> QED
      BY <1>0, <1>b, <3>1, <3>2 DEF OneInstance
  <2> QED
    BY <2>5, <2>6
<1>9. CASE Unregister(t)
  <2>1. on[t] \in Instances /\ pc'[t] \in Closing /\ on' = on /\ inst' = inst
        /\ reg' = IF reg = on[t] THEN 0 ELSE reg
    BY <1>0, <1>9 DEF Unregister, AfterUnregister, ThreadInv, Using, RegistryTypeOK
  <2>2. pc[t] \notin Closing
    BY <1>9 DEF Unregister
  <2>3. OneInstance'
    BY <1>0, <1>b, <2>1, <2>2 DEF OneInstance, Live
  <2>4. ClosedReadIsOrdered'
    BY <1>0, <1>b, <2>1, <2>2 DEF ClosedReadIsOrdered, Live
  <2> QED
    BY <2>3, <2>4
<1>10. CASE CloseFiles(t)
  <2>1. on[t] \in Instances /\ pc[t] \in Closing /\ pc'[t] \notin Closing /\ reg' = reg
    BY <1>0, <1>10 DEF CloseFiles, ThreadInv, Using, RegistryTypeOK
  <2>2. \A i \in Instances : inst'[i] = IF i = on[t] THEN Closed ELSE inst[i]
    BY <1>0, <1>10, <2>1 DEF CloseFiles, RegistryTypeOK
  <2>a. Closed.closed
    BY DEF Closed, Unmade
  <2>b. \A i \in Instances : Live(i)' <=> i # on[t] /\ Live(i)
    BY <2>2, <2>a, Zenon DEF Live
  <2>3. OneInstance'
    BY <1>0, <1>b, <2>1, <2>b DEF OneInstance
  <2>4. ClosedReadIsOrdered'
    BY <1>0, <1>a, <1>b, <2>1, <2>b DEF ClosedReadIsOrdered
  <2> QED
    BY <2>3, <2>4
<1> QED
  BY <1>1, <1>2, <1>3, <1>4, <1>5, <1>6, <1>7, <1>8, <1>9, <1>10, Zenon DEF Run

\* A step that opens and unlinks nothing, and at most creates a missing file,
\* keeps the mapped files those of the directory.
LEMMA FilesFrame ==
    ASSUME RegistryInv, NEW t \in Threads, Begin(t) \/ Run(t),
           reg' = reg,
           \A i \in Instances : /\ inst'[i].data = inst[i].data /\ inst'[i].crc = inst[i].crc
                                /\ inst'[i].raced = inst[i].raced,
           dir.data # 0 => dir'.data = dir.data,
           dir.crc # 0 => dir'.crc = dir.crc,
           pc'[t] \notin {"meta", "repair", "register"} \cup RmSteps
    PROVE  FilesInv'
<1>1. /\ FilesInv
      /\ \A u \in Threads \ {t} : pc'[u] = pc[u] /\ on'[u] = on[u]
  BY OthersStay DEF RegistryInv
<1>2. reg # 0 => reg \in Instances
  BY RegistryAssumption DEF RegistryInv, RegistryTypeOK, Instances
<1>3. \A u \in Threads : pc[u] \in {"meta", "repair", "register"} => on[u] \in Instances
  BY DEF RegistryInv, ThreadInv, Opening
<1>4. \A u \in Threads : pc'[u] \in {"meta", "repair", "register"} \cup RmSteps =>
          pc'[u] = pc[u] /\ on'[u] = on[u]
  BY <1>1
<1>5. Removing' => Removing
  BY <1>4 DEF Removing, RmSteps
<1>6. MapsTheFiles' /\ (reg # 0 => inst[reg].data # 0 /\ inst[reg].crc # 0)'
  BY <1>1, <1>2 DEF FilesInv, MapsTheFiles
<1>7. (reg # 0 /\ ~inst[reg].raced =>
          \A u \in Threads : pc[u] \in RmSteps => pc[u] = "unregisterRm" /\ on[u] = reg)'
  BY <1>1, <1>2, <1>4 DEF FilesInv
<1>8. ASSUME NEW u \in Threads, pc'[u] \in {"meta", "repair", "register"}
      PROVE  /\ inst'[on'[u]].data # 0
             /\ ~inst'[on'[u]].raced => inst'[on'[u]].data = dir'.data /\ ~Removing'
  <2>1. pc[u] \in {"meta", "repair", "register"} /\ on'[u] = on[u] /\ on[u] \in Instances
    BY <1>3, <1>4, <1>8
  <2>2. /\ inst[on[u]].data # 0
        /\ ~inst[on[u]].raced => inst[on[u]].data = dir.data /\ ~Removing
    BY <1>1, <2>1 DEF FilesInv
  <2> QED
    BY <1>5, <2>1, <2>2
<1>9. ASSUME NEW u \in Threads, pc'[u] \in {"repair", "register"}
      PROVE  /\ inst'[on'[u]].crc # 0
             /\ ~inst'[on'[u]].raced => inst'[on'[u]].crc = dir'.crc
  <2>1. pc[u] \in {"repair", "register"} /\ on'[u] = on[u] /\ on[u] \in Instances
    BY <1>3, <1>4, <1>9
  <2>2. inst[on[u]].crc # 0 /\ (~inst[on[u]].raced => inst[on[u]].crc = dir.crc)
    BY <1>1, <2>1 DEF FilesInv
  <2> QED
    BY <2>1, <2>2
<1> QED
  BY <1>6, <1>7, <1>8, <1>9 DEF FilesInv

\* Every step keeps the mapped files those of the directory.
LEMMA FilesStep ==
    ASSUME RegistryInv, NEW t \in Threads, Begin(t) \/ Run(t)
    PROVE  FilesInv'
<1>t. /\ RegistryTypeOK /\ (\A u \in Threads : ThreadInv(u))
      /\ ClosedReadIsOrdered /\ FilesInv
      /\ \A u \in Threads \ {t} : pc'[u] = pc[u] /\ on'[u] = on[u]
  BY OthersStay DEF RegistryInv
<1>f. /\ pc \in [Threads -> Steps] /\ on \in [Threads -> Nat] /\ inst \in [Instances -> Instance]
      /\ reg \in 0..MaxInst /\ dir \in Files /\ inodes \in Nat
  BY <1>t DEF RegistryTypeOK
<1>r. reg # 0 => reg \in Instances
  BY <1>f, RegistryAssumption DEF Instances
<1>0. CASE Begin(t)
  <2>1. /\ inst' = inst /\ reg' = reg
        /\ pc'[t] \notin {"meta", "repair", "register"} \cup RmSteps
    BY <1>f, <1>0
    DEF Begin, BeginOpen, BeginRemoveStorage, BeginRestore, BeginCall, BeginClose, Go, RmSteps
  <2>2. (dir.data # 0 => dir'.data = dir.data) /\ (dir.crc # 0 => dir'.crc = dir.crc)
    BY <1>f, <1>0
    DEF Begin, BeginOpen, BeginRemoveStorage, BeginRestore, BeginCall, BeginClose,
        CreateIfMissing, Made, Files
  <2> QED
    BY <2>1, <2>2, FilesFrame
<1>1. CASE \/ Lookup(t) \/ LockFile(t) \/ RestoreFlock(t) \/ RestoreRegistry(t)
           \/ RestoreUnlock(t)
  <2>1. /\ inst' = inst /\ reg' = reg /\ dir' = dir
        /\ pc'[t] \notin {"meta", "repair", "register"} \cup RmSteps
    BY <1>f, <1>1
    DEF Lookup, LockFile, RestoreFlock, RestoreRegistry, RestoreUnlock, Go, Done, RmSteps
  <2> QED
    BY <2>1, FilesFrame
<1>2. CASE \/ LockThread(t) \/ RejectClosed(t) \/ CheckLoad(t) \/ Body(t)
  <2>1. /\ reg' = reg /\ dir' = dir
        /\ pc'[t] \notin {"meta", "repair", "register"} \cup RmSteps
    BY <1>f, <1>2 DEF LockThread, RejectClosed, CheckLoad, Body, Return, Go, Done, RmSteps
  <2>2. ASSUME NEW i \in Instances
        PROVE  /\ inst'[i].data = inst[i].data /\ inst'[i].crc = inst[i].crc
               /\ inst'[i].raced = inst[i].raced
    <3>1. CASE LockThread(t)
      BY <1>f, <3>1 DEF LockThread, Instance
    <3>2. CASE RejectClosed(t) \/ Body(t)
      BY <1>f, <3>2 DEF RejectClosed, Body, Return, Instance
    <3>3. CASE CheckLoad(t)
      BY <1>f, <3>3 DEF CheckLoad, Loaded, Instance
    <3> QED
      BY <1>2, <3>1, <3>2, <3>3
  <2> QED
    BY <2>1, <2>2, FilesFrame
<1>3. CASE RestoreData(t) \/ RestoreCrc(t) \/ RestoreFails(t)
  <2>1. /\ reg' = reg
        /\ pc'[t] \notin {"meta", "repair", "register"} \cup RmSteps
    BY <1>f, <1>3 DEF RestoreData, RestoreCrc, RestoreFails, Go, Done, RmSteps
  <2>2. ASSUME NEW i \in Instances
        PROVE  /\ inst'[i].data = inst[i].data /\ inst'[i].crc = inst[i].crc
               /\ inst'[i].raced = inst[i].raced
    BY <1>f, <1>3 DEF RestoreData, RestoreCrc, RestoreFails, Copy, Instance
  <2>3. (dir.data # 0 => dir'.data = dir.data) /\ (dir.crc # 0 => dir'.crc = dir.crc)
    BY <1>f, <1>3
    DEF RestoreData, RestoreCrc, RestoreFails, Copy, CreateIfMissing, Made, Files
  <2> QED
    BY <2>1, <2>2, <2>3, FilesFrame
<1>4. CASE RestoreFlag(t)
  <2>1. /\ reg' = reg /\ dir' = dir
        /\ pc'[t] \notin {"meta", "repair", "register"} \cup RmSteps
    BY <1>f, <1>4 DEF RestoreFlag, Go, RmSteps
  <2>2. ASSUME NEW i \in Instances
        PROVE  /\ inst'[i].data = inst[i].data /\ inst'[i].crc = inst[i].crc
               /\ inst'[i].raced = inst[i].raced
    BY <1>f, <1>4 DEF RestoreFlag, Instance
  <2> QED
    BY <2>1, <2>2, FilesFrame
<1>5. CASE \/ OpenData(t) \/ OpenMeta(t) \/ Repair(t) \/ OpenFails(t)
  <2>1. on[t] \in Instances /\ reg = 0 /\ gmu = t /\ pc[t] \in Opening
    BY <1>t, <1>5 DEF OpenData, OpenMeta, Repair, OpenFails, ThreadInv, Opening
  <2>2. reg' = 0
    BY <1>5, <2>1 DEF OpenData, OpenMeta, Repair, OpenFails
  <2>3. \A u \in Threads \ {t} : pc'[u] \notin Opening
    BY <1>t, <2>1 DEF ThreadInv, Opening
  <2>4. pc'[t] \notin RmSteps
    BY <1>f, <1>5 DEF OpenData, OpenMeta, Repair, OpenFails, Go, Done, RmSteps
  <2>5. Removing' => Removing
    BY <1>t, <2>4 DEF Removing, RmSteps
  <2>6. SUFFICES /\ pc'[t] \in {"meta", "repair", "register"} =>
                      /\ inst'[on'[t]].data # 0
                      /\ ~inst'[on'[t]].raced => inst'[on'[t]].data = dir'.data /\ ~Removing'
                 /\ pc'[t] \in {"repair", "register"} =>
                      /\ inst'[on'[t]].crc # 0
                      /\ ~inst'[on'[t]].raced => inst'[on'[t]].crc = dir'.crc
    BY <2>2, <2>3 DEF FilesInv, MapsTheFiles, Opening
  <2>7. CASE OpenData(t)
    <3>1. /\ pc'[t] = "meta" /\ on' = on /\ inst'[on[t]].raced = Removing
          /\ inst'[on[t]].data = Made("data") /\ dir'.data = Made("data")
      BY <1>f, <2>1, <2>7 DEF OpenData, CreateIfMissing, Instance, Files, Go
    <3>2. Made("data") # 0
      BY <1>f DEF Made, Files
    <3> QED
      BY <2>5, <3>1, <3>2
  <2>8. CASE OpenMeta(t)
    <3>1. /\ on' = on /\ inst'[on[t]].raced = inst[on[t]].raced
          /\ inst'[on[t]].data = inst[on[t]].data /\ dir'.data = dir.data
          /\ inst'[on[t]].crc = Made("crc") /\ dir'.crc = Made("crc")
      BY <1>f, <2>1, <2>8 DEF OpenMeta, CreateIfMissing, Instance, Files
    <3>2. Made("crc") # 0
      BY <1>f DEF Made, Files
    <3>3. /\ inst[on[t]].data # 0
          /\ ~inst[on[t]].raced => inst[on[t]].data = dir.data /\ ~Removing
      BY <1>t, <2>8 DEF OpenMeta, FilesInv
    <3> QED
      BY <2>5, <3>1, <3>2, <3>3
  <2>9. CASE Repair(t)
    <3>1. on' = on /\ inst' = inst /\ dir' = dir /\ pc[t] = "repair"
      BY <2>9 DEF Repair
    <3>2. /\ inst[on[t]].data # 0 /\ inst[on[t]].crc # 0
          /\ ~inst[on[t]].raced =>
               inst[on[t]].data = dir.data /\ ~Removing /\ inst[on[t]].crc = dir.crc
      BY <1>t, <3>1 DEF FilesInv
    <3> QED
      BY <2>5, <3>1, <3>2
  <2>10. CASE OpenFails(t)
    <3>1. pc'[t] = "idle"
      BY <1>f, <2>10 DEF OpenFails, Go, Done
    <3> QED
      BY <3>1
  <2> QED
    BY <1>5, <2>7, <2>8, <2>9, <2>10
<1>6. CASE Register(t)
  <2>1. on[t] \in Instances /\ gmu = t /\ pc[t] = "register"
    BY <1>t, <1>6 DEF Register, ThreadInv, Opening
  <2>2. /\ inst[on[t]].data # 0 /\ inst[on[t]].crc # 0
        /\ ~inst[on[t]].raced =>
             inst[on[t]].data = dir.data /\ ~Removing /\ inst[on[t]].crc = dir.crc
    BY <1>t, <2>1 DEF FilesInv
  <2>3. /\ reg' = on[t] /\ dir' = dir /\ pc'[t] = "idle"
        /\ inst'[on[t]].raced = inst[on[t]].raced
        /\ inst'[on[t]].data = inst[on[t]].data /\ inst'[on[t]].crc = inst[on[t]].crc
    BY <1>f, <1>6, <2>1 DEF Register, Instance, Go, Done
  <2>4. \A u \in Threads : pc'[u] \notin Opening
    BY <1>t, <2>1, <2>3 DEF ThreadInv, Opening
  <2>5. Removing' => Removing
    BY <1>t, <2>3 DEF Removing
  <2>6. ~inst'[reg'].raced => \A u \in Threads : pc'[u] \notin RmSteps
    BY <2>2, <2>3, <2>5 DEF Removing, RmSteps
  <2> QED
    BY <2>2, <2>3, <2>4, <2>6 DEF FilesInv, MapsTheFiles, Opening
<1>7. CASE Unregister(t) \/ Find(t)
  <2>1. /\ inst' = inst /\ dir' = dir /\ gmu = Nobody /\ reg' \in {reg, 0}
        /\ pc'[t] \notin Opening
    BY <1>f, <1>7 DEF Unregister, Find, AfterUnregister, Go, Opening
  <2>2. \A u \in Threads : pc'[u] \notin Opening
    BY <1>t, <2>1, RegistryAssumption DEF ThreadInv, Opening, Nobody
  <2>3. ASSUME reg' # 0, ~inst'[reg'].raced, NEW u \in Threads, pc'[u] \in RmSteps
        PROVE  pc'[u] = "unregisterRm" /\ on'[u] = reg'
    <3>1. reg' = reg /\ reg # 0 /\ ~inst[reg].raced
      BY <2>1, <2>3
    <3>2. \A v \in Threads : pc[v] \in RmSteps => pc[v] = "unregisterRm" /\ on[v] = reg
      BY <1>t, <3>1 DEF FilesInv
    <3>3. CASE u # t
      BY <1>t, <2>3, <3>1, <3>2, <3>3
    <3>4. CASE u = t /\ Find(t)
      BY <1>f, <3>1, <3>4 DEF Find, Go
    <3>5. CASE u = t /\ Unregister(t)
      <4>1. on[t] # reg /\ pc[t] \in {"unregister", "unregisterRm"}
        BY <1>f, <3>1, <3>5 DEF Unregister
      <4>2. pc[t] = "unregister"
        BY <3>2, <4>1 DEF RmSteps
      <4>3. pc'[t] = "close"
        BY <1>f, <3>5, <4>2 DEF Unregister, AfterUnregister, Go
      <4> QED
        BY <2>3, <3>5, <4>3 DEF RmSteps
    <3> QED
      BY <1>7, <3>3, <3>4, <3>5
  <2>4. MapsTheFiles' /\ (reg # 0 => inst[reg].data # 0 /\ inst[reg].crc # 0)'
    BY <1>t, <2>1 DEF FilesInv, MapsTheFiles
  <2> QED
    BY <2>2, <2>3, <2>4 DEF FilesInv, Opening
<1>8. CASE CloseFiles(t)
  <2>1. on[t] \in Instances /\ inst[on[t]].made /\ on[t] # reg /\ pc[t] \notin Opening
    BY <1>t, <1>f, <1>8, RegistryAssumption
    DEF CloseFiles, ThreadInv, Using, ClosedReadIsOrdered, Opening, Instances
  <2>2. \A i \in Instances \ {on[t]} : inst'[i] = inst[i]
    BY <1>f, <1>8 DEF CloseFiles
  <2>3. \A u \in Threads : pc[u] \in Opening => on[u] \in Instances \ {on[t]}
    BY <1>t, <2>1 DEF ThreadInv
  <2>4. reg' = reg /\ dir' = dir
        /\ (pc'[t] = "idle" \/ (pc'[t] = "rmData" /\ pc[t] = "closeRm"))
    BY <1>f, <1>8 DEF CloseFiles, Go, Done
  <2>5. Removing' => Removing
    BY <1>t, <2>4 DEF Removing
  <2>6. MapsTheFiles' /\ (reg # 0 => inst[reg].data # 0 /\ inst[reg].crc # 0)'
    BY <1>t, <1>r, <2>1, <2>2, <2>4 DEF FilesInv, MapsTheFiles
  <2>7. (reg # 0 /\ ~inst[reg].raced =>
          \A u \in Threads : pc[u] \in RmSteps => pc[u] = "unregisterRm" /\ on[u] = reg)'
    BY <1>t, <1>r, <2>1, <2>2, <2>4 DEF FilesInv, RmSteps
  <2>8. (\A u \in Threads : pc[u] \in {"meta", "repair", "register"} =>
          /\ inst[on[u]].data # 0
          /\ ~inst[on[u]].raced => inst[on[u]].data = dir.data /\ ~Removing)'
    BY <1>t, <2>2, <2>3, <2>4, <2>5 DEF FilesInv, Opening
  <2>9. (\A u \in Threads : pc[u] \in {"repair", "register"} =>
          /\ inst[on[u]].crc # 0
          /\ ~inst[on[u]].raced => inst[on[u]].crc = dir.crc)'
    BY <1>t, <2>2, <2>3, <2>4 DEF FilesInv, Opening
  <2> QED
    BY <2>6, <2>7, <2>8, <2>9 DEF FilesInv
<1>9. CASE UnlinkData(t) \/ UnlinkCrc(t)
  <2>1. pc[t] \in {"rmData", "rmCrc"} /\ inst' = inst /\ reg' = reg
        /\ pc'[t] \in {"rmCrc", "idle"}
    BY <1>f, <1>9 DEF UnlinkData, UnlinkCrc, Go, Done
  <2>2. Removing
    BY <2>1 DEF Removing
  <2>3. reg # 0 => inst[reg].raced /\ inst[reg].data # 0 /\ inst[reg].crc # 0
    BY <1>t, <2>1 DEF FilesInv, RmSteps
  <2>4. \A u \in Threads : pc'[u] \in Opening => pc'[u] = pc[u] /\ on'[u] = on[u]
    BY <1>t, <2>1 DEF Opening
  <2>5. ASSUME NEW u \in Threads, pc'[u] \in {"meta", "repair", "register"}
        PROVE  /\ inst[on[u]].data # 0 /\ inst[on[u]].raced
               /\ pc'[u] = pc[u] /\ on'[u] = on[u]
               /\ pc'[u] \in {"repair", "register"} => inst[on[u]].crc # 0
    BY <1>t, <2>2, <2>4, <2>5 DEF FilesInv, Opening
  <2> QED
    BY <2>1, <2>3, <2>5 DEF FilesInv, MapsTheFiles
<1> QED
  BY <1>0, <1>1, <1>2, <1>3, <1>4, <1>5, <1>6, <1>7, <1>8, <1>9, Zenon DEF Run

\* A step that neither registers, opens, loads over nor copies anything keeps
\* a restored instance flagged or about to be.
LEMMA ReloadFrame ==
    ASSUME RegistryInv, NEW t \in Threads, Begin(t) \/ Run(t),
           reg' \in {reg, 0}, failed' = failed,
           \A i \in Instances : inst'[i].outdated =>
               inst[i].outdated /\ (inst[i].needLoad => inst'[i].needLoad),
           pc[t] \notin {"rsCrc", "rsRegistry", "rsFlag"},
           pc'[t] \notin {"repair", "register"}
    PROVE  ReloadInv'
<1>1. /\ ReloadInv /\ reg \in 0..MaxInst
      /\ \A u \in Threads \ {t} : pc'[u] = pc[u] /\ on'[u] = on[u]
  BY OthersStay DEF RegistryInv, RegistryTypeOK
<1>2. /\ Copying => Copying'
      /\ (\E u \in Threads : pc[u] \in {"rsCrc", "rsRegistry"}) =>
            \E u \in Threads : pc'[u] \in {"rsCrc", "rsRegistry"}
  BY <1>1 DEF Copying
<1>3. ASSUME reg' # 0, inst'[reg'].outdated
      PROVE  inst'[reg'].needLoad \/ Copying' \/ failed'
  <2>1. reg' = reg /\ reg \in Instances
    BY <1>1, <1>3, RegistryAssumption DEF Instances
  <2>2. inst[reg].outdated /\ (inst[reg].needLoad => inst'[reg].needLoad)
    BY <1>3, <2>1
  <2>3. inst[reg].needLoad \/ Copying \/ failed
    BY <1>1, <1>3, <2>1, <2>2 DEF ReloadInv
  <2> QED
    BY <1>2, <2>1, <2>2, <2>3
<1>4. ASSUME NEW u \in Threads, pc'[u] \in {"repair", "register"}, inst'[on'[u]].outdated
      PROVE  failed' \/ \E v \in Threads : pc'[v] \in {"rsCrc", "rsRegistry"}
  <2>1. u # t /\ pc[u] \in {"repair", "register"} /\ on'[u] = on[u]
    BY <1>1, <1>4
  <2>2. on[u] \in Instances
    BY <2>1 DEF RegistryInv, ThreadInv, Opening
  <2>3. inst[on[u]].outdated
    BY <1>4, <2>1, <2>2
  <2> QED
    BY <1>1, <1>2, <2>1, <2>3 DEF ReloadInv
<1> QED
  BY <1>3, <1>4 DEF ReloadInv

\* Every step keeps a restored instance flagged or about to be.
LEMMA ReloadStep ==
    ASSUME RegistryInv, NEW t \in Threads, Begin(t) \/ Run(t)
    PROVE  ReloadInv'
<1>t. /\ RegistryTypeOK /\ (\A u \in Threads : ThreadInv(u)) /\ ReloadInv
      /\ \A u \in Threads \ {t} : pc'[u] = pc[u] /\ on'[u] = on[u]
  BY OthersStay DEF RegistryInv
<1>f. /\ pc \in [Threads -> Steps] /\ on \in [Threads -> Nat]
      /\ inst \in [Instances -> Instance] /\ reg \in 0..MaxInst /\ failed \in BOOLEAN
  BY <1>t DEF RegistryTypeOK
<1>0. CASE Begin(t)
  <2>1. /\ inst' = inst /\ reg' = reg /\ failed' = failed /\ pc[t] = "idle"
        /\ pc'[t] \notin {"repair", "register"}
    BY <1>f, <1>0
    DEF Begin, BeginOpen, BeginRemoveStorage, BeginRestore, BeginCall, BeginClose, Go
  <2> QED
    BY <2>1, ReloadFrame
<1>1. CASE \/ Lookup(t) \/ LockFile(t) \/ Find(t) \/ UnlinkData(t) \/ UnlinkCrc(t)
           \/ RestoreFlock(t) \/ RestoreUnlock(t) \/ Unregister(t)
  <2>1. /\ inst' = inst /\ reg' \in {reg, 0} /\ failed' = failed
        /\ pc[t] \notin {"rsCrc", "rsRegistry", "rsFlag"}
        /\ pc'[t] \notin {"repair", "register"}
    BY <1>f, <1>1
    DEF Lookup, LockFile, Find, UnlinkData, UnlinkCrc, RestoreFlock, RestoreUnlock,
        Unregister, AfterUnregister, Go, Done
  <2> QED
    BY <2>1, ReloadFrame
<1>2. CASE \/ OpenData(t) \/ OpenFails(t) \/ LockThread(t) \/ RejectClosed(t)
           \/ CheckLoad(t) \/ Body(t) \/ CloseFiles(t)
  <2>1. /\ reg' = reg /\ failed' = failed
        /\ pc[t] \notin {"rsCrc", "rsRegistry", "rsFlag"}
        /\ pc'[t] \notin {"repair", "register"}
    BY <1>f, <1>2
    DEF OpenData, OpenFails, LockThread, RejectClosed, CheckLoad, Body, CloseFiles,
        Return, Go, Done
  <2>2. on[t] \in Instances
    BY <1>t, <1>2, SMTT(30) DEF OpenData, OpenFails, LockThread, RejectClosed, CheckLoad, Body,
       CloseFiles, ThreadInv, Opening, Using, InCall
  <2>3. ASSUME NEW i \in Instances, inst'[i].outdated
        PROVE  inst[i].outdated /\ (inst[i].needLoad => inst'[i].needLoad)
    <3>1. CASE OpenData(t)
      BY <1>f, <2>2, <2>3, <3>1 DEF OpenData, Instance
    <3>2. CASE OpenFails(t)
      BY <1>f, <2>2, <2>3, <3>2 DEF OpenFails, Unmade
    <3>3. CASE LockThread(t)
      BY <1>f, <2>2, <2>3, <3>3 DEF LockThread, Instance
    <3>4. CASE RejectClosed(t) \/ Body(t)
      BY <1>f, <2>2, <2>3, <3>4 DEF RejectClosed, Body, Return, Instance
    <3>5. CASE CheckLoad(t)
      BY <1>f, <2>2, <2>3, <3>5 DEF CheckLoad, Loaded, Instance
    <3>6. CASE CloseFiles(t)
      BY <1>f, <2>2, <2>3, <3>6 DEF CloseFiles, Closed, Unmade
    <3> QED
      BY <1>2, <3>1, <3>2, <3>3, <3>4, <3>5, <3>6
  <2> QED
    BY <2>1, <2>3, ReloadFrame
<1>3. CASE OpenMeta(t)
  <2>1. on[t] \in Instances /\ reg = 0 /\ gmu = t
    BY <1>t, <1>3 DEF OpenMeta, ThreadInv, Opening
  <2>2. reg' = 0 /\ on' = on /\ inst'[on[t]].outdated = FALSE
    BY <1>f, <1>3, <2>1 DEF OpenMeta, Instance
  <2>3. \A u \in Threads \ {t} : pc'[u] \notin {"repair", "register"}
    BY <1>t, <2>1 DEF ThreadInv, Opening
  <2> QED
    BY <2>2, <2>3 DEF ReloadInv
<1>4. CASE Repair(t)
  <2>1. /\ inst' = inst /\ reg' = reg /\ on' = on /\ failed' = failed
        /\ pc[t] = "repair" /\ pc'[t] = "register"
    BY <1>f, <1>4 DEF Repair, Go
  <2>2. reg = 0
    BY <1>t, <2>1 DEF ThreadInv, Opening
  <2>3. \A u \in Threads : pc'[u] \in {"repair", "register"} => pc[u] \in {"repair", "register"}
    BY <1>t, <2>1
  <2>4. \A u \in Threads : pc[u] \in {"rsCrc", "rsRegistry"} => pc'[u] = pc[u]
    BY <1>t, <2>1
  <2> QED
    BY <1>t, <2>1, <2>2, <2>3, <2>4 DEF ReloadInv
<1>5. CASE Register(t)
  <2>1. pc[t] = "register" /\ on[t] \in Instances /\ gmu = t
    BY <1>t, <1>5 DEF Register, ThreadInv, Opening
  <2>2. /\ reg' = on[t] /\ failed' = failed /\ pc'[t] = "idle"
        /\ inst'[on[t]].outdated = inst[on[t]].outdated
    BY <1>f, <1>5, <2>1 DEF Register, Instance, Go, Done
  <2>3. \A u \in Threads : pc'[u] \notin {"repair", "register"}
    BY <1>t, <2>1, <2>2 DEF ThreadInv, Opening
  <2>4. \A u \in Threads : pc[u] \in {"rsCrc", "rsRegistry"} => pc'[u] = pc[u]
    BY <1>t, <2>1
  <2>5. inst[on[t]].outdated => failed \/ \E u \in Threads : pc[u] \in {"rsCrc", "rsRegistry"}
    BY <1>t, <2>1 DEF ReloadInv
  <2>6. inst[on[t]].outdated => failed \/ Copying'
    BY <2>4, <2>5 DEF Copying
  <2> QED
    BY <2>2, <2>3, <2>6 DEF ReloadInv
<1>6. CASE RestoreData(t) \/ RestoreCrc(t)
  <2>1. pc'[t] \in {"rsCrc", "rsRegistry"}
    BY <1>f, <1>6 DEF RestoreData, RestoreCrc, Go
  <2> QED
    BY <2>1 DEF ReloadInv, Copying
<1>7. CASE RestoreRegistry(t)
  <2>1. /\ inst' = inst /\ reg' = reg /\ gmu = Nobody /\ pc'[t] = "rsFlag"
    BY <1>f, <1>7 DEF RestoreRegistry, Go
  <2>2. \A u \in Threads : pc'[u] \notin {"repair", "register"}
    BY <1>t, <2>1, RegistryAssumption DEF ThreadInv, Opening, Nobody
  <2>3. Copying'
    BY <2>1 DEF Copying
  <2> QED
    BY <2>2, <2>3 DEF ReloadInv
<1>8. CASE RestoreFlag(t)
  <2>1. reg # 0 => reg \in Instances
    BY <1>f, RegistryAssumption DEF Instances
  <2>2. reg' = reg /\ gmu = t /\ pc'[t] = "rsUnlock"
    BY <1>t, <1>f, <1>8 DEF RestoreFlag, Go, ThreadInv
  <2>3. reg # 0 => inst'[reg].needLoad
    BY <1>f, <1>8, <2>1 DEF RestoreFlag, Instance
  <2>4. \A u \in Threads : pc'[u] \notin {"repair", "register"}
    BY <1>t, <2>2 DEF ThreadInv, Opening
  <2> QED
    BY <2>2, <2>3, <2>4 DEF ReloadInv
<1>9. CASE RestoreFails(t)
  <2>1. CASE failed'
    BY <2>1 DEF ReloadInv
  <2>2. CASE ~failed'
    <3>1. /\ inst' = inst /\ reg' = reg /\ failed' = failed /\ pc'[t] = "idle"
          /\ pc[t] \notin {"rsCrc", "rsRegistry", "rsFlag"}
      BY <1>f, <1>9, <2>2, Zenon DEF RestoreFails, Go, Done
    <3> QED
      BY <3>1, ReloadFrame
  <2> QED
    BY <2>1, <2>2
<1> QED
  BY <1>0, <1>1, <1>2, <1>3, <1>4, <1>5, <1>6, <1>7, <1>8, <1>9, Zenon DEF Run

\* The empty registry satisfies the invariant.
LEMMA InitInv == Init => RegistryInv
<1> SUFFICES ASSUME Init PROVE RegistryInv
  BY Zenon
<1>1. Unmade \in Instance
  BY RecordTypes, Zenon
<1>2. ~Unmade.made /\ ~Unmade.closed
  BY DEF Unmade
<1>3. RegistryTypeOK
  <2>1. inst \in [Instances -> Instance] /\ failed \in BOOLEAN
    BY <1>1, Zenon DEF Init
  <2> QED
    BY <2>1, RegistryAssumption DEF Init, RegistryTypeOK, Files, Steps, Nobody
<1>4. \A t \in Threads : ThreadInv(t)
  BY DEF Init, ThreadInv, Opening, InCall, Using
<1>5. ClosedWereMade /\ OneInstance /\ ClosedReadIsOrdered
  BY <1>2 DEF Init, ClosedWereMade, OneInstance, ClosedReadIsOrdered, Live
<1>6. FilesInv /\ ReloadInv
  BY DEF Init, FilesInv, MapsTheFiles, ReloadInv
<1> QED
  BY <1>3, <1>4, <1>5, <1>6 DEF RegistryInv

\* The invariant is inductive.
THEOREM Inductive == Spec => []RegistryInv
<1>1. RegistryInv /\ [Next]_vars => RegistryInv'
  <2> SUFFICES ASSUME RegistryInv, [Next]_vars PROVE RegistryInv'
    BY Zenon
  <2>1. CASE UNCHANGED vars
    BY <2>1
    DEF vars, RegistryInv, RegistryTypeOK, ThreadInv, ClosedWereMade, OneInstance,
        ClosedReadIsOrdered, Live, FilesInv, MapsTheFiles, Removing, ReloadInv, Copying
  <2>2. CASE Next
    <3>1. PICK t \in Threads : Begin(t) \/ Run(t)
      BY <2>2 DEF Next
    <3>2. RegistryTypeOK' /\ \A u \in Threads : ThreadInv(u)'
      BY <3>1, TypeStep, ThreadStep
    <3>3. ClosedWereMade' /\ OneInstance' /\ ClosedReadIsOrdered'
      BY <3>1, MadeStep, RegisteredStep
    <3>4. FilesInv' /\ ReloadInv'
      BY <3>1, FilesStep, ReloadStep
    <3> QED
      BY <3>2, <3>3, <3>4 DEF RegistryInv
  <2> QED
    BY <2>1, <2>2
<1> QED
  BY <1>1, InitInv, PTL DEF Spec

\* At most one usable instance per file, whatever opens, closes and removals of
\* any number of goroutines interleave.
THEOREM OneInstanceHolds == Spec => []OneInstance
<1>1. RegistryInv => OneInstance
  BY DEF RegistryInv
<1> QED
  BY <1>1, Inductive, PTL

\* The read of m.closed in MMKVWithID races with no Close.
THEOREM ClosedReadIsOrderedHolds == Spec => []ClosedReadIsOrdered
<1>1. RegistryInv => ClosedReadIsOrdered
  BY DEF RegistryInv
<1> QED
  BY <1>1, Inductive, PTL

\* No call touches the mapping of a closed instance.
THEOREM NoUseAfterCloseHolds == Spec => []NoUseAfterClose
<1>1. RegistryInv => NoUseAfterClose
  BY DEF RegistryInv, ThreadInv, NoUseAfterClose
<1> QED
  BY <1>1, Inductive, PTL

\* A call through the registered instance never works on what was loaded before
\* a restore: the flag is set by the restore, under the locks, before its flock
\* is released.
THEOREM RestoredIsReloadedHolds == Spec => []RestoredIsReloaded
<1>1. RegistryInv => RestoredIsReloaded
  <2> SUFFICES ASSUME RegistryInv, NEW t \in Threads, pc[t] = "body", on[t] = reg, ~failed,
                      \A u \in Threads : pc[u] \notin {"rsCrc", "rsRegistry", "rsFlag"}
               PROVE  ~inst[reg].outdated
    BY DEF RestoredIsReloaded
  <2>1. reg # 0 /\ ~inst[reg].needLoad
    BY DEF RegistryInv, ThreadInv, Using, InCall, Instances
  <2> QED
    BY <2>1 DEF RegistryInv, ReloadInv, Copying
<1> QED
  BY <1>1, Inductive, PTL

\* The registered instance maps the files the directory names, unless it was
\* opened in the middle of a RemoveStorage.
THEOREM MapsTheFilesHolds == Spec => []MapsTheFiles
<1>1. RegistryInv => MapsTheFiles
  BY DEF RegistryInv, FilesInv
<1> QED
  BY <1>1, Inductive, PTL
=============================================================================
