------------------------------- MODULE MMKVCore -------------------------------
(***************************************************************************)
(* Live MMKV instances on one store (mmkv.go, mmkv_io.go, memfile.go): the *)
(* data file, the ".crc" meta file, and in every process one open instance *)
(* with its mapping, its dictionary of views and its copy of the meta.     *)
(*                                                                         *)
(* A call of the API runs under the instance's thread lock, so an instance *)
(* has one program counter.  In multi-process mode it also holds the flock *)
(* on the ".crc" file; its two counters are ex and sh, and the kernel lock *)
(* is the function of them that module FileLock establishes.               *)
(*                                                                         *)
(* A call takes the lock, runs checkLoadData, decides what to write, and   *)
(* then stores to the two mapped files in separate steps, in the order of  *)
(* the code.  msync changes nothing that a live process can see.           *)
(***************************************************************************)
EXTENDS StoreFormat

CONSTANTS
    Procs,         \* processes with an open instance of the store
    MultiProcess,  \* WithMultiProcess
    ReadOnly,      \* the processes that opened WithReadOnly
    Comparing,     \* the processes that called EnableCompareBeforeSet
    Recovering,    \* the processes that opened WithRecoverOnError
    Calls,         \* the calls the processes make
    InitMaps,      \* contents the store may have at the start
    MaxSeq,        \* bound: no write is started at this sequence
    MaxLog,        \* bound: no write is started on a log of this length
    MaxHold        \* bound on nested calls of Lock

ReadCalls == {[kind |-> "get"]}
WriteCalls ==
    [kind : {"set"}, key : Keys, val : Vals]
      \cup [kind : {"remove"}, key : Keys]
      \cup [kind : {"removeMany"}, keys : SUBSET Keys]
      \cup {[kind |-> "clear"], [kind |-> "trim"]}
RepairCall == [kind |-> "repair"]   \* the write-back inside open
NoCall == [kind |-> "none"]

ASSUME CoreAssumption ==
    /\ Procs # {}
    /\ "nobody" \notin Procs
    /\ MultiProcess \in BOOLEAN
    /\ ~MultiProcess => \E p \in Procs : Procs = {p}
    /\ ReadOnly \subseteq Procs /\ Comparing \subseteq Procs
    /\ Recovering \subseteq Procs
    /\ Calls \subseteq ReadCalls \cup WriteCalls
    /\ InitMaps \subseteq Maps
    /\ MaxSeq \in Nat /\ MaxLog \in Nat
    /\ MaxHold \in Nat

versionActualSize == 3
versionFlag == 4

VARIABLES
    data,   \* the data file behind its header
    meta,   \* the ".crc" file
    inst,   \* per process: its MMKV struct
    ex, sh, \* per process: the counters of its fileLock
    pc,     \* per process: what its current call does next
    op,     \* per process: its current call
    buf,    \* per process: the region a full write-back is about to store
    res     \* per process: what its read has returned

vars == <<data, meta, inst, ex, sh, pc, op, buf, res>>

MetaInfo == [crcDigest : Seq(Slot), version : {0, 3, 4}, sequence : Nat,
             actualSize : Nat, lastActualSize : Nat, lastCRCDigest : Seq(Slot)]

\* size is data.size, the length of the mapping; dangling says that the views
\* in dict point into a mapping that has been unmapped.
Instance == [info : MetaInfo, dict : [Keys -> Nat], actualSize : Nat,
             crcDigest : Seq(Slot), needLoad : BOOLEAN, recover : BOOLEAN,
             needFullWriteback : BOOLEAN, size : Nat, dangling : BOOLEAN]

\* Where an instance is that is not open (module MMKVCrash), and where an open
\* one is in its current call.
OpenSteps == {"closed", "open", "load", "accept", "rollback", "salvage",
              "discard", "repair"}
Steps == {"idle", "check", "body", "crc", "size", "grow", "region", "meta",
          "shrink", "unlock"} \cup OpenSteps

TypeOK ==
    /\ data \in Seq(Slot)
    /\ meta \in MetaInfo
    /\ inst \in [Procs -> Instance]
    /\ ex \in [Procs -> Nat] /\ sh \in [Procs -> Nat]
    /\ pc \in [Procs -> Steps]
    /\ op \in [Procs -> ReadCalls \cup WriteCalls \cup {RepairCall, NoCall}]
    /\ buf \in [Procs -> Seq(Slot)]
    /\ res \in [Procs -> Seq(Maps)]

FileSize == HeaderSize + Len(data)
DictKeys(m) == {k \in Keys : m.dict[k] # 0}
EmptyDict == [k \in Keys |-> 0]

-----------------------------------------------------------------------------
(***************************************************************************)
(* Loading: what loadData makes of an instance m and the two files.        *)
(***************************************************************************)
readActualSize(info) ==
    IF info.version >= versionActualSize THEN info.actualSize ELSE 0

\* Mutant: the CRC is not compared.
AcceptableUnchecked(m, n, crc) == n < m.size /\ n + HeaderSize <= m.size

Acceptable(m, n, crc) ==
    /\ n < m.size /\ n + HeaderSize <= m.size
    /\ Region(data, n) = crc                        \* crcValid

decodeRegion(m, n, crc) ==
    [m EXCEPT !.dict = parseDict(Region(data, n)), !.actualSize = n,
              !.crcDigest = crc, !.dangling = FALSE]

rollback(m) ==
    decodeRegion([m EXCEPT !.info.actualSize = m.info.lastActualSize,
                           !.info.crcDigest = m.info.lastCRCDigest],
                 m.info.lastActualSize, m.info.lastCRCDigest)

salvage(m) ==
    LET n == IF m.info.actualSize + HeaderSize > m.size
             THEN m.size - HeaderSize ELSE m.info.actualSize
    IN  [m EXCEPT !.dict = parseDictGreedy(Region(data, n)),
                  !.actualSize = m.info.actualSize,
                  !.crcDigest = m.info.crcDigest,
                  !.needFullWriteback = TRUE, !.dangling = FALSE]

discard(m) == [m EXCEPT !.dict = EmptyDict, !.actualSize = 0,
                        !.crcDigest = <<>>, !.dangling = FALSE]

CurrentOK(m) == Acceptable(m, readActualSize(m.info), m.info.crcDigest)
LastConfirmedOK(m) ==
    Acceptable(m, m.info.lastActualSize, m.info.lastCRCDigest)

\* Mutants: the snapshot is preferred to the current region; there is no
\* rollback.
loadIntoSnapshotFirst(m) ==
    IF LastConfirmedOK(m) THEN rollback(m)
    ELSE IF CurrentOK(m)
    THEN decodeRegion(m, readActualSize(m.info), m.info.crcDigest)
    ELSE IF m.recover THEN salvage(m) ELSE discard(m)
loadIntoNoRollback(m) ==
    IF CurrentOK(m)
    THEN decodeRegion(m, readActualSize(m.info), m.info.crcDigest)
    ELSE IF m.recover THEN salvage(m) ELSE discard(m)

loadInto(m) ==
    IF CurrentOK(m)
    THEN decodeRegion(m, readActualSize(m.info), m.info.crcDigest)
    ELSE IF LastConfirmedOK(m) THEN rollback(m)
    ELSE IF m.recover THEN salvage(m) ELSE discard(m)

loadData(m) == loadInto([m EXCEPT !.info = meta])

\* Mutant: the mapping is kept.
remapNever(m) == m

\* memoryFile.remap: follow a grow or shrink done by another process.
remap(m) == IF m.size = FileSize
            THEN m ELSE [m EXCEPT !.size = FileSize, !.dangling = TRUE]

-----------------------------------------------------------------------------
(***************************************************************************)
(* Taking and releasing the locks.                                         *)
(***************************************************************************)
Others(p) == Procs \ {p}

BeginRead(p, c) ==
    /\ pc[p] = "idle"
    /\ c \in ReadCalls
    /\ MultiProcess /\ ex[p] = 0 /\ sh[p] = 0 => \A q \in Others(p) : ex[q] = 0
    /\ sh' = IF MultiProcess THEN [sh EXCEPT ![p] = @ + 1] ELSE sh
    /\ op' = [op EXCEPT ![p] = c]
    /\ pc' = [pc EXCEPT ![p] = "check"]
    /\ UNCHANGED <<data, meta, inst, ex, buf, res>>

BeginWrite(p, c) ==
    /\ pc[p] = "idle"
    /\ c \in WriteCalls
    /\ meta.sequence < MaxSeq /\ meta.actualSize < MaxLog
    /\ MultiProcess /\ ex[p] = 0
          => \A q \in Others(p) : ex[q] = 0 /\ sh[q] = 0
    /\ ex' = IF MultiProcess THEN [ex EXCEPT ![p] = @ + 1] ELSE ex
    /\ op' = [op EXCEPT ![p] = c]
    /\ pc' = [pc EXCEPT ![p] = "check"]
    /\ UNCHANGED <<data, meta, inst, sh, buf, res>>

End(p) ==
    /\ pc[p] = "unlock"
    /\ IF ~MultiProcess THEN UNCHANGED <<ex, sh>>
       ELSE IF op[p] \in ReadCalls
            THEN sh' = [sh EXCEPT ![p] = @ - 1] /\ UNCHANGED ex
            ELSE ex' = [ex EXCEPT ![p] = @ - 1] /\ UNCHANGED sh
    /\ op' = [op EXCEPT ![p] = NoCall]
    /\ buf' = [buf EXCEPT ![p] = <<>>]
    /\ res' = [res EXCEPT ![p] = <<>>]
    /\ pc' = [pc EXCEPT ![p] = "idle"]
    /\ UNCHANGED <<data, meta, inst>>

\* Lock and TryLock (which does nothing when the lock is contended).
Lock(p) ==
    /\ pc[p] = "idle" /\ MultiProcess /\ ex[p] < MaxHold
    /\ ex[p] = 0 => \A q \in Others(p) : ex[q] = 0 /\ sh[q] = 0
    /\ ex' = [ex EXCEPT ![p] = @ + 1]
    /\ UNCHANGED <<data, meta, inst, sh, pc, op, buf, res>>

Unlock(p) ==
    /\ pc[p] = "idle" /\ MultiProcess /\ ex[p] > 0
    /\ ex' = [ex EXCEPT ![p] = @ - 1]
    /\ UNCHANGED <<data, meta, inst, sh, pc, op, buf, res>>

\* A second call in a row changes nothing.
ClearMemoryCache(p) ==
    /\ pc[p] = "idle" /\ ~inst[p].needLoad
    /\ inst' = [inst EXCEPT ![p] =
                  [@ EXCEPT !.dict = EmptyDict, !.actualSize = 0,
                            !.crcDigest = <<>>, !.needLoad = TRUE]]
    /\ UNCHANGED <<data, meta, ex, sh, pc, op, buf, res>>

-----------------------------------------------------------------------------
(***************************************************************************)
(* checkLoadData, and the rejection that precedes it.                      *)
(***************************************************************************)
RejectReadOnly(p) ==
    /\ pc[p] = "check" /\ p \in ReadOnly /\ op[p] \notin ReadCalls
    /\ pc' = [pc EXCEPT ![p] = "unlock"]
    /\ UNCHANGED <<data, meta, inst, ex, sh, op, buf, res>>

NewSequence(p) == MultiProcess /\ meta.sequence # inst[p].info.sequence

\* Mutant: appends of others, which leave the sequence, go unnoticed.
NewAppendUnnoticed(p) == FALSE

NewAppend(p) == /\ MultiProcess
                /\ \/ meta.crcDigest # inst[p].crcDigest
                   \/ meta.actualSize # inst[p].actualSize

checkLoadData(p) ==
    /\ pc[p] = "check" /\ (op[p] \in ReadCalls \/ p \notin ReadOnly)
    /\ inst' = [inst EXCEPT ![p] =
                  IF @.needLoad
                  THEN loadData(remap([@ EXCEPT !.needLoad = FALSE]))
                  ELSE IF NewSequence(p) THEN loadData(remap(@))
                  ELSE IF NewAppend(p) THEN loadData(@)
                  ELSE @]
    /\ pc' = [pc EXCEPT ![p] = "body"]
    /\ UNCHANGED <<data, meta, ex, sh, op, buf, res>>

-----------------------------------------------------------------------------
(***************************************************************************)
(* The calls.                                                              *)
(***************************************************************************)
Visible(p) == Deref(data, inst[p].dict)
spaceLeft(m) == m.size - HeaderSize - m.actualSize
In(p, kind) == pc[p] = "body" /\ op[p].kind = kind

\* Every getter returns part of the map the views show.
Get(p) ==
    /\ In(p, "get")
    /\ res' = [res EXCEPT ![p] = <<Visible(p)>>]
    /\ pc' = [pc EXCEPT ![p] = "unlock"]
    /\ UNCHANGED <<data, meta, inst, ex, sh, op, buf>>

\* Mutant: the running digest is not extended.
appendedStaleDigest(m, item, d) ==
    [m EXCEPT !.actualSize = @ + 1, !.dict = d,
              !.info = [@ EXCEPT !.actualSize = m.actualSize + 1]]

\* appendRaw and overrideRaw up to the stores to the meta file; d is the
\* dictionary after the append.
appended(m, item, d) ==
    LET n == m.actualSize + 1
        crc == Append(m.crcDigest, item)
    IN  [m EXCEPT !.actualSize = n, !.crcDigest = crc, !.dict = d,
                  !.info = [@ EXCEPT !.actualSize = n, !.crcDigest = crc]]

appendRaw(p, item, d) ==
    /\ data' = [i \in DOMAIN data |->
                    IF i = inst[p].actualSize + 1 THEN item ELSE data[i]]
    /\ inst' = [inst EXCEPT ![p] = appended(@, item, d)]
    /\ pc' = [pc EXCEPT ![p] = "crc"]
    /\ UNCHANGED <<meta, ex, sh, op, buf, res>>

\* Mutant: the dictionary does not get the new view.
overriddenKeepsDict(m, k, region) ==
    [m EXCEPT !.actualSize = 2, !.crcDigest = region,
              !.info = [@ EXCEPT !.actualSize = 2, !.crcDigest = region]]

overridden(m, k, region) ==
    [m EXCEPT !.actualSize = 2, !.crcDigest = region,
              !.dict = [@ EXCEPT ![k] = 2],
              !.info = [@ EXCEPT !.actualSize = 2, !.crcDigest = region]]

overrideRaw(p, k, v) ==
    LET region == <<ItemSizeHolder, Pair(k, v)>>
    IN  /\ data' = [i \in DOMAIN data |-> IF i <= 2 THEN region[i] ELSE data[i]]
        /\ inst' = [inst EXCEPT ![p] = overridden(@, k, region)]
        /\ pc' = [pc EXCEPT ![p] = "crc"]
        /\ UNCHANGED <<meta, ex, sh, op, buf, res>>

\* fullWritebackGrow encodes the whole map before it touches the file.
StartWriteback(p, map) ==
    /\ buf' = [buf EXCEPT ![p] = encodeRegion(map)]
    /\ pc' = [pc EXCEPT ![p] = "grow"]
    /\ UNCHANGED <<data, meta, inst, ex, sh, op, res>>

fastOK(m) == ~m.needFullWriteback /\ m.info.version >= versionFlag

\* Mutants: a store shared with other processes is overridden too; a store
\* with other keys is.
CanOverrideShared(m, k) ==
    /\ fastOK(m) /\ HeaderSize + 2 <= m.size
    /\ \/ DictKeys(m) = {k}
       \/ DictKeys(m) = {} /\ m.actualSize > 0
CanOverrideOthers(m, k) ==
    fastOK(m) /\ ~MultiProcess /\ HeaderSize + 2 <= m.size /\ m.actualSize > 0

CanOverride(m, k) ==
    /\ fastOK(m) /\ ~MultiProcess /\ HeaderSize + 2 <= m.size
    /\ \/ DictKeys(m) = {k}
       \/ DictKeys(m) = {} /\ m.actualSize > 0

\* Mutant: the space left in the mapping is not compared.
CanAppendAnywhere(m) == fastOK(m) /\ DictKeys(m) # {}

CanAppend(m) == fastOK(m) /\ 1 <= spaceLeft(m) /\ DictKeys(m) # {}

\* compareBeforeSet: the stored value already equals the new one.
Redundant(p) == p \in Comparing /\ Visible(p)[op[p].key] = op[p].val

SkipSet(p) ==
    /\ In(p, "set") /\ Redundant(p)
    /\ pc' = [pc EXCEPT ![p] = "unlock"]
    /\ UNCHANGED <<data, meta, inst, ex, sh, op, buf, res>>

SetByOverride(p) ==
    /\ In(p, "set") /\ ~Redundant(p) /\ CanOverride(inst[p], op[p].key)
    /\ overrideRaw(p, op[p].key, op[p].val)

SetByAppend(p) ==
    /\ In(p, "set") /\ ~Redundant(p)
    /\ ~CanOverride(inst[p], op[p].key) /\ CanAppend(inst[p])
    /\ appendRaw(p, Pair(op[p].key, op[p].val),
                 [inst[p].dict EXCEPT ![op[p].key] = inst[p].actualSize + 1])

SetByWriteback(p) ==
    /\ In(p, "set") /\ ~Redundant(p)
    /\ ~CanOverride(inst[p], op[p].key) /\ ~CanAppend(inst[p])
    /\ StartWriteback(p, [Visible(p) EXCEPT ![op[p].key] = op[p].val])

CanBury(m) == fastOK(m) /\ 1 <= spaceLeft(m) /\ m.actualSize > 0

RemoveByTombstone(p) ==
    /\ In(p, "remove") /\ op[p].key \in DictKeys(inst[p]) /\ CanBury(inst[p])
    /\ appendRaw(p, Tombstone(op[p].key), [inst[p].dict EXCEPT ![op[p].key] = 0])

RemoveByWriteback(p) ==
    /\ In(p, "remove") /\ op[p].key \in DictKeys(inst[p]) /\ ~CanBury(inst[p])
    /\ StartWriteback(p, [Visible(p) EXCEPT ![op[p].key] = NoVal])

RemoveMany(p) ==
    /\ In(p, "removeMany") /\ op[p].keys \cap DictKeys(inst[p]) # {}
    /\ StartWriteback(p, [k \in Keys |-> IF k \in op[p].keys
                                         THEN NoVal ELSE Visible(p)[k]])

RemoveNothing(p) ==
    /\ \/ In(p, "remove") /\ op[p].key \notin DictKeys(inst[p])
       \/ In(p, "removeMany") /\ op[p].keys \cap DictKeys(inst[p]) = {}
    /\ pc' = [pc EXCEPT ![p] = "unlock"]
    /\ UNCHANGED <<data, meta, inst, ex, sh, op, buf, res>>

\* Mutant: truncate forgets the new size.
truncatedKeepsSize(m, n) == m

\* memoryFile.truncate, seen from the instance and from the file.
truncated(m, n) ==
    IF pageRoundUp(n) = m.size THEN m
    ELSE [m EXCEPT !.size = pageRoundUp(n), !.dangling = TRUE]
truncatedFile(m, n) ==
    IF pageRoundUp(n) = m.size THEN data
    ELSE Resize(data, pageRoundUp(n) - HeaderSize)

\* clearAllLocked up to the store to the meta file; Trim of an empty store
\* ends here too.
ClearAll(p) ==
    /\ In(p, "clear") \/ (In(p, "trim") /\ inst[p].actualSize = 0)
    /\ data' = truncatedFile(inst[p], 0)
    /\ inst' = [inst EXCEPT ![p] = [truncated(@, 0) EXCEPT
                    !.dict = EmptyDict, !.actualSize = 0, !.crcDigest = <<>>]]
    /\ buf' = [buf EXCEPT ![p] = <<>>]
    /\ pc' = [pc EXCEPT ![p] = "meta"]
    /\ UNCHANGED <<meta, ex, sh, op, res>>

TrimCompact(p) ==
    /\ In(p, "trim") /\ inst[p].actualSize > 0
    /\ StartWriteback(p, Visible(p))

-----------------------------------------------------------------------------
(***************************************************************************)
(* The stores to the mapped files.                                         *)
(***************************************************************************)
\* The end of appendRaw and overrideRaw: the CRC first, then the size.
StoreCRC(p) ==
    /\ pc[p] = "crc"
    /\ meta' = [meta EXCEPT !.crcDigest = inst[p].crcDigest]
    /\ pc' = [pc EXCEPT ![p] = "size"]
    /\ UNCHANGED <<data, inst, ex, sh, op, buf, res>>

StoreActualSize(p) ==
    /\ pc[p] = "size"
    /\ meta' = [meta EXCEPT !.actualSize = inst[p].actualSize]
    /\ pc' = [pc EXCEPT ![p] = "unlock"]
    /\ UNCHANGED <<data, inst, ex, sh, op, buf, res>>

\* The pair that made a set write back, in slots, and needSync.
Incoming(p) == IF op[p].kind = "set" THEN 1 ELSE 0
NeedSync(p) == op[p].kind # "set" \/ DictKeys(inst[p]) # {}

Growing(p) == MustGrow(inst[p].size, Len(buf[p]), Len(buf[p]) - 1,
                       Incoming(p), NeedSync(p))

Grow(p) ==
    /\ pc[p] = "grow" /\ Growing(p)
    /\ \E n \in DoubledPast(inst[p].size,
                    GrowTarget(Len(buf[p]), Len(buf[p]) - 1, Incoming(p))) :
          /\ data' = truncatedFile(inst[p], n)
          /\ inst' = [inst EXCEPT ![p] = truncated(@, n)]
    /\ pc' = [pc EXCEPT ![p] = "region"]
    /\ UNCHANGED <<meta, ex, sh, op, buf, res>>

KeepSize(p) ==
    /\ pc[p] = "grow" /\ ~Growing(p)
    /\ pc' = [pc EXCEPT ![p] = "region"]
    /\ UNCHANGED <<data, meta, inst, ex, sh, op, buf, res>>

StoreRegion(p) ==
    /\ pc[p] = "region"
    /\ data' = [i \in DOMAIN data |->
                    IF i <= Len(buf[p]) THEN buf[p][i] ELSE data[i]]
    /\ inst' = [inst EXCEPT ![p] = [@ EXCEPT !.actualSize = Len(buf[p]),
                                             !.crcDigest = buf[p]]]
    /\ pc' = [pc EXCEPT ![p] = "meta"]
    /\ UNCHANGED <<meta, ex, sh, op, buf, res>>

\* Mutants: the sequence stands still; the version is bumped instead of set.
NextInfoSameSequence(m) ==
    [m.info EXCEPT !.version = versionFlag,
                   !.actualSize = m.actualSize, !.crcDigest = m.crcDigest,
                   !.lastActualSize = m.actualSize,
                   !.lastCRCDigest = m.crcDigest]
NextInfoBumpsVersion(m) == [m.info EXCEPT !.sequence = @ + 1, !.version = @ + 1]

\* The meta image a write-back or a clear stores: the sequence moves on and
\* the last-confirmed snapshot becomes the new region.
NextInfo(m) ==
    [m.info EXCEPT !.sequence = @ + 1, !.version = versionFlag,
                   !.actualSize = m.actualSize, !.crcDigest = m.crcDigest,
                   !.lastActualSize = m.actualSize,
                   !.lastCRCDigest = m.crcDigest]

StoreMeta(p) ==
    /\ pc[p] = "meta"
    /\ meta' = NextInfo(inst[p])
    /\ inst' = [inst EXCEPT ![p] =
                  [@ EXCEPT !.info = NextInfo(inst[p]),
                            !.dict = parseDict(buf[p]),
                            !.needFullWriteback = FALSE, !.dangling = FALSE]]
    /\ pc' = [pc EXCEPT ![p] = IF op[p].kind = "trim" /\ buf[p] # <<>>
                               THEN "shrink" ELSE "unlock"]
    /\ UNCHANGED <<data, ex, sh, op, buf, res>>

\* Mutant: the dictionary is not decoded again after the truncate.
ShrinkKeepsViews(p) ==
    /\ pc[p] = "shrink"
    /\ \E t \in HalvedTo(inst[p].size, inst[p].actualSize + HeaderSize) :
          LET target == IF t < PageSize THEN PageSize ELSE t
          IN  IF target >= inst[p].size
              THEN UNCHANGED <<data, inst>>
              ELSE /\ data' = truncatedFile(inst[p], target)
                   /\ inst' = [inst EXCEPT ![p] = truncated(@, target)]
    /\ pc' = [pc EXCEPT ![p] = "unlock"]
    /\ UNCHANGED <<meta, ex, sh, op, buf, res>>

\* The second half of Trim: halve the file towards twice the live size.
Shrink(p) ==
    /\ pc[p] = "shrink"
    /\ \E t \in HalvedTo(inst[p].size, inst[p].actualSize + HeaderSize) :
          LET target == IF t < PageSize THEN PageSize ELSE t
              file == truncatedFile(inst[p], target)
          IN  IF target >= inst[p].size
              THEN UNCHANGED <<data, inst>>
              ELSE /\ data' = file
                   /\ inst' = [inst EXCEPT ![p] =
                        [truncated(@, target) EXCEPT
                            !.dict = parseDict(Region(file, inst[p].actualSize)),
                            !.dangling = FALSE]]
    /\ pc' = [pc EXCEPT ![p] = "unlock"]
    /\ UNCHANGED <<meta, ex, sh, op, buf, res>>

-----------------------------------------------------------------------------
(***************************************************************************)
(* The system: every process has opened the store while it was quiescent.  *)
(* A store the C++ library wrote at version 3 has no last-confirmed        *)
(* snapshot.                                                               *)
(***************************************************************************)
StoredInfo(version, region) ==
    [crcDigest |-> region, version |-> version,
     sequence |-> IF version = 0 THEN 0 ELSE 1,
     actualSize |-> Len(region),
     lastActualSize |-> IF version = 4 THEN Len(region) ELSE 0,
     lastCRCDigest |-> IF version = 4 THEN region ELSE <<>>]

Opened(info, region, recover) ==
    [info |-> info, dict |-> parseDict(region), actualSize |-> Len(region),
     crcDigest |-> region, needLoad |-> FALSE, needFullWriteback |-> FALSE,
     recover |-> recover, size |-> PageSize, dangling |-> FALSE]

InitWith(version, region) ==
    /\ HeaderSize + Len(region) <= PageSize
    /\ data = Resize(region, PageSize - HeaderSize)
    /\ meta = StoredInfo(version, region)
    /\ inst = [p \in Procs |-> Opened(meta, region, p \in Recovering)]
    /\ ex = [p \in Procs |-> 0] /\ sh = [p \in Procs |-> 0]
    /\ pc = [p \in Procs |-> "idle"]
    /\ op = [p \in Procs |-> NoCall]
    /\ buf = [p \in Procs |-> <<>>]
    /\ res = [p \in Procs |-> <<>>]

Init == \/ InitWith(0, <<>>)
        \/ \E version \in {3, 4}, map \in InitMaps :
              InitWith(version, encodeRegion(map))

\* What a process does inside a call.
Step(p) ==
    \/ RejectReadOnly(p) \/ checkLoadData(p) \/ Get(p)
    \/ SkipSet(p) \/ SetByOverride(p) \/ SetByAppend(p) \/ SetByWriteback(p)
    \/ RemoveByTombstone(p) \/ RemoveByWriteback(p)
    \/ RemoveMany(p) \/ RemoveNothing(p)
    \/ ClearAll(p) \/ TrimCompact(p) \/ Shrink(p)
    \/ StoreCRC(p) \/ StoreActualSize(p)
    \/ Grow(p) \/ KeepSize(p) \/ StoreRegion(p) \/ StoreMeta(p)
    \/ End(p)

Next == \E p \in Procs :
            \/ Lock(p) \/ Unlock(p) \/ ClearMemoryCache(p)
            \/ \E c \in Calls : BeginRead(p, c) \/ BeginWrite(p, c)
            \/ Step(p)

Spec == Init /\ [][Next]_vars

-----------------------------------------------------------------------------
(***************************************************************************)
(* Properties.                                                             *)
(***************************************************************************)
\* p has changed bytes of the stored region, or half of the meta, and not yet
\* the rest.
Torn(p) == pc[p] \in {"crc", "size", "meta"}
Quiet == \A p \in Procs : ~Torn(p)
Stored == Region(data, meta.actualSize)

\* The CRC kept incrementally by appendRaw, over writes of any number of
\* processes, is the CRC of the bytes in the file whenever no store is under
\* way; a process that loads now accepts the file.
DigestMatchesRegion == Quiet => meta.crcDigest = Stored

\* After checkLoadData, with the lock held, the views of the instance show
\* exactly what is stored, whoever wrote it last: the probe of sequence, crc
\* and actualSize never misses a change.
ViewsAreFresh ==
    \A p \in Procs : pc[p] = "body" =>
        /\ Visible(p) = Contents(Stored)
        /\ inst[p].actualSize = meta.actualSize
        /\ inst[p].crcDigest = meta.crcDigest

\* An instance that got past checkLoadData has mapped the file as it is: no
\* access faults behind a shrunk end and no append misses a grown one.
MappingIsFile ==
    \A p \in Procs :
        pc[p] \notin {"idle", "check", "unlock"} => inst[p].size = FileSize

\* No view is read after its mapping was replaced by truncate or remap.
NoDanglingViews ==
    \A p \in Procs :
        pc[p] = "body" => ~inst[p].dangling \/ DictKeys(inst[p]) = {}

\* While all processes live, loadData always accepts the current region: it
\* never rolls back, salvages or discards what another process wrote.
NoSpuriousRecovery ==
    \A p \in Procs : pc[p] = "check" =>
        /\ CurrentOK([remap(inst[p]) EXCEPT !.info = meta])
        /\ NewAppend(p) /\ ~NewSequence(p) =>
               CurrentOK([inst[p] EXCEPT !.info = meta])

\* The region a write-back stores, or an append extends, fits the mapping.
RegionFits ==
    \A p \in Procs :
        /\ pc[p] = "region" => HeaderSize + Len(buf[p]) <= inst[p].size
        /\ pc[p] \in {"crc", "size", "unlock"} /\ op[p] \in WriteCalls
              /\ p \notin ReadOnly
              => HeaderSize + inst[p].actualSize <= inst[p].size

\* Appends keep the bytes of the last-confirmed snapshot, so that a torn one
\* can be rolled back to it (meta.go, metaInfo).
LastConfirmedIntact ==
    (\A p \in Procs : pc[p] # "meta") =>
        Region(data, meta.lastActualSize) = meta.lastCRCDigest

\* As long as the sequence stands still, the views an instance already has
\* keep showing what it loaded: only a write that moves the sequence on may
\* reuse the slots.
SameSequencePreservesViews ==
    (\A p \in Procs : pc[p] # "meta") =>
        \A q \in Procs : inst[q].info.sequence = meta.sequence =>
            Visible(q) = Contents(inst[q].crcDigest)

(***************************************************************************)
(* The store implements the shared map.  A call takes effect when it       *)
(* decides what to write; nobody else can look before it has written.      *)
(***************************************************************************)
Writing(p) == pc[p] \in {"crc", "size", "grow", "region", "meta"}
Pending(p) == IF pc[p] \in {"crc", "size"} THEN inst[p].crcDigest ELSE buf[p]
kv == IF \E p \in Procs : Writing(p)
      THEN Contents(Pending(CHOOSE p \in Procs : Writing(p)))
      ELSE Contents(Stored)

Holds(p) == ex[p] > (IF op[p] \in WriteCalls THEN 1 ELSE 0)
owner == IF \E p \in Procs : Holds(p) THEN CHOOSE p \in Procs : Holds(p)
                                     ELSE "nobody"

Map == INSTANCE KVMap WITH Nobody <- "nobody"

\* Every read returns the latest completed write of any process, every write
\* takes effect exactly once and whole, and Lock excludes the others: the
\* multi-process protocol implements one shared map.
ImplementsMap == Map!Spec
=============================================================================
