--------------------------- MODULE MMKVCrashProofs ---------------------------
(***************************************************************************)
(* Proofs about MMKVCrash.  For any processes: the types, and the flock    *)
(* discipline, survive kills, restarts and damaged bytes.  For a process   *)
(* that is alone on its store, in either mode, killed at any store and     *)
(* restarted any number of times: what its loads show, and what its        *)
(* completed calls leave.                                                  *)
(***************************************************************************)
EXTENDS MMKVCrash, MMKVCoherence

-----------------------------------------------------------------------------
(***************************************************************************)
(* Types.                                                                  *)
(***************************************************************************)
LEMMA GoneType ==
    /\ Gone \in Instance /\ ~Gone.needLoad /\ ~Gone.needFullWriteback
    /\ ~Gone.recover
<1>1. <<>> \in Seq(Slot) /\ Len(<<>>) = 0
  OBVIOUS
<1>2. StoredInfo(0, <<>>) \in MetaInfo
  BY <1>1 DEF StoredInfo, MetaInfo
<1>3. parseDict(<<>>) \in [Keys -> Nat] /\ PageSize \in Nat
  BY ParseDictType, StoreAssumption
<1> QED
  BY <1>1, <1>2, <1>3, Zenon DEF Gone, Opened, Instance

\* A half-stored meta image has every field from the old or the new one.
LEMMA PartOfMetaFields ==
    ASSUME TypeOK, NEW q \in Procs, NEW info \in PartOfMeta(q)
    PROVE  /\ info \in MetaInfo
           /\ info.crcDigest \in {meta.crcDigest, NextInfo(inst[q]).crcDigest}
           /\ info.lastCRCDigest \in
                  {meta.lastCRCDigest, NextInfo(inst[q]).lastCRCDigest}
<1>1. meta \in MetaInfo /\ NextInfo(inst[q]) \in MetaInfo
  BY NextInfoType DEF TypeOK
<1>2. PICK F : info = [f \in DOMAIN meta |->
                          IF f \in F THEN NextInfo(inst[q])[f] ELSE meta[f]]
  BY Zenon DEF PartOfMeta
<1> DEFINE new == NextInfo(inst[q])
<1> HIDE DEF new
<1>3. /\ info = [f \in DOMAIN meta |-> IF f \in F THEN new[f] ELSE meta[f]]
      /\ new \in MetaInfo
  BY <1>1, <1>2 DEF new
<1>4. DOMAIN meta = {"crcDigest", "version", "sequence", "actualSize",
                     "lastActualSize", "lastCRCDigest"}
  BY <1>1 DEF MetaInfo
<1>5. info \in MetaInfo
  BY <1>1, <1>3, <1>4, SMTT(30) DEF MetaInfo
<1>6. /\ info.crcDigest \in {meta.crcDigest, new.crcDigest}
      /\ info.lastCRCDigest \in {meta.lastCRCDigest, new.lastCRCDigest}
  BY <1>1, <1>3, <1>4 DEF MetaInfo
<1> QED
  BY <1>5, <1>6 DEF new

\* A half-stored region or item leaves a file of the same length.
LEMMA PartOfRegionType ==
    ASSUME TypeOK, NEW p \in Procs, NEW file \in PartOfRegion(p)
    PROVE  file \in Seq(Slot) /\ Len(file) = Len(data)
<1>1. PICK S \in SUBSET Changed(p), torn \in {0} \cup Changed(p) :
        file = [i \in DOMAIN data |-> IF i \in S THEN buf[p][i]
                                      ELSE IF i = torn THEN Junk ELSE data[i]]
  BY SMTT(30) DEF PartOfRegion
<1>2. buf[p] \in Seq(Slot) /\ Junk \in Slot
  BY SlotTypes DEF TypeOK
<1>3. \A i \in S : buf[p][i] \in Slot
  BY <1>1, <1>2 DEF Changed
<1>4. PICK k \in Nat : data \in [1..k -> Slot]
  BY DEF TypeOK
<1>5. file \in [1..k -> Slot]
  BY <1>1, <1>2, <1>3, <1>4
<1> QED
  BY <1>4, <1>5

LEMMA PartOfItemType ==
    ASSUME TypeOK, NEW p \in Procs, NEW file \in PartOfItem(p)
    PROVE  /\ file \in Seq(Slot) /\ Len(file) = Len(data)
           /\ \A i \in 1..Len(data) :
                 i # inst[p].actualSize => file[i] = data[i]
<1>1. data \in Seq(Slot) /\ Junk \in Slot
  BY SlotTypes DEF TypeOK
<1> QED
  BY <1>1 DEF PartOfItem

LEMMA ContentsType == ASSUME NEW r \in Seq(Slot) PROVE Contents(r) \in Maps
  BY DerefType, ParseDictType DEF Contents

LEMMA CallLocked ==
    ASSUME Locked, NEW p \in Procs, Call(p)
    PROVE  Locked'
<1>1. Next
  BY CoreAssumption, Zenon DEF Call, Next
<1> QED
  BY <1>1, NextLocked, Zenon

LEMMA CallTyped ==
    ASSUME Locked, CrashTypeOK, NEW p \in Procs, Call(p)
    PROVE  CrashTypeOK'
<1>1. TypeOK'
  BY CallLocked, Zenon DEF Locked
<1>2. Deref(data', inst'[p].dict) \in Maps
  <2>1. data' \in Seq(Slot) /\ inst'[p] \in Instance
    BY <1>1 DEF TypeOK
  <2> QED
    BY <2>1, DerefType DEF Instance
<1>3. Track(p)
  BY Zenon DEF Call
<1> QED
  BY <1>1, <1>2, <1>3 DEF CrashTypeOK, Track

\* A process that dies or closes the store gives up its locks.
LEMMA LeaveLocked ==
    ASSUME Locked, NEW p \in Procs, Leave(p), data' \in Seq(Slot),
           meta' \in MetaInfo
    PROVE  Locked'
<1>1. TypeOK'
  <2>1. Gone \in Instance /\ <<>> \in Seq(Slot) /\ <<>> \in Seq(Maps)
    BY GoneType
  <2> QED
    BY <2>1 DEF Leave, Locked, TypeOK, Steps, OpenSteps
<1>2. Exclusive'
  BY DEF Leave, Locked, TypeOK, Exclusive
<1>3. ASSUME NEW q \in Procs PROVE Held(q)'
  BY CallKinds DEF Leave, Locked, TypeOK, Held, OpenSteps
<1> QED
  BY <1>1, <1>2, <1>3 DEF Locked

LEMMA KillTyped ==
    ASSUME Locked, CrashTypeOK, NEW p \in Procs, Kill(p)
    PROVE  Locked' /\ CrashTypeOK'
<1>1. data' \in Seq(Slot) /\ Len(data') = Len(data)
  BY PartOfRegionType, PartOfItemType DEF Kill, Locked, TypeOK
<1>2. meta' \in MetaInfo
  BY PartOfMetaFields DEF Kill, Locked, TypeOK
<1>3. Locked'
  BY <1>1, <1>2, LeaveLocked DEF Kill
<1>4. Contents(Pending(p)) \in Maps /\ Contents(buf[p]) \in Maps
  BY ContentsType, FieldTypes DEF Pending, Locked
<1>5. DamageBy(p) \in {"none", "append", "rewrite"}
  BY DEF DamageBy
<1>6. kills' \in 0..MaxKills
  BY CrashAssumption DEF Kill, CrashTypeOK
<1>7. may' \subseteq Maps /\ confirmed' \subseteq Maps
  BY <1>4 DEF Kill, CrashTypeOK
<1>8. damage' \in {"none", "append", "rewrite"}
  BY <1>5 DEF Kill, CrashTypeOK
<1> QED
  BY <1>3, <1>6, <1>7, <1>8 DEF CrashTypeOK, Locked

LEMMA CorruptTyped ==
    ASSUME Locked, CrashTypeOK, NEW i \in DOMAIN data, Corrupt(i)
    PROVE  Locked' /\ CrashTypeOK'
<1>1. data' \in Seq(Slot)
  BY SlotTypes DEF Corrupt, Locked, TypeOK
<1>2. TypeOK'
  BY <1>1 DEF Corrupt, Locked, TypeOK
<1>3. Locked'
  BY <1>2 DEF Corrupt, Locked, Exclusive, Held
<1>4. kills' \in 0..MaxKills
  BY CrashAssumption DEF Corrupt, CrashTypeOK
<1> QED
  BY <1>2, <1>3, <1>4 DEF Corrupt, CrashTypeOK

LEMMA DecodingType ==
    ASSUME NEW m \in Instance,
           NEW how \in {"accept", "rollback", "salvage", "discard"}
    PROVE  Decoding(m, how) \in Instance
<1>1. CASE how = "accept"
  BY <1>1, DecodedType, Zenon DEF Decoding
<1>2. CASE how = "rollback"
  BY <1>2, DecodedType DEF Decoding
<1>3. CASE how = "salvage"
  BY <1>3, DecodedType DEF Decoding
<1>4. CASE how = "discard"
  BY <1>4, DecodedType DEF Decoding
<1> QED
  BY <1>1, <1>2, <1>3, <1>4

LEMMA StepNames ==
    /\ \A next \in {"open", "load", "accept", "rollback", "salvage", "discard",
                      "repair", "idle"} : next \in OpenSteps \cup {"idle"}
    /\ \A here \in {"closed", "open", "load", "accept", "rollback", "salvage",
                      "discard", "repair"} : here \in OpenSteps
    /\ OpenSteps \subseteq Steps /\ "idle" \in Steps
  BY DEF Steps, OpenSteps

\* The steps of open, up to the repair, run without the flock and change only
\* the instance.
LEMMA OpenLocked ==
    ASSUME Locked, CrashTypeOK, NEW p \in Procs, NEW m \in Instance,
           NEW next \in OpenSteps \cup {"idle"}, pc[p] \in OpenSteps,
           inst' = [inst EXCEPT ![p] = m], pc' = [pc EXCEPT ![p] = next],
           UNCHANGED <<data, meta, ex, sh, op, buf, res, crashVars>>
    PROVE  Locked' /\ CrashTypeOK'
<1>1. TypeOK'
  BY StepNames DEF Locked, TypeOK
<1>2. Exclusive'
  BY DEF Locked, Exclusive
<1>3. ASSUME NEW q \in Procs PROVE Held(q)'
  <2>1. CASE q = p
    BY <2>1, CallKinds DEF Locked, TypeOK, Held, OpenSteps
  <2>2. CASE q # p
    BY <2>2 DEF Locked, TypeOK, Held
  <2> QED
    BY <2>1, <2>2
<1> QED
  BY <1>1, <1>2, <1>3 DEF Locked, CrashTypeOK, crashVars

LEMMA RepairLocked ==
    ASSUME Locked, NEW p \in Procs, OpenRepair(p)
    PROVE  Locked'
<1>1. encodeRegion(Visible(p)) \in Seq(Slot)
  BY VisibleType, EncodeType DEF Locked
<1>2. TypeOK'
  BY <1>1 DEF OpenRepair, Locked, TypeOK, Steps, OpenSteps
<1>3. Exclusive'
  BY DEF OpenRepair, Locked, TypeOK, Exclusive, Others
<1>4. ASSUME NEW q \in Procs PROVE Held(q)'
  <2>1. CASE q = p
    <3>1. op'[q] = RepairCall /\ pc'[q] = "grow"
      BY <2>1 DEF OpenRepair, Locked, TypeOK
    <3>2. MultiProcess => ex'[q] > 0
      BY <2>1 DEF OpenRepair, Locked, TypeOK
    <3> QED
      BY <3>1, <3>2, CallKinds DEF Held, OpenSteps
  <2>2. CASE q # p
    BY <2>2 DEF OpenRepair, Locked, TypeOK, Held
  <2> QED
    BY <2>1, <2>2
<1> QED
  BY <1>2, <1>3, <1>4 DEF Locked

LEMMA OpenTyped ==
    ASSUME Locked, CrashTypeOK, NEW p \in Procs, Open(p)
    PROVE  Locked' /\ CrashTypeOK'
<1>1. TypeOK /\ inst[p] \in Instance /\ FileSize \in Nat
  BY FieldTypes, Zenon DEF Locked
<1>2. CASE OpenMap(p)
  <2>1. PICK recover \in BOOLEAN :
          inst' = [inst EXCEPT ![p].size = FileSize, ![p].recover = recover]
    BY <1>2, Zenon DEF OpenMap
  <2> DEFINE m == [[inst[p] EXCEPT !.size = FileSize] EXCEPT !.recover = recover]
  <2>2. m \in Instance
    BY <1>1, Zenon DEF Instance
  <2>3. inst' = [inst EXCEPT ![p] = m]
    BY <2>1, Zenon
  <2> HIDE DEF m
  <2> QED
    BY <1>2, <2>2, <2>3, OpenLocked, StepNames, Zenon DEF OpenMap
<1>3. CASE OpenReadMeta(p)
  <2>1. meta \in MetaInfo /\ \A q \in Procs : PartOfMeta(q) \subseteq MetaInfo
    BY <1>1, PartOfMetaFields, Zenon DEF TypeOK
  <2>2. PICK info \in {meta} \cup
                 UNION {PartOfMeta(q) : q \in {r \in Procs : pc[r] = "meta"}} :
          inst' = [inst EXCEPT ![p].info = info]
    BY <1>3, Zenon DEF OpenReadMeta
  <2> DEFINE m == [inst[p] EXCEPT !.info = info]
  <2>3. m \in Instance
    <3>1. info \in MetaInfo
      BY <2>1, <2>2, Zenon
    <3> QED
      BY <1>1, <3>1, Zenon DEF Instance
  <2>4. inst' = [inst EXCEPT ![p] = m]
    BY <2>2, Zenon
  <2> HIDE DEF m
  <2> QED
    BY <1>3, <2>3, <2>4, OpenLocked, StepNames, ZenonT(30) DEF OpenReadMeta
<1>4. CASE OpenCheck(p)
  <2>1. inst' = [inst EXCEPT ![p] = inst[p]]
    BY <1>1, <1>4, Zenon DEF OpenCheck, TypeOK
  <2>2. PICK next \in {"accept", "rollback", "salvage", "discard"} :
          pc' = [pc EXCEPT ![p] = next]
    BY <1>4, Zenon DEF OpenCheck
  <2>3. next \in OpenSteps \cup {"idle"} /\ pc[p] \in OpenSteps
    BY <1>4, StepNames, Zenon DEF OpenCheck
  <2> QED
    BY <1>1, <1>4, <2>1, <2>2, <2>3, OpenLocked, ZenonT(30) DEF OpenCheck
<1>5. CASE OpenDecode(p)
  <2> DEFINE m == Decoding(inst[p], pc[p])
  <2>1. m \in Instance /\ inst' = [inst EXCEPT ![p] = m]
    BY <1>1, <1>5, DecodingType, Zenon DEF OpenDecode
  <2>2. PICK next \in {"repair", "idle"} : pc' = [pc EXCEPT ![p] = next]
    BY <1>5, Zenon DEF OpenDecode
  <2>3. next \in OpenSteps \cup {"idle"} /\ pc[p] \in OpenSteps
    BY <1>5, StepNames, Zenon DEF OpenDecode
  <2> HIDE DEF m
  <2> QED
    BY <1>5, <2>1, <2>2, <2>3, OpenLocked, Zenon DEF OpenDecode
<1>6. CASE OpenRepair(p)
  <2>1. Locked' /\ UNCHANGED <<kills, may, confirmed, damage>>
    BY <1>6, RepairLocked, Zenon DEF OpenRepair, crashVars
  <2> QED
    BY <2>1, Zenon DEF CrashTypeOK, Locked
<1> QED
  BY <1>2, <1>3, <1>4, <1>5, <1>6, Zenon DEF Open

LEMMA InitTyped == CrashInit => Locked /\ CrashTypeOK
<1> SUFFICES ASSUME CrashInit PROVE Locked /\ CrashTypeOK
  OBVIOUS
<1>1. Basics
  BY InitBasics DEF CrashInit
<1>2. Locked /\ TypeOK
  BY <1>1, BasicsAre DEF Basics
<1>3. Contents(Stored) \in Maps /\ Contents(Region(data, meta.lastActualSize)) \in Maps
  BY <1>2, RegionType, ContentsType DEF Stored, TypeOK, MetaInfo
<1> QED
  BY <1>2, <1>3, CrashAssumption DEF CrashInit, CrashTypeOK

LEMMA RestartTyped ==
    Locked /\ CrashTypeOK /\ [RestartNext]_allVars => (Locked /\ CrashTypeOK)'
<1> SUFFICES ASSUME Locked, CrashTypeOK, [RestartNext]_allVars
             PROVE  Locked' /\ CrashTypeOK'
  OBVIOUS
<1>1. CASE UNCHANGED allVars
  <2>1. Locked'
    <3>1. UNCHANGED vars
      BY <1>1 DEF allVars
    <3> QED
      BY <3>1, NextLocked, Zenon
  <2> QED
    BY <1>1, <2>1 DEF allVars, crashVars, CrashTypeOK, Locked
<1>2. CASE RestartNext
  BY <1>2, CallLocked, CallTyped, KillTyped, OpenTyped, CorruptTyped, ZenonT(30)
     DEF RestartNext
<1> QED
  BY <1>1, <1>2

LEMMA RestartLocked == RestartSpec => [](Locked /\ CrashTypeOK)
  BY InitTyped, RestartTyped, PTL DEF RestartSpec

\* Every variable keeps its type whatever is killed, restarted or damaged, in
\* any number of processes (run restart).
THEOREM CrashTypeCorrect == RestartSpec => []CrashTypeOK
  BY RestartLocked, PTL

-----------------------------------------------------------------------------
(***************************************************************************)
(* A process alone on its store.                                           *)
(*                                                                         *)
(* A load depends on the files alone: on whether the current region and    *)
(* the last-confirmed one have the CRC the meta states.                    *)
(***************************************************************************)
Good(n, crc) == n + HeaderSize <= FileSize /\ Region(data, n) = crc
CurrentGood == Good(readActualSize(meta), meta.crcDigest)
SnapshotGood == Good(meta.lastActualSize, meta.lastCRCDigest)

\* The region a load decodes, if it salvages nothing.
Loads == IF CurrentGood THEN meta.crcDigest
         ELSE IF SnapshotGood THEN meta.lastCRCDigest
         ELSE <<>>

Headed(r) == Len(r) > 0 => r[1] = ItemSizeHolder

\* No store of p has begun to overwrite the region the meta describes.
Untorn(p) == \/ pc[p] \notin {"crc", "size", "meta"}
             \/ pc[p] = "crc" /\ Extends(p)

\* The digests in the meta are those of maps the history knows, and while
\* nothing has been torn the current region is good.
FilesKnown(p) ==
    /\ pc[p] # "size" => Contents(meta.crcDigest) \in may
    /\ Contents(meta.lastCRCDigest) \in confirmed
    /\ Headed(meta.crcDigest) /\ Headed(meta.lastCRCDigest)
    /\ damage = "none" /\ Untorn(p) => CurrentGood

\* An instance between its stores shows what a load would show, and would
\* salvage nothing.  After a rollback or a discard the files stay as they are
\* until the next write, so this is more than "the current region is good".
Settled(m) ==
    /\ m.size = FileSize /\ ~m.needFullWriteback
    /\ m.info.version = meta.version
    /\ ~m.needLoad => Decoded(m) /\ m.crcDigest = Loads
    /\ m.recover => CurrentGood \/ SnapshotGood

\* Between the bytes of an append or override and its size.
Extended(m) ==
    /\ m.size = FileSize /\ ~m.needLoad /\ ~m.needFullWriteback
    /\ m.info.version = versionFlag /\ meta.version = versionFlag
    /\ Decoded(m) /\ InFile(m.crcDigest) /\ Headed(m.crcDigest)

WritingBack(p) ==
    /\ inst[p].size = FileSize /\ ~inst[p].needLoad
    /\ Headed(buf[p])
    /\ op[p] = RepairCall => damage # "none"
    /\ pc[p] = "grow" => Len(buf[p]) > 0
    /\ pc[p] = "region" => HeaderSize + Len(buf[p]) <= FileSize
    /\ pc[p] = "meta" => /\ inst[p].crcDigest = buf[p]
                         /\ inst[p].actualSize = Len(buf[p])
                         /\ InFile(buf[p])

Opening(p) ==
    /\ ~inst[p].needLoad
    /\ pc[p] # "repair" => ~inst[p].needFullWriteback
    /\ pc[p] # "closed" => inst[p].size = FileSize
    /\ pc[p] \notin {"closed", "open", "repair"} => inst[p].info = meta
    /\ pc[p] = "accept" => CurrentGood
    /\ pc[p] = "rollback" => ~CurrentGood /\ SnapshotGood
    /\ pc[p] = "salvage" => ~CurrentGood /\ inst[p].recover
    /\ pc[p] = "discard" => ~CurrentGood /\ ~SnapshotGood /\ ~inst[p].recover
    /\ pc[p] = "repair" => damage # "none"

Knows(p) ==
    /\ inst[p].recover => p \in Recovering
    /\ pc[p] \in {"idle", "check", "body", "unlock", "shrink"} => Settled(inst[p])
    /\ pc[p] \in {"body", "shrink"} => ~inst[p].needLoad
    /\ pc[p] = "shrink" => CurrentGood
    /\ pc[p] \in {"crc", "size"} => Extended(inst[p])
    /\ pc[p] = "size" => meta.crcDigest = inst[p].crcDigest
    /\ pc[p] \in {"grow", "region", "meta"} => WritingBack(p)
    /\ pc[p] \in OpenSteps => Opening(p)

Restartable(p) == FilesKnown(p) /\ Knows(p)


-----------------------------------------------------------------------------
(***************************************************************************)
(* Loading.                                                                *)
(***************************************************************************)
LEMMA MetaTypes ==
    ASSUME TypeOK
    PROVE  /\ data \in Seq(Slot) /\ Len(data) \in Nat
           /\ HeaderSize \in Nat /\ HeaderSize > 0 /\ FileSize \in Nat
           /\ meta.version \in {0, 3, 4} /\ meta.actualSize \in Nat
           /\ readActualSize(meta) \in Nat /\ meta.lastActualSize \in Nat
           /\ meta.crcDigest \in Seq(Slot) /\ meta.lastCRCDigest \in Seq(Slot)
<1>1. data \in Seq(Slot) /\ meta \in MetaInfo
  BY DEF TypeOK
<1>2. /\ meta.version \in {0, 3, 4} /\ meta.actualSize \in Nat
      /\ meta.lastActualSize \in Nat
      /\ meta.crcDigest \in Seq(Slot) /\ meta.lastCRCDigest \in Seq(Slot)
  BY <1>1 DEF MetaInfo
<1>3. Len(data) \in Nat /\ HeaderSize \in Nat /\ HeaderSize > 0
  BY <1>1, StoreAssumption
<1> QED
  BY <1>1, <1>2, <1>3 DEF FileSize, readActualSize

\* What loadData accepts through a mapping of the whole file.
LEMMA LoadDecides ==
    ASSUME TypeOK, NEW m, m.size = FileSize, m.info = meta
    PROVE  /\ CurrentOK(m) <=> CurrentGood
           /\ LastConfirmedOK(m) <=> SnapshotGood
<1>1. ASSUME NEW n \in Nat, NEW crc
      PROVE  Acceptable(m, n, crc) <=> Good(n, crc)
  BY MetaTypes DEF Acceptable, Good
<1> QED
  BY <1>1, MetaTypes DEF CurrentOK, LastConfirmedOK, CurrentGood, SnapshotGood

\* A good region lies in the file and has the stated length.
LEMMA GoodInFile ==
    ASSUME TypeOK, NEW n \in Nat, NEW crc, Good(n, crc)
    PROVE  /\ crc \in Seq(Slot) /\ Len(crc) = n /\ Region(data, n) = crc
           /\ InFile(crc)
<1>1. Region(data, n) \in Seq(Slot) /\ Len(Region(data, n)) = n
  BY MetaTypes, RegionType
<1> QED
  BY <1>1, MetaTypes DEF Good, InFile

LEMMA LoadsInFile ==
    ASSUME TypeOK
    PROVE  Loads \in Seq(Slot) /\ InFile(Loads)
<1>1. <<>> \in Seq(Slot) /\ Len(<<>>) = 0 /\ Region(data, 0) = <<>>
  BY DEF Region
<1>2. InFile(<<>>)
  BY <1>1, MetaTypes DEF InFile, FileSize
<1>3. CurrentGood => meta.crcDigest \in Seq(Slot) /\ InFile(meta.crcDigest)
  BY MetaTypes, GoodInFile DEF CurrentGood
<1>4. SnapshotGood => meta.lastCRCDigest \in Seq(Slot) /\ InFile(meta.lastCRCDigest)
  BY MetaTypes, GoodInFile DEF SnapshotGood
<1> QED
  BY <1>1, <1>2, <1>3, <1>4 DEF Loads

LEMMA DecodeFields ==
    ASSUME NEW m \in Instance, NEW n, NEW crc
    PROVE  LET d == decodeRegion(m, n, crc)
           IN  /\ d.size = m.size /\ d.needLoad = m.needLoad
               /\ d.needFullWriteback = m.needFullWriteback
               /\ d.recover = m.recover /\ d.info = m.info
               /\ d.actualSize = n /\ d.crcDigest = crc
               /\ d.dict = parseDict(Region(data, n))
  BY DEF decodeRegion, Instance

\* A load that salvages nothing.
LEMMA LoadSettles ==
    ASSUME TypeOK, NEW m \in Instance, m.size = FileSize, m.info = meta,
           ~m.needLoad, ~m.needFullWriteback,
           m.recover => CurrentGood \/ SnapshotGood
    PROVE  /\ Settled(loadInto(m)) /\ ~loadInto(m).needLoad
           /\ loadInto(m).recover = m.recover
<1>1. /\ CurrentOK(m) <=> CurrentGood
      /\ LastConfirmedOK(m) <=> SnapshotGood
  BY LoadDecides, Zenon
<1>2. CASE CurrentGood
  <2> DEFINE n == readActualSize(meta)
             d == decodeRegion(m, n, meta.crcDigest)
  <2>1. loadInto(m) = d
    BY <1>1, <1>2 DEF loadInto
  <2>2. Len(meta.crcDigest) = n /\ Region(data, n) = meta.crcDigest
    BY <1>2, MetaTypes, GoodInFile, SMTT(30) DEF CurrentGood
  <2>3. /\ d.size = m.size /\ d.needLoad = m.needLoad
        /\ d.needFullWriteback = m.needFullWriteback
        /\ d.recover = m.recover /\ d.info = m.info
        /\ d.actualSize = n /\ d.crcDigest = meta.crcDigest
        /\ d.dict = parseDict(Region(data, n))
    BY DecodeFields
  <2> HIDE DEF d, n
  <2>4. Decoded(d) /\ d.crcDigest = Loads
    BY <1>2, <2>2, <2>3, SMTT(30) DEF Decoded, Loads
  <2> QED
    BY <1>2, <2>1, <2>3, <2>4 DEF Settled
<1>3. CASE ~CurrentGood /\ SnapshotGood
  <2> DEFINE n == meta.lastActualSize
             crc == meta.lastCRCDigest
             i == [m EXCEPT !.info.actualSize = n, !.info.crcDigest = crc]
             d == decodeRegion(i, n, crc)
  <2>1. loadInto(m) = d
    BY <1>1, <1>3 DEF loadInto, rollback
  <2>2. Len(crc) = n /\ Region(data, n) = crc /\ n \in Nat /\ crc \in Seq(Slot)
    BY <1>3, MetaTypes, GoodInFile DEF SnapshotGood
  <2>3. m.info \in MetaInfo
    BY DEF Instance
  <2> HIDE DEF n, crc
  <2>4. /\ i \in Instance /\ i.info.version = m.info.version
        /\ i.size = m.size /\ i.needLoad = m.needLoad
        /\ i.needFullWriteback = m.needFullWriteback /\ i.recover = m.recover
    BY <2>2, <2>3, ZenonT(30) DEF Instance, MetaInfo
  <2> HIDE DEF i
  <2>5. /\ d.size = i.size /\ d.needLoad = i.needLoad
        /\ d.needFullWriteback = i.needFullWriteback
        /\ d.recover = i.recover /\ d.info = i.info
        /\ d.actualSize = n /\ d.crcDigest = crc
        /\ d.dict = parseDict(Region(data, n))
    BY <2>4, DecodeFields
  <2> HIDE DEF d
  <2>6. Decoded(d) /\ d.crcDigest = Loads
    BY <1>3, <2>2, <2>5 DEF Decoded, Loads, crc
  <2> QED
    BY <1>3, <2>1, <2>4, <2>5, <2>6, SMTT(30) DEF Settled
<1>4. CASE ~CurrentGood /\ ~SnapshotGood
  <2> DEFINE d == discard(m)
  <2>1. loadInto(m) = d /\ ~m.recover
    BY <1>1, <1>4 DEF loadInto
  <2>2. /\ d.size = m.size /\ d.needLoad = m.needLoad
        /\ d.needFullWriteback = m.needFullWriteback
        /\ d.recover = m.recover /\ d.info = m.info
        /\ d.actualSize = 0 /\ d.crcDigest = <<>> /\ d.dict = EmptyDict
    BY DEF discard, Instance
  <2> HIDE DEF d
  <2>3. Decoded(d) /\ d.crcDigest = Loads
    BY <1>4, <2>2, ParseEmpty DEF Decoded, Loads, EmptyDict
  <2> QED
    BY <1>4, <2>1, <2>2, <2>3 DEF Settled
<1> QED
  BY <1>2, <1>3, <1>4


-----------------------------------------------------------------------------
(***************************************************************************)
(* Steps that store nothing.                                               *)
(***************************************************************************)
LEMMA CurrentStays ==
    ASSUME UNCHANGED <<data, meta>>
    PROVE  /\ CurrentGood' = CurrentGood /\ SnapshotGood' = SnapshotGood
           /\ Loads' = Loads /\ FileSize' = FileSize
  BY DEF CurrentGood, SnapshotGood, Good, Loads, FileSize, readActualSize

LEMMA FilesStay ==
    ASSUME NEW p \in Procs, FilesKnown(p), Untorn(p),
           UNCHANGED <<data, meta, may, confirmed, damage>>
    PROVE  FilesKnown(p)'
<1>1. CurrentGood' = CurrentGood
  BY CurrentStays
<1>2. pc[p] # "size"
  BY DEF Untorn
<1> QED
  BY <1>1, <1>2 DEF FilesKnown, Headed

LEMMA SettledStays ==
    ASSUME NEW p \in Procs, Settled(inst[p]), inst'[p] = inst[p],
           UNCHANGED <<data, meta>>
    PROVE  Settled(inst[p])'
  BY CurrentStays, ZenonT(30) DEF Settled, Decoded

\* The steps of a call that leave the files and the instance alone.
LEMMA MoveRestartable ==
    ASSUME NEW p \in Procs, Restartable(p),
           pc[p] \in {"idle", "check", "body", "unlock"},
           pc'[p] \in {"idle", "check", "unlock"},
           UNCHANGED <<data, meta, inst, may, confirmed, damage>>
    PROVE  Restartable(p)'
<1>1. FilesKnown(p)'
  <2>1. Untorn(p)
    BY DEF Untorn
  <2> QED
    BY <2>1, FilesStay, Zenon DEF Restartable
<1>2. Settled(inst[p])'
  <2>1. Settled(inst[p])
    BY Zenon DEF Restartable, Knows
  <2> QED
    BY <2>1, SettledStays, Zenon
<1>3. inst'[p].recover => p \in Recovering
  BY Zenon DEF Restartable, Knows
<1> QED
  BY <1>1, <1>2, <1>3 DEF Restartable, Knows, OpenSteps

LEMMA ClearCacheRestartable ==
    ASSUME TypeOK, NEW p \in Procs, Restartable(p), ClearMemoryCache(p),
           UNCHANGED <<may, confirmed, damage>>
    PROVE  Restartable(p)'
<1>1. /\ pc[p] = "idle" /\ pc'[p] = "idle" /\ UNCHANGED <<data, meta>>
      /\ inst[p] \in Instance
      /\ inst'[p] = [inst[p] EXCEPT !.dict = EmptyDict, !.actualSize = 0,
                                    !.crcDigest = <<>>, !.needLoad = TRUE]
  BY Zenon DEF ClearMemoryCache, TypeOK
<1>2. /\ inst'[p].size = inst[p].size /\ inst'[p].info = inst[p].info
      /\ inst'[p].recover = inst[p].recover /\ inst'[p].needLoad
      /\ inst'[p].needFullWriteback = inst[p].needFullWriteback
  BY <1>1 DEF Instance
<1>3. FilesKnown(p)'
  <2>1. Untorn(p)
    BY <1>1 DEF Untorn
  <2> QED
    BY <1>1, <2>1, FilesStay, Zenon DEF Restartable
<1>4. Settled(inst[p])'
  <2>1. Settled(inst[p])
    BY <1>1, Zenon DEF Restartable, Knows
  <2> QED
    BY <1>1, <1>2, <2>1, CurrentStays, ZenonT(30) DEF Settled
<1>5. inst'[p].recover => p \in Recovering
  BY <1>2, Zenon DEF Restartable, Knows
<1> QED
  BY <1>1, <1>3, <1>4, <1>5 DEF Restartable, Knows, OpenSteps

LEMMA CheckLoadRestartable ==
    ASSUME TypeOK, NEW p \in Procs, Restartable(p), checkLoadData(p),
           UNCHANGED <<may, confirmed, damage>>
    PROVE  Restartable(p)'
<1> DEFINE m == inst[p]
<1>1. /\ pc[p] = "check" /\ pc'[p] = "body" /\ UNCHANGED <<data, meta>>
      /\ m \in Instance /\ meta \in MetaInfo
      /\ inst'[p] = IF m.needLoad
                    THEN loadData(remap([m EXCEPT !.needLoad = FALSE]))
                    ELSE IF NewSequence(p) THEN loadData(remap(m))
                    ELSE IF NewAppend(p) THEN loadData(m)
                    ELSE m
  BY Zenon DEF checkLoadData, TypeOK
<1>2. Settled(m) /\ (m.recover => p \in Recovering)
  BY <1>1, Zenon DEF Restartable, Knows
<1>3. FilesKnown(p)'
  <2>1. Untorn(p)
    BY <1>1 DEF Untorn
  <2> QED
    BY <1>1, <2>1, FilesStay, Zenon DEF Restartable
<1> HIDE DEF m
<1>4. ASSUME NEW i \in Instance, i.size = m.size, ~i.needLoad,
             ~i.needFullWriteback, i.recover = m.recover
      PROVE  /\ Settled(loadData(i)) /\ ~loadData(i).needLoad
             /\ loadData(i).recover = m.recover
  <2> DEFINE l == [i EXCEPT !.info = meta]
  <2>1. /\ l \in Instance /\ l.size = FileSize /\ l.info = meta /\ ~l.needLoad
        /\ ~l.needFullWriteback /\ l.recover = m.recover
    <3>1. m.size = FileSize
      BY <1>2 DEF Settled
    <3> QED
      BY <1>1, <1>4, <3>1, ZenonT(30) DEF Instance
  <2>2. l.recover => CurrentGood \/ SnapshotGood
    BY <1>2, <2>1, Zenon DEF Settled
  <2>3. loadData(i) = loadInto(l)
    BY Zenon DEF loadData
  <2> HIDE DEF l
  <2> QED
    BY <2>1, <2>2, <2>3, LoadSettles, ZenonT(30)
<1>5. /\ remap([m EXCEPT !.needLoad = FALSE]) = [m EXCEPT !.needLoad = FALSE]
      /\ remap(m) = m
  <2>1. m.size = FileSize /\ [m EXCEPT !.needLoad = FALSE].size = FileSize
    BY <1>1, <1>2 DEF Settled, Instance
  <2> QED
    BY <2>1, Zenon DEF remap
<1>6. /\ [m EXCEPT !.needLoad = FALSE] \in Instance
      /\ [m EXCEPT !.needLoad = FALSE].size = m.size
      /\ ~[m EXCEPT !.needLoad = FALSE].needLoad
      /\ [m EXCEPT !.needLoad = FALSE].needFullWriteback = m.needFullWriteback
      /\ [m EXCEPT !.needLoad = FALSE].recover = m.recover
  BY <1>1, Zenon DEF Instance
<1>7. ~m.needFullWriteback
  BY <1>2, Zenon DEF Settled
<1>8. Settled(inst'[p]) /\ ~inst'[p].needLoad /\ inst'[p].recover = m.recover
  BY <1>1, <1>2, <1>4, <1>5, <1>6, <1>7, ZenonT(30)
<1>9. Settled(inst[p])'
  BY <1>1, <1>8, CurrentStays, Zenon DEF Settled, Decoded
<1> QED
  BY <1>1, <1>2, <1>3, <1>8, <1>9, SMTT(30) DEF Restartable, Knows, OpenSteps


-----------------------------------------------------------------------------
(***************************************************************************)
(* Appends and overrides.                                                  *)
(***************************************************************************)
LEMMA BodyFacts ==
    ASSUME TypeOK, NEW p \in Procs, Restartable(p), pc[p] \in {"body", "shrink"}
    PROVE  /\ inst[p].size = FileSize /\ ~inst[p].needLoad
           /\ ~inst[p].needFullWriteback /\ inst[p].info.version = meta.version
           /\ Decoded(inst[p]) /\ inst[p].crcDigest = Loads
           /\ InFile(inst[p].crcDigest) /\ Headed(inst[p].crcDigest)
<1>1. Settled(inst[p]) /\ ~inst[p].needLoad
  BY Zenon DEF Restartable, Knows
<1>2. InFile(Loads)
  BY LoadsInFile
<1>3. Headed(Loads)
  <2>1. Headed(<<>>)
    BY DEF Headed
  <2> QED
    BY <2>1, Zenon DEF Loads, Restartable, FilesKnown
<1> QED
  BY <1>1, <1>2, <1>3, Zenon DEF Settled

\* While nothing is torn the instance has the current region.
LEMMA Undamaged ==
    ASSUME TypeOK, NEW p \in Procs, Restartable(p), pc[p] \in {"body", "shrink"},
           CurrentGood
    PROVE  /\ inst[p].crcDigest = meta.crcDigest
           /\ inst[p].actualSize = readActualSize(meta)
           /\ Len(meta.crcDigest) = readActualSize(meta)
<1>1. inst[p].crcDigest = meta.crcDigest /\ inst[p].actualSize = Len(meta.crcDigest)
  BY BodyFacts DEF Loads, Decoded
<1>2. Len(meta.crcDigest) = readActualSize(meta)
  BY MetaTypes, GoodInFile, SMTT(30) DEF CurrentGood
<1> QED
  BY <1>1, <1>2

\* The step to "crc": the new region lies in the file, and an extended one has
\* left the bytes of the old.
LEMMA ToExtended ==
    ASSUME TypeOK, NEW p \in Procs, Restartable(p), pc[p] = "body",
           pc'[p] = "crc", UNCHANGED <<meta, may, confirmed, damage>>,
           fastOK(inst[p]), Len(data') = Len(data),
           inst'[p].size = inst[p].size, inst'[p].needLoad = inst[p].needLoad,
           inst'[p].needFullWriteback = inst[p].needFullWriteback,
           inst'[p].recover = inst[p].recover,
           inst'[p].info.version = inst[p].info.version,
           Decoded(inst'[p]), InFile(inst[p].crcDigest)',
           Headed(inst'[p].crcDigest),
           CurrentGood /\ Extends(p)' => CurrentGood'
    PROVE  Restartable(p)'
<1>1. FileSize' = FileSize
  BY SMTT(30) DEF FileSize
<1>2. inst[p].info.version = versionFlag /\ meta.version = versionFlag
  BY BodyFacts, MetaTypes DEF fastOK, versionFlag
<1>3. Extended(inst[p])'
  BY <1>1, <1>2, BodyFacts, Zenon DEF Extended, Decoded, Headed
<1>4. FilesKnown(p)'
  <2>1. damage = "none" => CurrentGood
    BY Zenon DEF Restartable, FilesKnown, Untorn
  <2>2. damage' = "none" /\ Untorn(p)' => CurrentGood'
    BY <2>1, Zenon DEF Untorn
  <2> QED
    BY <2>2, Zenon DEF Restartable, FilesKnown, Headed
<1>5. inst'[p].recover => p \in Recovering
  BY Zenon DEF Restartable, Knows
<1> QED
  BY <1>3, <1>4, <1>5, SMTT(30) DEF Restartable, Knows, OpenSteps

LEMMA AppendRestartable ==
    ASSUME TypeOK, TypeOK', NEW p \in Procs, Restartable(p), pc[p] = "body",
           fastOK(inst[p]), 1 <= spaceLeft(inst[p]), inst[p].actualSize > 0,
           NEW k \in Keys, NEW v \in Vals \cup {NoVal},
           appendRaw(p, Pair(k, v),
                     [inst[p].dict EXCEPT ![k] = IF v = NoVal THEN 0
                                                 ELSE inst[p].actualSize + 1]),
           UNCHANGED <<may, confirmed, damage>>
    PROVE  Restartable(p)'
<1>1. /\ inst[p].size = FileSize /\ Decoded(inst[p]) /\ InFile(inst[p].crcDigest)
      /\ Headed(inst[p].crcDigest)
  BY BodyFacts, Zenon
<1>2. /\ inst'[p].size = inst[p].size /\ inst'[p].needLoad = inst[p].needLoad
      /\ inst'[p].needFullWriteback = inst[p].needFullWriteback
      /\ inst'[p].recover = inst[p].recover
      /\ inst'[p].info.version = inst[p].info.version
      /\ inst'[p].crcDigest[1] = inst[p].crcDigest[1]
      /\ Decoded(inst'[p]) /\ InFile(inst[p].crcDigest)'
      /\ data' \in Seq(Slot) /\ Len(data') = Len(data)
      /\ \A i \in 1..inst[p].actualSize : data'[i] = data[i]
  BY <1>1, AppendResult, ZenonT(30)
<1>3. pc'[p] = "crc" /\ UNCHANGED meta
  BY ZenonT(30) DEF appendRaw, TypeOK
<1>4. Headed(inst'[p].crcDigest)
  <2>1. Len(inst[p].crcDigest) > 0
    BY <1>1, SMTT(30) DEF Decoded
  <2> QED
    BY <1>1, <1>2, <2>1, SMTT(30) DEF Headed
<1>5. CurrentGood => CurrentGood'
  <2> SUFFICES ASSUME CurrentGood PROVE CurrentGood'
    OBVIOUS
  <2> DEFINE n == readActualSize(meta)
  <2>1. inst[p].actualSize = n
    BY Undamaged, ZenonT(30)
  <2>2. n \in Nat /\ n <= Len(data) /\ data \in Seq(Slot)
        /\ n + HeaderSize <= FileSize /\ Region(data, n) = meta.crcDigest
    BY MetaTypes DEF CurrentGood, Good, FileSize
  <2>3. readActualSize(meta)' = n
    BY <1>3 DEF readActualSize
  <2> HIDE DEF n
  <2>4. Region(data', n) = Region(data, n)
    BY <1>2, <2>1, <2>2, SameFront, ZenonT(30)
  <2> QED
    BY <1>2, <1>3, <2>2, <2>3, <2>4, SMTT(30) DEF CurrentGood, Good, FileSize
<1> QED
  BY <1>2, <1>3, <1>4, <1>5, ToExtended, ZenonT(30)

LEMMA OverrideRestartable ==
    ASSUME TypeOK, TypeOK', NEW p \in Procs, Restartable(p), pc[p] = "body",
           NEW k \in Keys, NEW v \in Vals,
           CanOverride(inst[p], k), overrideRaw(p, k, v),
           UNCHANGED <<may, confirmed, damage>>
    PROVE  Restartable(p)'
<1>1. inst[p].size = FileSize /\ fastOK(inst[p])
  BY BodyFacts, Zenon DEF CanOverride
<1>2. /\ inst'[p].size = inst[p].size /\ inst'[p].needLoad = inst[p].needLoad
      /\ inst'[p].needFullWriteback = inst[p].needFullWriteback
      /\ inst'[p].recover = inst[p].recover
      /\ inst'[p].info.version = inst[p].info.version
      /\ inst'[p].actualSize = 2
      /\ inst'[p].crcDigest = <<ItemSizeHolder, Pair(k, v)>>
      /\ Decoded(inst'[p]) /\ InFile(inst[p].crcDigest)'
      /\ data' \in Seq(Slot) /\ Len(data') = Len(data) /\ 2 <= Len(data)
      /\ data'[1] = ItemSizeHolder
  BY <1>1, OverrideResult, ZenonT(30)
<1>3. pc'[p] = "crc" /\ UNCHANGED meta
  BY ZenonT(30) DEF overrideRaw, TypeOK
<1>4. Headed(inst'[p].crcDigest)
  BY <1>2, SMTT(30) DEF Headed
<1>5. CurrentGood /\ Extends(p)' => CurrentGood'
  <2> SUFFICES ASSUME CurrentGood, Extends(p)' PROVE CurrentGood'
    BY SMTT(30)
  <2> DEFINE n == readActualSize(meta)
  <2>1. n \in Nat /\ n <= Len(data) /\ data \in Seq(Slot) /\ Len(data) \in Nat
        /\ n + HeaderSize <= FileSize /\ Region(data, n) = meta.crcDigest
    BY MetaTypes, SMTT(30) DEF CurrentGood, Good, FileSize
  <2>2. readActualSize(meta)' = n
    BY <1>3, SMTT(30) DEF readActualSize
  <2>3. n < 2
    BY <1>2, <1>3, MetaTypes DEF Extends, readActualSize
  <2>4. Headed(meta.crcDigest) /\ Len(meta.crcDigest) = n
    BY Undamaged, ZenonT(30) DEF Restartable, FilesKnown
  <2> HIDE DEF n
  <2>5. \A i \in 1..n : data'[i] = data[i]
    <3>1. SUFFICES ASSUME n = 1 PROVE data'[1] = data[1]
      BY <2>1, <2>3, SMTT(30)
    <3>2. Region(data, 1)[1] = data[1]
      BY <2>1, <3>1 DEF Region
    <3> QED
      BY <1>2, <2>1, <2>4, <3>1, <3>2, SMTT(30) DEF Headed
  <2>6. Region(data', n) = Region(data, n)
    BY <1>2, <2>1, <2>5, SameFront, ZenonT(30)
  <2> QED
    BY <1>2, <1>3, <2>1, <2>2, <2>6, SMTT(30) DEF CurrentGood, Good, FileSize
<1> QED
  BY <1>1, <1>2, <1>3, <1>4, <1>5, ToExtended, ZenonT(30)


LEMMA StoreCRCRestartable ==
    ASSUME TypeOK, NEW p \in Procs, Restartable(p), StoreCRC(p),
           UNCHANGED <<may, confirmed, damage>>
    PROVE  Restartable(p)'
<1>1. /\ pc[p] = "crc" /\ pc'[p] = "size" /\ UNCHANGED <<data, inst>>
      /\ meta' = [meta EXCEPT !.crcDigest = inst[p].crcDigest]
      /\ meta \in MetaInfo
  BY Zenon DEF StoreCRC, TypeOK
<1>2. /\ meta'.crcDigest = inst[p].crcDigest /\ meta'.version = meta.version
      /\ meta'.lastCRCDigest = meta.lastCRCDigest
  BY <1>1 DEF MetaInfo
<1>3. Extended(inst[p]) /\ (inst[p].recover => p \in Recovering)
  BY <1>1, Zenon DEF Restartable, Knows
<1>4. Extended(inst[p])'
  BY <1>1, <1>2, <1>3, ZenonT(30) DEF Extended, Decoded, InFile, Headed, FileSize
<1>5. FilesKnown(p)'
  <2>1. ~Untorn(p)'
    BY <1>1 DEF Untorn
  <2> QED
    BY <1>1, <1>2, <1>3, <2>1, SMTT(30)
       DEF Restartable, FilesKnown, Extended, Headed
<1> QED
  BY <1>1, <1>2, <1>3, <1>4, <1>5, SMTT(30) DEF Restartable, Knows, OpenSteps

\* The views of a region that lies in the file show its contents.
LEMMA InFileShows ==
    ASSUME TypeOK, NEW r \in Seq(Slot), InFile(r)
    PROVE  Deref(data, parseDict(r)) = Contents(r)
<1>1. Len(r) \in Nat /\ Len(r) <= Len(data) /\ Region(data, Len(r)) = r
  BY MetaTypes DEF InFile, FileSize
<1> QED
  BY <1>1, MetaTypes, ViewsOfFront, ZenonT(30)

\* Once the meta describes a region that lies in the file, the instance that
\* has it is settled.
LEMMA Confirmed ==
    ASSUME NEW p \in Procs, pc'[p] \in {"unlock", "shrink"},
           CurrentGood', inst'[p].size = FileSize',
           ~inst'[p].needLoad, ~inst'[p].needFullWriteback,
           inst'[p].info.version = meta'.version,
           Decoded(inst'[p]), inst'[p].crcDigest = meta'.crcDigest,
           inst'[p].recover => p \in Recovering,
           Headed(meta'.crcDigest), Headed(meta'.lastCRCDigest),
           Contents(meta'.crcDigest) \in may',
           Contents(meta'.lastCRCDigest) \in confirmed'
    PROVE  Restartable(p)'
<1>1. Settled(inst[p])'
  BY Zenon DEF Settled, Loads, Decoded
<1>2. FilesKnown(p)'
  BY Zenon DEF FilesKnown, Headed
<1> QED
  BY <1>1, <1>2 DEF Restartable, Knows, OpenSteps

LEMMA StoreActualSizeRestartable ==
    ASSUME Locked, NEW p \in Procs, Restartable(p), StoreActualSize(p), Track(p)
    PROVE  Restartable(p)' /\ CurrentGood' /\ meta'.version = versionFlag
<1>1. /\ pc[p] = "size" /\ pc'[p] = "unlock" /\ UNCHANGED <<data, inst>>
      /\ meta' = [meta EXCEPT !.actualSize = inst[p].actualSize]
      /\ meta \in MetaInfo /\ TypeOK
  BY Zenon DEF StoreActualSize, Locked, TypeOK
<1>2. /\ meta'.crcDigest = meta.crcDigest /\ meta'.version = meta.version
      /\ meta'.lastCRCDigest = meta.lastCRCDigest
      /\ meta'.actualSize = inst[p].actualSize
  BY <1>1 DEF MetaInfo
<1>3. /\ Extended(inst[p]) /\ (inst[p].recover => p \in Recovering)
      /\ meta.crcDigest = inst[p].crcDigest
  BY <1>1, Zenon DEF Restartable, Knows
<1>4. /\ inst[p].crcDigest \in Seq(Slot) /\ inst[p].actualSize \in Nat
      /\ HeaderSize \in Nat
  BY <1>1, FieldTypes, Zenon
<1>5. /\ inst[p].size = FileSize /\ ~inst[p].needLoad
      /\ ~inst[p].needFullWriteback /\ inst[p].info.version = meta'.version
      /\ Decoded(inst[p]) /\ InFile(inst[p].crcDigest)
      /\ meta'.version = versionFlag
  BY <1>2, <1>3, Zenon DEF Extended
<1>6. CurrentGood'
  <2>1. readActualSize(meta)' = Len(inst[p].crcDigest)
    BY <1>2, <1>5 DEF readActualSize, versionFlag, versionActualSize, Decoded
  <2> QED
    BY <1>1, <1>2, <1>3, <1>4, <1>5, <2>1, SMTT(30) DEF CurrentGood, Good, InFile, FileSize
<1>7. Contents(meta'.crcDigest) \in may' /\ confirmed' = confirmed
  <2>1. op[p] # RepairCall
    BY <1>1 DEF Locked, Held
  <2>2. Deref(data', inst'[p].dict) = Contents(inst[p].crcDigest)
    BY <1>1, <1>4, <1>5, InFileShows, ZenonT(30) DEF Decoded
  <2> QED
    BY <1>1, <1>2, <1>3, <2>1, <2>2, SMTT(30) DEF Track, Completing
<1>8. FileSize' = FileSize
  BY <1>1 DEF FileSize
<1>9. Headed(meta'.crcDigest) /\ Headed(meta'.lastCRCDigest)
      /\ Contents(meta'.lastCRCDigest) \in confirmed'
  BY <1>1, <1>2, <1>7, SMTT(30) DEF Restartable, FilesKnown
<1>10. Restartable(p)'
  BY <1>1, <1>2, <1>3, <1>5, <1>6, <1>7, <1>8, <1>9, Confirmed, ZenonT(30)
<1> QED
  BY <1>5, <1>6, <1>10

-----------------------------------------------------------------------------
(***************************************************************************)
(* Write-backs, clears and resizes.                                        *)
(***************************************************************************)
LEMMA EncodeHeaded ==
    ASSUME NEW map \in Maps
    PROVE  Headed(encodeRegion(map))
<1>1. encodeRegion(map) \in Seq(Slot) /\ Len(encodeRegion(map)) > 0
  BY EncodeType
<1>2. 1 \in DOMAIN encodeRegion(map)
  BY <1>1
<1>3. encodeRegion(map)[1] = ItemSizeHolder
  BY <1>2, SMTT(30) DEF encodeRegion
<1> QED
  BY <1>3 DEF Headed

LEMMA WritebackRestartable ==
    ASSUME Locked, NEW p \in Procs, Restartable(p), NEW map \in Maps,
           pc[p] = "body", op[p] \in WriteCalls, StartWriteback(p, map),
           UNCHANGED <<may, confirmed, damage>>
    PROVE  Restartable(p)'
<1>1. /\ UNCHANGED <<data, meta, inst, op>> /\ pc'[p] = "grow"
      /\ buf'[p] = encodeRegion(map)
  BY ZenonT(30) DEF StartWriteback, Locked, TypeOK
<1>2. Len(buf'[p]) > 0 /\ Headed(buf'[p])
  BY <1>1, EncodeType, EncodeHeaded, SMTT(30)
<1>3. op[p] # RepairCall
  BY CallKinds
<1>4. inst[p].size = FileSize /\ ~inst[p].needLoad
  BY BodyFacts, Zenon DEF Locked
<1>5. FilesKnown(p)'
  <2>1. Untorn(p)
    BY DEF Untorn
  <2> QED
    BY <1>1, <2>1, FilesStay, ZenonT(30) DEF Restartable
<1>6. WritingBack(p)'
  BY <1>1, <1>2, <1>3, <1>4, SMTT(30) DEF WritingBack, FileSize, Headed
<1>7. inst'[p].recover => p \in Recovering
  BY <1>1, ZenonT(30) DEF Restartable, Knows
<1> QED
  BY <1>1, <1>5, <1>6, <1>7, SMTT(30) DEF Restartable, Knows, OpenSteps

\* The step to "region", which keeps the bytes of the file.
LEMMA ToRegion ==
    ASSUME TypeOK, NEW p \in Procs, Restartable(p), pc[p] = "grow",
           pc'[p] = "region", UNCHANGED <<meta, op, buf, may, confirmed, damage>>,
           data' \in Seq(Slot), Len(data') \in Nat, Len(data') >= Len(data),
           \A i \in 1..Len(data) : data'[i] = data[i],
           inst'[p].size = FileSize', HeaderSize + Len(buf[p]) <= FileSize',
           inst'[p].needLoad = inst[p].needLoad,
           inst'[p].recover = inst[p].recover
    PROVE  Restartable(p)'
<1>1. WritingBack(p) /\ (inst[p].recover => p \in Recovering)
  BY Zenon DEF Restartable, Knows
<1>2. WritingBack(p)'
  BY <1>1 DEF WritingBack, Headed
<1>3. CurrentGood => CurrentGood'
  <2> SUFFICES ASSUME CurrentGood PROVE CurrentGood'
    OBVIOUS
  <2> DEFINE n == readActualSize(meta)
  <2>1. n \in Nat /\ n <= Len(data) /\ data \in Seq(Slot) /\ Len(data) \in Nat
        /\ HeaderSize \in Nat
        /\ n + HeaderSize <= FileSize /\ Region(data, n) = meta.crcDigest
    BY MetaTypes DEF CurrentGood, Good, FileSize
  <2>2. readActualSize(meta)' = n
    BY DEF readActualSize
  <2> HIDE DEF n
  <2>3. n <= Len(data') /\ \A i \in 1..n : data'[i] = data[i]
    BY <2>1
  <2>4. Region(data', n) = Region(data, n)
    BY <2>1, <2>3, SameFront, ZenonT(30)
  <2> QED
    BY <2>1, <2>2, <2>3, <2>4, SMTT(30) DEF CurrentGood, Good, FileSize
<1>4. FilesKnown(p)'
  <2>1. damage = "none" => CurrentGood
    BY Zenon DEF Restartable, FilesKnown, Untorn
  <2> QED
    BY <1>3, <2>1, Zenon DEF Restartable, FilesKnown, Headed
<1> QED
  BY <1>1, <1>2, <1>4 DEF Restartable, Knows, OpenSteps


LEMMA GrowRestartable ==
    ASSUME Locked, NEW p \in Procs, Restartable(p), Grow(p) \/ KeepSize(p),
           UNCHANGED <<may, confirmed, damage>>
    PROVE  Restartable(p)'
<1>1. /\ pc[p] = "grow" /\ pc'[p] = "region" /\ UNCHANGED <<meta, op, buf>>
      /\ TypeOK
  BY DEF Grow, KeepSize, Locked, TypeOK
<1>2. inst[p].size = FileSize /\ Len(buf[p]) > 0
  BY <1>1, Zenon DEF Restartable, Knows, WritingBack
<1>3. CASE Grow(p)
  <2>1. /\ data' \in Seq(Slot) /\ Len(data') \in Nat /\ Len(data') >= Len(data)
        /\ \A i \in 1..Len(data) : data'[i] = data[i]
        /\ inst'[p].size = FileSize' /\ HeaderSize + Len(buf[p]) <= FileSize'
        /\ inst'[p].needLoad = inst[p].needLoad
        /\ inst'[p].recover = inst[p].recover
    BY <1>1, <1>2, <1>3, GrowResult, ZenonT(30)
  <2> QED
    BY <1>1, <2>1, ToRegion, ZenonT(30)
<1>4. CASE KeepSize(p)
  <2>1. UNCHANGED <<data, inst>> /\ ~Growing(p)
    BY <1>4, ZenonT(30) DEF KeepSize
  <2>2. /\ data \in Seq(Slot) /\ Len(data) \in Nat /\ FileSize' = FileSize
        /\ inst[p].size \in Nat /\ HeaderSize \in Nat /\ Len(buf[p]) \in Nat
    BY <1>1, <2>1, FieldTypes, SMTT(30) DEF FileSize
  <2>3. HeaderSize + Len(buf[p]) <= inst[p].size
    <3>1. ~(LenNeeded(Len(buf[p]), Incoming(p)) >= inst[p].size)
      BY <2>1, Zenon DEF Growing, MustGrow
    <3>2. Incoming(p) \in Nat
      BY DEF Incoming
    <3> QED
      BY <2>2, <3>1, <3>2 DEF LenNeeded
  <2>4. /\ data' \in Seq(Slot) /\ Len(data') \in Nat /\ Len(data') >= Len(data)
        /\ \A i \in 1..Len(data) : data'[i] = data[i]
    BY <2>1, <2>2, SMTT(30)
  <2> QED
    BY <1>1, <1>2, <2>1, <2>2, <2>3, <2>4, ToRegion, ZenonT(30)
<1> QED
  BY <1>3, <1>4, SMTT(30)

\* The step to "meta": the region to confirm lies in the file.
LEMMA ToConfirm ==
    ASSUME NEW p \in Procs, Restartable(p), pc[p] \in {"body", "region"},
           pc'[p] = "meta", UNCHANGED <<meta, may, confirmed, damage>>,
           inst'[p].size = FileSize', ~inst'[p].needLoad,
           inst'[p].recover = inst[p].recover,
           inst'[p].crcDigest = buf'[p], inst'[p].actualSize = Len(buf'[p]),
           InFile(buf[p])', Headed(buf'[p]),
           op'[p] = RepairCall => damage # "none"
    PROVE  Restartable(p)'
<1>1. WritingBack(p)'
  BY DEF WritingBack, Headed
<1>2. FilesKnown(p)'
  <2>1. ~Untorn(p)' /\ pc[p] # "size"
    BY DEF Untorn
  <2> QED
    BY <2>1, SMTT(30) DEF Restartable, FilesKnown, Headed
<1>3. inst'[p].recover => p \in Recovering
  BY Zenon DEF Restartable, Knows
<1> QED
  BY <1>1, <1>2, <1>3, SMTT(30) DEF Restartable, Knows, OpenSteps

LEMMA StoreRegionRestartable ==
    ASSUME Locked, Locked', NEW p \in Procs, Restartable(p), StoreRegion(p),
           UNCHANGED <<may, confirmed, damage>>
    PROVE  Restartable(p)'
<1>1. /\ pc[p] = "region" /\ pc'[p] = "meta" /\ UNCHANGED <<meta, op, buf>>
      /\ TypeOK /\ TypeOK'
  BY Zenon DEF StoreRegion, Locked, TypeOK
<1>2. WritingBack(p)
  BY <1>1, Zenon DEF Restartable, Knows
<1>3. /\ inst[p].size = FileSize /\ HeaderSize + Len(buf[p]) <= FileSize
      /\ ~inst[p].needLoad /\ Headed(buf[p])
      /\ op[p] = RepairCall => damage # "none"
  BY <1>1, <1>2, Zenon DEF WritingBack
<1>4. /\ inst'[p].needLoad = inst[p].needLoad
      /\ inst'[p].recover = inst[p].recover
      /\ inst'[p].size = FileSize' /\ inst'[p].crcDigest = buf'[p]
      /\ inst'[p].actualSize = Len(buf'[p]) /\ InFile(buf[p])'
  BY <1>1, <1>3, StoreRegionResult, ZenonT(30)
<1> QED
  BY <1>1, <1>3, <1>4, ToConfirm, ZenonT(30)

LEMMA ClearAllRestartable ==
    ASSUME Locked, NEW p \in Procs, Restartable(p), ClearAll(p),
           op[p] \in WriteCalls, UNCHANGED <<may, confirmed, damage>>
    PROVE  Restartable(p)'
<1> DEFINE m == inst[p]
           t == truncated(m, 0)
<1>1. /\ pc[p] = "body" /\ UNCHANGED <<meta, op>> /\ pc'[p] = "meta"
      /\ data' = truncatedFile(m, 0) /\ buf'[p] = <<>> /\ TypeOK
  BY DEF ClearAll, In, Locked, TypeOK
<1>2. m \in Instance /\ HeaderSize \in Nat
  BY <1>1, FieldTypes, Zenon
<1>3. m.size = FileSize /\ ~m.needLoad
  BY <1>1, BodyFacts, Zenon
<1>4. /\ data' \in Seq(Slot) /\ Len(data') \in Nat
      /\ t.size = HeaderSize + Len(data')
      /\ t.needLoad = m.needLoad /\ t.recover = m.recover
  <2>1. 0 \in Nat
    OBVIOUS
  <2> QED
    BY <1>1, <1>2, <1>3, <2>1, Truncate, ZenonT(30)
<1>5. t \in Instance
  <2>1. 0 \in Nat
    OBVIOUS
  <2> QED
    BY <1>1, <1>2, <2>1, TruncatedType, ZenonT(30) DEF TypeOK
<1>6. inst'[p] = [t EXCEPT !.dict = EmptyDict, !.actualSize = 0, !.crcDigest = <<>>]
  BY <1>1, Zenon DEF ClearAll, TypeOK
<1> HIDE DEF t
<1>7. /\ inst'[p].needLoad = t.needLoad /\ inst'[p].recover = t.recover
      /\ inst'[p].size = t.size /\ inst'[p].crcDigest = <<>>
      /\ inst'[p].actualSize = 0
  BY <1>5, <1>6, SMTT(30) DEF Instance
<1>8. inst'[p].size = FileSize'
  BY <1>4, <1>7, SMTT(30) DEF FileSize
<1>9. InFile(buf[p])' /\ Headed(buf'[p])
  <2>1. Region(data', 0) = <<>>
    BY DEF Region
  <2> QED
    BY <1>1, <1>2, <1>4, <2>1, SMTT(30) DEF InFile, FileSize, Headed
<1>10. inst'[p].crcDigest = buf'[p] /\ inst'[p].actualSize = Len(buf'[p])
  BY <1>1, <1>7, SMTT(30)
<1>11. op'[p] # RepairCall
  BY <1>1, CallKinds, SMTT(30)
<1> QED
  BY <1>1, <1>3, <1>4, <1>7, <1>8, <1>9, <1>10, <1>11, ToConfirm, ZenonT(30)

LEMMA StoreMetaRestartable ==
    ASSUME Locked, NEW p \in Procs, Restartable(p), StoreMeta(p), Track(p)
    PROVE  Restartable(p)' /\ CurrentGood' /\ meta'.version = versionFlag
<1> DEFINE m == inst[p]
           b == buf[p]
           info == NextInfo(m)
<1>1. /\ pc[p] = "meta" /\ UNCHANGED data /\ TypeOK
      /\ pc'[p] \in {"shrink", "unlock"} /\ meta' = info
  BY DEF StoreMeta, Locked, TypeOK
<1>2. /\ m \in Instance /\ m.info \in MetaInfo
      /\ b \in Seq(Slot) /\ Len(b) \in Nat /\ HeaderSize \in Nat
  BY <1>1, FieldTypes, Zenon
<1>3. WritingBack(p) /\ (m.recover => p \in Recovering)
  BY <1>1, Zenon DEF Restartable, Knows
<1>4. /\ m.actualSize = Len(b) /\ m.crcDigest = b /\ InFile(b) /\ Headed(b)
      /\ m.size = FileSize /\ ~m.needLoad
      /\ op[p] = RepairCall => damage # "none"
  BY <1>1, <1>3, ZenonT(30) DEF WritingBack
<1>5. /\ info.version = versionFlag
      /\ info.actualSize = m.actualSize /\ info.crcDigest = m.crcDigest
      /\ info.lastCRCDigest = m.crcDigest
  BY <1>2 DEF NextInfo, MetaInfo
<1>6. inst'[p] = [m EXCEPT !.info = info, !.dict = parseDict(b),
                           !.needFullWriteback = FALSE, !.dangling = FALSE]
  BY <1>1, Zenon DEF StoreMeta, TypeOK
<1> HIDE DEF m, b, info
<1>7. /\ inst'[p].info = info /\ inst'[p].dict = parseDict(b)
      /\ inst'[p].actualSize = m.actualSize /\ inst'[p].crcDigest = m.crcDigest
      /\ inst'[p].needLoad = m.needLoad /\ inst'[p].size = m.size
      /\ ~inst'[p].needFullWriteback /\ inst'[p].recover = m.recover
  BY <1>2, <1>6, SMTT(30) DEF Instance
<1>8. CurrentGood'
  <2>1. readActualSize(meta)' = Len(b)
    BY <1>1, <1>4, <1>5, SMTT(30) DEF readActualSize, versionFlag, versionActualSize
  <2> QED
    BY <1>1, <1>2, <1>4, <1>5, <2>1, SMTT(30) DEF CurrentGood, Good, InFile, FileSize
<1>9. Contents(b) \in may' /\ Contents(b) \in confirmed'
  <2>1. Deref(data', inst'[p].dict) = Contents(b)
    BY <1>1, <1>2, <1>4, <1>7, InFileShows, ZenonT(30)
  <2> QED
    BY <1>1, <1>4, <2>1 DEF Track, Completing
<1>10. /\ Decoded(inst'[p]) /\ FileSize' = FileSize
       /\ inst'[p].crcDigest = meta'.crcDigest
       /\ inst'[p].info.version = meta'.version
  BY <1>1, <1>4, <1>5, <1>7, SMTT(30) DEF Decoded, FileSize
<1>11. /\ Headed(meta'.crcDigest) /\ Headed(meta'.lastCRCDigest)
       /\ Contents(meta'.crcDigest) \in may'
       /\ Contents(meta'.lastCRCDigest) \in confirmed'
  BY <1>1, <1>4, <1>5, <1>9, SMTT(30)
<1>12. Restartable(p)'
  BY <1>1, <1>3, <1>4, <1>7, <1>8, <1>10, <1>11, Confirmed, ZenonT(30)
<1> QED
  BY <1>1, <1>5, <1>8, <1>12, SMTT(30)

LEMMA ShrinkRestartable ==
    ASSUME Locked, NEW p \in Procs, Restartable(p), Shrink(p),
           UNCHANGED <<may, confirmed, damage>>
    PROVE  Restartable(p)'
<1>1. /\ pc[p] = "shrink" /\ pc'[p] = "unlock" /\ UNCHANGED meta /\ TypeOK
  BY Zenon DEF Shrink, Locked, TypeOK
<1>2. /\ inst[p].size = FileSize /\ ~inst[p].needLoad
      /\ ~inst[p].needFullWriteback /\ inst[p].info.version = meta.version
      /\ Decoded(inst[p]) /\ InFile(inst[p].crcDigest)
  BY <1>1, BodyFacts, Zenon
<1>3. /\ CurrentGood /\ FilesKnown(p) /\ (inst[p].recover => p \in Recovering)
  BY <1>1, Zenon DEF Restartable, Knows
<1>4. /\ inst[p].crcDigest = meta.crcDigest
      /\ inst[p].actualSize = readActualSize(meta)
  BY <1>1, <1>3, Undamaged, ZenonT(30)
<1>5. /\ inst'[p].size = FileSize' /\ Len(data') \in Nat
      /\ Region(data', inst[p].actualSize) = inst[p].crcDigest
      /\ HeaderSize + inst[p].actualSize <= FileSize'
      /\ inst'[p].info = inst[p].info /\ inst'[p].dict = inst[p].dict
      /\ inst'[p].actualSize = inst[p].actualSize
      /\ inst'[p].crcDigest = inst[p].crcDigest
      /\ inst'[p].needLoad = inst[p].needLoad
      /\ inst'[p].recover = inst[p].recover
      /\ inst'[p].needFullWriteback = inst[p].needFullWriteback
  BY <1>1, <1>2, ShrinkResult, ZenonT(30)
<1>6. CurrentGood'
  <2>1. readActualSize(meta)' = inst[p].actualSize /\ inst[p].actualSize \in Nat
        /\ HeaderSize \in Nat
    BY <1>1, <1>4, MetaTypes DEF readActualSize
  <2> QED
    BY <1>1, <1>4, <1>5, <2>1, SMTT(30) DEF CurrentGood, Good, FileSize
<1>7. Decoded(inst'[p])
  BY <1>2, <1>5, ZenonT(30) DEF Decoded
<1>8. /\ Headed(meta'.crcDigest) /\ Headed(meta'.lastCRCDigest)
      /\ Contents(meta'.crcDigest) \in may'
      /\ Contents(meta'.lastCRCDigest) \in confirmed'
  BY <1>1, <1>3, SMTT(30) DEF FilesKnown
<1> QED
  BY <1>1, <1>2, <1>3, <1>4, <1>5, <1>6, <1>7, <1>8, Confirmed, ZenonT(30)


-----------------------------------------------------------------------------
(***************************************************************************)
(* Death and damage.                                                       *)
(***************************************************************************)
\* What matters of the files and the history to a process that opens them.
LEMMA Closed ==
    ASSUME NEW p \in Procs, pc'[p] = "closed",
           ~inst'[p].needLoad, ~inst'[p].needFullWriteback, ~inst'[p].recover,
           Contents(meta'.crcDigest) \in may',
           Contents(meta'.lastCRCDigest) \in confirmed',
           Headed(meta'.crcDigest), Headed(meta'.lastCRCDigest),
           damage' = "none" => CurrentGood'
    PROVE  Restartable(p)'
<1>1. Opening(p)'
  BY DEF Opening
<1>2. FilesKnown(p)'
  BY Zenon DEF FilesKnown, Headed
<1> QED
  BY <1>1, <1>2, SMTT(30) DEF Restartable, Knows, OpenSteps

\* The half-written item of an append lies beyond the current region.
LEMMA TornItem ==
    ASSUME TypeOK, NEW p \in Procs, Restartable(p), pc[p] = "crc", Extends(p),
           CurrentGood, data' \in PartOfItem(p), meta' = meta
    PROVE  CurrentGood'
<1> DEFINE n == readActualSize(meta)
<1>1. /\ data' \in Seq(Slot) /\ Len(data') = Len(data)
      /\ \A i \in 1..Len(data) : i # inst[p].actualSize => data'[i] = data[i]
  BY PartOfItemType, Zenon
<1>2. n \in Nat /\ n <= Len(data) /\ data \in Seq(Slot) /\ Len(data) \in Nat
      /\ n + HeaderSize <= FileSize /\ Region(data, n) = meta.crcDigest
  BY MetaTypes DEF CurrentGood, Good, FileSize
<1>3. readActualSize(meta)' = n
  BY DEF readActualSize
<1>4. inst[p].actualSize \in Nat /\ n < inst[p].actualSize
  <2>1. inst[p].actualSize \in Nat
    BY FieldTypes, ZenonT(30)
  <2> QED
    BY <2>1, MetaTypes DEF Extends, readActualSize
<1> HIDE DEF n
<1>5. n <= Len(data') /\ \A i \in 1..n : data'[i] = data[i]
  BY <1>1, <1>2, <1>4
<1>6. Region(data', n) = Region(data, n)
  BY <1>1, <1>2, <1>5, SameFront, ZenonT(30)
<1> QED
  BY <1>1, <1>2, <1>3, <1>6, SMTT(30) DEF CurrentGood, Good, FileSize

LEMMA KillRestartable ==
    ASSUME Locked, NEW p \in Procs, Restartable(p), Kill(p)
    PROVE  Restartable(p)'
<1>1. /\ TypeOK /\ pc'[p] = "closed" /\ inst'[p] = Gone
      /\ may \subseteq may' /\ confirmed \subseteq confirmed'
  BY DEF Kill, Leave, Locked, TypeOK
<1>2. /\ ~inst'[p].needLoad /\ ~inst'[p].needFullWriteback /\ ~inst'[p].recover
  BY <1>1, GoneType, Zenon
<1>3. /\ pc[p] # "size" => Contents(meta.crcDigest) \in may
      /\ Contents(meta.lastCRCDigest) \in confirmed
      /\ Headed(meta.crcDigest) /\ Headed(meta.lastCRCDigest)
      /\ damage = "none" /\ Untorn(p) => CurrentGood
  BY Zenon DEF Restartable, FilesKnown
<1>4. CASE pc[p] = "size"
  <2>1. meta' = meta /\ Contents(inst[p].crcDigest) \in may'
    BY <1>4 DEF Kill, Writing, Pending
  <2>2. meta.crcDigest = inst[p].crcDigest
    BY <1>4, Zenon DEF Restartable, Knows
  <2>3. damage' # "none"
    BY <1>4 DEF Kill, DamageBy
  <2> QED
    BY <1>1, <1>2, <1>3, <2>1, <2>2, <2>3, Closed, ZenonT(30)
<1>5. CASE pc[p] = "meta"
  <2>1. meta' \in PartOfMeta(p) /\ damage' # "none"
        /\ Contents(buf[p]) \in may' /\ Contents(buf[p]) \in confirmed'
    BY <1>5 DEF Kill, DamageBy, Writing, Pending
  <2>2. WritingBack(p)
    BY <1>5, Zenon DEF Restartable, Knows
  <2>3. inst[p].crcDigest = buf[p] /\ Headed(buf[p])
    BY <1>5, <2>2, Zenon DEF WritingBack
  <2>4. inst[p] \in Instance /\ inst[p].info \in MetaInfo
    BY <1>1, FieldTypes, ZenonT(30)
  <2>5. /\ NextInfo(inst[p]).crcDigest = buf[p]
        /\ NextInfo(inst[p]).lastCRCDigest = buf[p]
    BY <2>3, <2>4 DEF NextInfo, MetaInfo
  <2>6. /\ meta'.crcDigest \in {meta.crcDigest, buf[p]}
        /\ meta'.lastCRCDigest \in {meta.lastCRCDigest, buf[p]}
    BY <1>1, <2>1, <2>5, PartOfMetaFields, ZenonT(30)
  <2>7. /\ Headed(meta'.crcDigest) /\ Headed(meta'.lastCRCDigest)
        /\ Contents(meta'.crcDigest) \in may'
        /\ Contents(meta'.lastCRCDigest) \in confirmed'
    BY <1>1, <1>3, <1>5, <2>1, <2>3, <2>6, SMTT(30)
  <2> QED
    BY <1>1, <1>2, <2>1, <2>7, Closed, ZenonT(30)
<1>6. CASE pc[p] \notin {"size", "meta"}
  <2>1. meta' = meta
    BY <1>6 DEF Kill
  <2>2. damage' = "none" => CurrentGood'
    <3> SUFFICES ASSUME damage' = "none" PROVE CurrentGood'
      OBVIOUS
    <3>1. DamageBy(p) # "rewrite" /\ damage = "none"
      BY DEF Kill, DamageBy
    <3>2. pc[p] # "region" /\ (pc[p] = "crc" => Extends(p))
      BY <3>1, ZenonT(30) DEF DamageBy
    <3>3. CurrentGood
      BY <1>3, <1>6, <3>1, <3>2, SMTT(30) DEF Untorn
    <3>4. CASE pc[p] = "crc"
      <4>1. data' \in PartOfItem(p)
        BY <3>4 DEF Kill
      <4> QED
        BY <1>1, <2>1, <3>2, <3>3, <3>4, <4>1, TornItem, ZenonT(30)
    <3>5. CASE pc[p] # "crc"
      <4>1. data' = data
        BY <3>2, <3>5, SMTT(30) DEF Kill
      <4> QED
        BY <2>1, <3>3, <4>1, CurrentStays, SMTT(30)
    <3> QED
      BY <3>4, <3>5
  <2>3. /\ Headed(meta'.crcDigest) /\ Headed(meta'.lastCRCDigest)
        /\ Contents(meta'.crcDigest) \in may'
        /\ Contents(meta'.lastCRCDigest) \in confirmed'
    BY <1>1, <1>3, <1>6, <2>1, SMTT(30)
  <2> QED
    BY <1>1, <1>2, <2>2, <2>3, Closed, ZenonT(30)
<1> QED
  BY <1>4, <1>5, <1>6, SMTT(30)

LEMMA CorruptRestartable ==
    ASSUME NEW p \in Procs, Restartable(p), NEW i, Corrupt(i)
    PROVE  Restartable(p)'
<1>1. /\ pc[p] = "closed" /\ damage' = "rewrite"
      /\ UNCHANGED <<meta, inst, pc, may, confirmed>>
  BY ZenonT(30) DEF Corrupt
<1>2. Opening(p)' /\ (inst'[p].recover => p \in Recovering)
  <2>1. Opening(p) /\ (inst[p].recover => p \in Recovering)
    BY <1>1, SMTT(30) DEF Restartable, Knows, OpenSteps
  <2> QED
    BY <1>1, <2>1, SMTT(30) DEF Opening
<1>3. FilesKnown(p)'
  BY <1>1, SMTT(30) DEF Restartable, FilesKnown, Headed
<1> QED
  BY <1>1, <1>2, <1>3, SMTT(30) DEF Restartable, Knows, OpenSteps


-----------------------------------------------------------------------------
(***************************************************************************)
(* Opening the store again.                                                *)
(***************************************************************************)
LEMMA OpenFacts ==
    ASSUME NEW p \in Procs, Restartable(p), pc[p] \in OpenSteps
    PROVE  /\ Opening(p) /\ FilesKnown(p) /\ Untorn(p)
           /\ inst[p].recover => p \in Recovering
  BY DEF Restartable, Knows, Untorn, OpenSteps

LEMMA ToOpening ==
    ASSUME NEW p \in Procs, FilesKnown(p), Untorn(p), pc'[p] \in OpenSteps,
           UNCHANGED <<data, meta, may, confirmed, damage>>,
           Opening(p)', inst'[p].recover => p \in Recovering
    PROVE  Restartable(p)'
<1>1. FilesKnown(p)'
  BY FilesStay, Zenon
<1> QED
  BY <1>1 DEF Restartable, Knows, OpenSteps

LEMMA OpenMapRestartable ==
    ASSUME TypeOK, NEW p \in Procs, Restartable(p), OpenMap(p)
    PROVE  Restartable(p)'
<1>1. /\ pc[p] = "closed" /\ pc'[p] = "open" /\ inst[p] \in Instance
      /\ UNCHANGED <<data, meta, may, confirmed, damage>>
  BY Zenon DEF OpenMap, TypeOK, crashVars
<1>2. PICK recover \in BOOLEAN :
        /\ recover => p \in Recovering
        /\ inst' = [inst EXCEPT ![p].size = FileSize, ![p].recover = recover]
  BY Zenon DEF OpenMap
<1> DEFINE m == [[inst[p] EXCEPT !.size = FileSize] EXCEPT !.recover = recover]
<1>3. inst'[p] = m
  BY <1>2, Zenon DEF TypeOK
<1>4. /\ m.size = FileSize /\ m.recover = recover
      /\ m.needLoad = inst[p].needLoad
      /\ m.needFullWriteback = inst[p].needFullWriteback
  BY <1>1, Zenon DEF Instance
<1> HIDE DEF m
<1>5. pc[p] \in OpenSteps /\ pc'[p] \in OpenSteps
  BY <1>1 DEF OpenSteps
<1>6. Opening(p) /\ FilesKnown(p) /\ Untorn(p)
  BY <1>5, OpenFacts, ZenonT(30)
<1>7. Opening(p)'
  <2>1. ~inst[p].needLoad /\ ~inst[p].needFullWriteback
    BY <1>1, <1>6, SMTT(30) DEF Opening
  <2>2. FileSize' = FileSize
    BY <1>1, CurrentStays
  <2> QED
    BY <1>1, <1>3, <1>4, <2>1, <2>2, SMTT(30) DEF Opening
<1> QED
  BY <1>1, <1>2, <1>3, <1>4, <1>5, <1>6, <1>7, ToOpening, ZenonT(30)

\* Alone, a process reads a whole meta image.
LEMMA OpenReadMetaRestartable ==
    ASSUME TypeOK, NEW p \in Procs, Procs = {p}, Restartable(p), OpenReadMeta(p)
    PROVE  Restartable(p)'
<1>1. /\ pc[p] = "open" /\ pc'[p] = "load" /\ inst[p] \in Instance
      /\ UNCHANGED <<data, meta, may, confirmed, damage>>
  BY Zenon DEF OpenReadMeta, TypeOK, crashVars
<1>2. inst' = [inst EXCEPT ![p].info = meta]
  <2>1. {r \in Procs : pc[r] = "meta"} = {}
    BY <1>1
  <2>2. UNION {PartOfMeta(q) : q \in {r \in Procs : pc[r] = "meta"}} = {}
    BY <2>1, Zenon
  <2> QED
    BY <2>2, ZenonT(30) DEF OpenReadMeta
<1>3. /\ inst'[p].info = meta /\ inst'[p].size = inst[p].size
      /\ inst'[p].recover = inst[p].recover
      /\ inst'[p].needLoad = inst[p].needLoad
      /\ inst'[p].needFullWriteback = inst[p].needFullWriteback
  <2>1. inst'[p] = [inst[p] EXCEPT !.info = meta]
    BY <1>2, ZenonT(30) DEF TypeOK
  <2> QED
    BY <1>1, <2>1, ZenonT(30) DEF Instance
<1>4. pc[p] \in OpenSteps /\ pc'[p] \in OpenSteps
  BY <1>1 DEF OpenSteps
<1>5. /\ Opening(p) /\ FilesKnown(p) /\ Untorn(p)
      /\ inst[p].recover => p \in Recovering
  BY <1>4, OpenFacts, ZenonT(30)
<1>6. Opening(p)'
  <2>1. FileSize' = FileSize
    BY <1>1, CurrentStays
  <2> QED
    BY <1>1, <1>3, <1>5, <2>1, SMTT(30) DEF Opening
<1> QED
  BY <1>1, <1>3, <1>4, <1>5, <1>6, ToOpening, ZenonT(30)

LEMMA OpenCheckRestartable ==
    ASSUME TypeOK, NEW p \in Procs, Restartable(p), OpenCheck(p)
    PROVE  Restartable(p)'
<1> DEFINE m == inst[p]
<1>1. /\ pc[p] = "load"
      /\ pc'[p] = IF CurrentOK(m) THEN "accept"
                  ELSE IF LastConfirmedOK(m) THEN "rollback"
                  ELSE IF m.recover THEN "salvage" ELSE "discard"
      /\ UNCHANGED <<data, meta, inst, may, confirmed, damage>>
  BY ZenonT(30) DEF OpenCheck, TypeOK, crashVars
<1>2. pc[p] \in OpenSteps /\ pc'[p] \in OpenSteps
  BY <1>1 DEF OpenSteps
<1>3. /\ Opening(p) /\ FilesKnown(p) /\ Untorn(p)
      /\ m.recover => p \in Recovering
  BY <1>2, OpenFacts, ZenonT(30)
<1>4. m.size = FileSize /\ m.info = meta /\ ~m.needLoad /\ ~m.needFullWriteback
  BY <1>1, <1>3 DEF Opening
<1>5. (CurrentOK(m) <=> CurrentGood) /\ (LastConfirmedOK(m) <=> SnapshotGood)
  BY <1>4, LoadDecides, ZenonT(30)
<1>6. /\ CurrentGood' = CurrentGood /\ SnapshotGood' = SnapshotGood
      /\ FileSize' = FileSize
  BY <1>1, CurrentStays, SMTT(30)
<1> HIDE DEF m
<1>7. Opening(p)'
  BY <1>1, <1>4, <1>5, <1>6, SMTT(30) DEF Opening, m
<1> QED
  BY <1>1, <1>2, <1>3, <1>7, ToOpening, ZenonT(30) DEF m

LEMMA SalvageFields ==
    ASSUME NEW m \in Instance
    PROVE  /\ salvage(m).size = m.size /\ salvage(m).needLoad = m.needLoad
           /\ salvage(m).needFullWriteback /\ salvage(m).recover = m.recover
  BY DEF salvage, Instance

LEMMA OpenDecodeRestartable ==
    ASSUME TypeOK, NEW p \in Procs, Restartable(p), OpenDecode(p),
           ReadOnly \cap Recovering = {}
    PROVE  Restartable(p)'
<1> DEFINE m == inst[p]
           d == Decoding(m, pc[p])
<1>1. /\ pc[p] \in {"accept", "rollback", "salvage", "discard"} /\ m \in Instance
      /\ inst'[p] = d /\ UNCHANGED <<data, meta, may, confirmed, damage>>
      /\ pc'[p] = IF d.needFullWriteback /\ p \notin ReadOnly
                  THEN "repair" ELSE "idle"
  BY ZenonT(30) DEF OpenDecode, TypeOK, crashVars
<1>2. pc[p] \in OpenSteps
  BY <1>1 DEF OpenSteps
<1>3. /\ Opening(p) /\ FilesKnown(p) /\ Untorn(p)
      /\ m.recover => p \in Recovering
  BY <1>2, OpenFacts, ZenonT(30)
<1>4. m.size = FileSize /\ m.info = meta /\ ~m.needLoad /\ ~m.needFullWriteback
  BY <1>1, <1>3 DEF Opening
<1>5. (CurrentOK(m) <=> CurrentGood) /\ (LastConfirmedOK(m) <=> SnapshotGood)
  BY <1>4, LoadDecides, ZenonT(30)
<1>6. /\ CurrentGood' = CurrentGood /\ SnapshotGood' = SnapshotGood
      /\ FileSize' = FileSize /\ Loads' = Loads
  BY <1>1, CurrentStays
<1> HIDE DEF m
<1>7. CASE pc[p] = "salvage"
  <2>1. ~CurrentGood /\ m.recover
    BY <1>3, <1>7, ZenonT(30) DEF Opening, m
  <2>2. d = salvage(m)
    BY <1>7 DEF Decoding
  <2>3. /\ d.size = m.size /\ d.needLoad = m.needLoad
        /\ d.needFullWriteback /\ d.recover = m.recover
    BY <1>1, <2>2, SalvageFields, ZenonT(30)
  <2> HIDE DEF d
  <2>4. pc'[p] = "repair"
    BY <1>1, <1>3, <2>1, <2>3, ZenonT(30)
  <2>5. damage # "none"
    BY <1>3, <2>1, ZenonT(30) DEF FilesKnown
  <2>6. Opening(p)' /\ pc'[p] \in OpenSteps
    BY <1>1, <1>4, <1>6, <2>3, <2>4, <2>5, ZenonT(30) DEF Opening, OpenSteps
  <2> QED
    BY <1>1, <1>3, <2>3, <2>6, ToOpening, ZenonT(30)
<1>8. CASE pc[p] # "salvage"
  <2>1. d = loadInto(m) /\ (m.recover => CurrentGood \/ SnapshotGood)
    <3>1. CASE pc[p] = "accept"
      <4>1. CurrentGood
        BY <1>3, <3>1, ZenonT(30) DEF Opening
      <4> QED
        BY <1>5, <3>1, <4>1, SMTT(30) DEF Decoding, loadInto
    <3>2. CASE pc[p] = "rollback"
      <4>1. ~CurrentGood /\ SnapshotGood
        BY <1>3, <3>2, ZenonT(30) DEF Opening
      <4> QED
        BY <1>5, <3>2, <4>1, SMTT(30) DEF Decoding, loadInto
    <3>3. CASE pc[p] = "discard"
      <4>1. ~CurrentGood /\ ~SnapshotGood /\ ~m.recover
        BY <1>3, <3>3, ZenonT(30) DEF Opening, m
      <4> QED
        BY <1>5, <3>3, <4>1, SMTT(30) DEF Decoding, loadInto
    <3> QED
      BY <1>1, <1>8, <3>1, <3>2, <3>3, ZenonT(30)
  <2>2. Settled(d) /\ ~d.needLoad /\ d.recover = m.recover
    BY <1>1, <1>4, <2>1, LoadSettles, ZenonT(30)
  <2> HIDE DEF d
  <2>3. pc'[p] = "idle"
    BY <1>1, <2>2, ZenonT(30) DEF Settled
  <2>4. Settled(inst[p])'
    BY <1>1, <1>6, <2>2, ZenonT(30) DEF Settled, Decoded
  <2>5. FilesKnown(p)'
    BY <1>1, <1>3, FilesStay, ZenonT(30)
  <2> QED
    BY <1>1, <1>3, <2>2, <2>3, <2>4, <2>5, ZenonT(30) DEF Restartable, Knows, OpenSteps
<1> QED
  BY <1>7, <1>8

LEMMA OpenRepairRestartable ==
    ASSUME TypeOK, NEW p \in Procs, Restartable(p), OpenRepair(p)
    PROVE  Restartable(p)'
<1>1. /\ pc[p] = "repair" /\ pc'[p] = "grow" /\ op'[p] = RepairCall
      /\ buf'[p] = encodeRegion(Visible(p))
      /\ UNCHANGED <<data, meta, inst, may, confirmed, damage>>
  BY ZenonT(30) DEF OpenRepair, TypeOK, crashVars
<1>2. pc[p] \in OpenSteps
  BY <1>1 DEF OpenSteps
<1>3. /\ Opening(p) /\ FilesKnown(p) /\ Untorn(p)
      /\ inst[p].recover => p \in Recovering
  BY <1>2, OpenFacts, ZenonT(30)
<1>4. inst[p].size = FileSize /\ ~inst[p].needLoad /\ damage # "none"
  BY <1>1, <1>3, ZenonT(30) DEF Opening
<1>5. Len(buf'[p]) > 0 /\ Headed(buf'[p])
  BY <1>1, VisibleType, EncodeType, EncodeHeaded, SMTT(30)
<1>6. FileSize' = FileSize
  BY <1>1, CurrentStays, ZenonT(30)
<1>7. WritingBack(p)'
  BY <1>1, <1>4, <1>5, <1>6, ZenonT(30) DEF WritingBack, Headed
<1>8. FilesKnown(p)'
  BY <1>1, <1>3, FilesStay, ZenonT(30)
<1> QED
  BY <1>1, <1>3, <1>7, <1>8, ZenonT(30) DEF Restartable, Knows, OpenSteps


-----------------------------------------------------------------------------
(***************************************************************************)
(* All steps together.                                                     *)
(***************************************************************************)
LEMMA InitRestartable ==
    ASSUME CrashInit, NEW p \in Procs
    PROVE  Restartable(p)
<1>1. ASSUME NEW version \in {0, 3, 4}, NEW r \in Seq(Slot), Headed(r),
             version = 0 => r = <<>>, InitWith(version, r)
      PROVE  Restartable(p)
  <2>1. /\ Len(r) \in Nat /\ HeaderSize \in Nat /\ PageSize \in Nat
        /\ HeaderSize + Len(r) <= PageSize
    BY <1>1, StoreAssumption DEF InitWith
  <2>2. PageSize - HeaderSize \in Nat /\ Len(r) <= PageSize - HeaderSize
    BY <2>1
  <2>3. /\ data \in Seq(Slot) /\ Len(data) = PageSize - HeaderSize
        /\ \A i \in 1..Len(r) : data[i] = r[i]
    <3> DEFINE n == PageSize - HeaderSize
    <3>1. n \in Nat /\ data = Resize(r, n) /\ Len(r) <= n
      BY <1>1, <2>2 DEF InitWith
    <3> HIDE DEF n
    <3>2. /\ data \in Seq(Slot) /\ Len(data) = n
          /\ \A i \in 1..n : i <= Len(r) => data[i] = r[i]
      BY <1>1, <3>1, ResizeType, ZenonT(30)
    <3>3. \A i \in 1..Len(r) : data[i] = r[i]
      BY <2>1, <3>1, <3>2, SMTT(30)
    <3> QED
      BY <3>2, <3>3, SMTT(30) DEF n
  <2>4. FileSize = PageSize
    BY <2>1, <2>2, <2>3, SMTT(30) DEF FileSize
  <2>5. /\ meta.crcDigest = r /\ meta.actualSize = Len(r) /\ meta.version = version
        /\ \/ meta.lastActualSize = Len(r) /\ meta.lastCRCDigest = r
           \/ meta.lastActualSize = 0 /\ meta.lastCRCDigest = <<>>
    BY <1>1 DEF InitWith, StoredInfo
  <2>6. Region(data, Len(r)) = r
    <3>1. Region(data, Len(r)) = Region(r, Len(r))
      BY <1>1, <2>1, <2>2, <2>3, SameFront, SMTT(30)
    <3> QED
      BY <1>1, <3>1, SMTT(30) DEF Region
  <2>7. CurrentGood
    <3>1. readActualSize(meta) = Len(r)
      BY <1>1, <2>5, SMTT(30) DEF readActualSize, versionActualSize
    <3> QED
      BY <2>1, <2>4, <2>5, <2>6, <3>1, SMTT(30) DEF CurrentGood, Good
  <2>8. /\ Contents(meta.crcDigest) \in may
        /\ Contents(meta.lastCRCDigest) \in confirmed
    <3>1. Region(data, 0) = <<>>
      BY DEF Region
    <3>2. may = {Contents(Stored)}
          /\ confirmed = {Contents(Region(data, meta.lastActualSize))}
      BY DEF CrashInit
    <3> QED
      BY <2>5, <2>6, <3>1, <3>2, SMTT(30) DEF Stored
  <2>9. Headed(meta.crcDigest) /\ Headed(meta.lastCRCDigest)
    <3>1. Headed(<<>>)
      BY DEF Headed
    <3> QED
      BY <1>1, <2>5, <3>1, SMTT(30)
  <2>10. pc[p] = "idle" /\ inst[p] = Opened(meta, r, p \in Recovering)
    BY <1>1, SMTT(30) DEF InitWith
  <2>11. /\ inst[p].info = meta /\ inst[p].dict = parseDict(r)
         /\ inst[p].actualSize = Len(r) /\ inst[p].crcDigest = r
         /\ inst[p].size = PageSize /\ ~inst[p].needFullWriteback
         /\ inst[p].recover = (p \in Recovering)
    BY <2>10, SMTT(30) DEF Opened
  <2>12. Settled(inst[p])
    BY <2>4, <2>5, <2>7, <2>11, SMTT(30) DEF Settled, Decoded, Loads
  <2>13. FilesKnown(p)
    BY <2>7, <2>8, <2>9, ZenonT(30) DEF FilesKnown
  <2>14. inst[p].recover => p \in Recovering
    BY <2>11, Zenon
  <2> QED
    BY <2>10, <2>12, <2>13, <2>14, SMTT(30) DEF Restartable, Knows, OpenSteps
<1>2. InitWith(0, <<>>) => Restartable(p)
  <2>1. <<>> \in Seq(Slot) /\ Headed(<<>>) /\ 0 \in {0, 3, 4}
    BY DEF Headed
  <2> QED
    BY <1>1, <2>1, ZenonT(30)
<1>3. ASSUME NEW version \in {3, 4}, NEW map \in InitMaps,
             InitWith(version, encodeRegion(map))
      PROVE  Restartable(p)
  <2>1. map \in Maps
    BY CoreAssumption
  <2>2. encodeRegion(map) \in Seq(Slot) /\ Headed(encodeRegion(map))
    BY <2>1, EncodeType, EncodeHeaded, SMTT(30)
  <2>3. version \in {0, 3, 4} /\ version # 0
    OBVIOUS
  <2> QED
    BY <1>1, <1>3, <2>2, <2>3, ZenonT(30)
<1>4. Init
  BY DEF CrashInit
<1> QED
  BY <1>2, <1>3, <1>4, SMTT(30) DEF Init

LEMMA PlainTrack ==
    ASSUME NEW p, Track(p), ~Completing(p)
    PROVE  UNCHANGED <<may, confirmed, damage>>
  BY DEF Track, Completing

\* The steps of a call that start at "body".
LEMMA BodyRestartable ==
    ASSUME Locked, Locked', NEW p \in Procs, Restartable(p),
           UNCHANGED <<may, confirmed, damage>>,
           \/ SetByOverride(p) \/ SetByAppend(p) \/ SetByWriteback(p)
           \/ RemoveByTombstone(p) \/ RemoveByWriteback(p) \/ RemoveMany(p)
           \/ ClearAll(p) \/ TrimCompact(p)
    PROVE  Restartable(p)'
<1> DEFINE m == inst[p]
           c == op[p]
<1>1. /\ TypeOK /\ TypeOK' /\ Visible(p) \in Maps /\ Held(p)
      /\ c \in ReadCalls \cup WriteCalls \cup {RepairCall, NoCall}
  BY VisibleType, ZenonT(30) DEF Locked, TypeOK
<1>2. /\ \A kind \in {"set", "remove", "removeMany", "clear", "trim"} :
            In(p, kind) => pc[p] = "body" /\ c \in WriteCalls
      /\ In(p, "set") => c.key \in Keys /\ c.val \in Vals
      /\ In(p, "remove") => c.key \in Keys
  BY <1>1, CallKinds, SMTT(30) DEF In, Held, OpenSteps
<1>3. CASE SetByOverride(p)
  BY <1>1, <1>2, <1>3, OverrideRestartable, ZenonT(30) DEF SetByOverride
<1>4. CASE SetByAppend(p)
  <2>1. /\ pc[p] = "body" /\ c.key \in Keys /\ c.val \in Vals
        /\ fastOK(m) /\ 1 <= spaceLeft(m) /\ DictKeys(m) # {}
        /\ appendRaw(p, Pair(c.key, c.val), [m.dict EXCEPT ![c.key] = m.actualSize + 1])
    BY <1>2, <1>4, ZenonT(30) DEF SetByAppend, CanAppend
  <2>2. m.actualSize > 0
    <3>1. m.dict = parseDict(m.crcDigest) /\ m.actualSize = Len(m.crcDigest)
      BY <1>1, <2>1, BodyFacts, ZenonT(30) DEF Decoded
    <3>2. m.crcDigest \in Seq(Slot) /\ Len(m.crcDigest) \in Nat
      BY <1>1, FieldTypes, SMTT(30)
    <3>3. PICK k \in Keys : m.dict[k] # 0
      BY <2>1 DEF DictKeys
    <3>4. parseDict(m.crcDigest)[k] = 0 \/ parseDict(m.crcDigest)[k] \in 2..Len(m.crcDigest)
      BY <3>2, ParseDictRange, SMTT(30)
    <3> QED
      BY <3>1, <3>2, <3>3, <3>4, SMTT(30)
  <2>3. c.val # NoVal /\ c.val \in Vals \cup {NoVal}
    BY <2>1, StoreAssumption, SMTT(30)
  <2>4. appendRaw(p, Pair(c.key, c.val),
                  [m.dict EXCEPT ![c.key] = IF c.val = NoVal THEN 0
                                            ELSE m.actualSize + 1])
    BY <2>1, <2>3
  <2> HIDE DEF m, c
  <2> QED
    BY <1>1, <2>1, <2>2, <2>3, <2>4, AppendRestartable, ZenonT(30) DEF m
<1>5. CASE RemoveByTombstone(p)
  <2>1. /\ pc[p] = "body" /\ c.key \in Keys
        /\ fastOK(m) /\ 1 <= spaceLeft(m) /\ m.actualSize > 0
        /\ appendRaw(p, Pair(c.key, NoVal), [m.dict EXCEPT ![c.key] = 0])
    BY <1>2, <1>5, ZenonT(30) DEF RemoveByTombstone, CanBury, Tombstone
  <2>2. appendRaw(p, Pair(c.key, NoVal),
                  [m.dict EXCEPT ![c.key] = IF NoVal = NoVal THEN 0
                                            ELSE m.actualSize + 1])
    BY <2>1
  <2>3. NoVal \in Vals \cup {NoVal}
    OBVIOUS
  <2> HIDE DEF m, c
  <2> QED
    BY <1>1, <2>1, <2>2, <2>3, AppendRestartable, ZenonT(30) DEF m
<1>6. CASE SetByWriteback(p)
  <2>1. [Visible(p) EXCEPT ![c.key] = c.val] \in Maps
    BY <1>1, <1>2, <1>6, ZenonT(30) DEF SetByWriteback, Maps
  <2> QED
    BY <1>2, <1>6, <2>1, WritebackRestartable, ZenonT(30) DEF SetByWriteback
<1>7. CASE RemoveByWriteback(p)
  <2>1. [Visible(p) EXCEPT ![c.key] = NoVal] \in Maps
    BY <1>1, <1>2, <1>7, ZenonT(30) DEF RemoveByWriteback, Maps
  <2> QED
    BY <1>2, <1>7, <2>1, WritebackRestartable, ZenonT(30) DEF RemoveByWriteback
<1>8. CASE RemoveMany(p)
  <2>1. [k \in Keys |-> IF k \in c.keys THEN NoVal ELSE Visible(p)[k]] \in Maps
    BY <1>1, SMTT(30) DEF Maps
  <2> QED
    BY <1>2, <1>8, <2>1, WritebackRestartable, ZenonT(30) DEF RemoveMany
<1>9. CASE ClearAll(p)
  <2>1. op[p] \in WriteCalls
    BY <1>2, <1>9, ZenonT(30) DEF ClearAll
  <2> QED
    BY <1>9, <2>1, ClearAllRestartable, ZenonT(30)
<1>10. CASE TrimCompact(p)
  BY <1>1, <1>2, <1>10, WritebackRestartable, ZenonT(30) DEF TrimCompact
<1> QED
  BY <1>3, <1>4, <1>5, <1>6, <1>7, <1>8, <1>9, <1>10, ZenonT(30)


\* Only two steps complete the stores of a call.
LEMMA OnlyTwoComplete ==
    ASSUME NEW p \in Procs, Step(p), Completing(p)
    PROVE  \/ pc[p] = "size" /\ StoreActualSize(p)
           \/ pc[p] = "meta" /\ StoreMeta(p)
<1>1. ASSUME \/ Get(p) \/ SkipSet(p) \/ SetByOverride(p) \/ SetByAppend(p)
             \/ SetByWriteback(p) \/ RemoveByTombstone(p) \/ RemoveByWriteback(p)
             \/ RemoveMany(p) \/ RemoveNothing(p) \/ ClearAll(p) \/ TrimCompact(p)
      PROVE  FALSE
  <2>1. pc[p] = "body"
    BY <1>1, ZenonT(30)
       DEF Get, SkipSet, SetByOverride, SetByAppend, SetByWriteback,
           RemoveByTombstone, RemoveByWriteback, RemoveMany, RemoveNothing,
           ClearAll, TrimCompact, In
  <2> QED
    BY <2>1 DEF Completing
<1>2. ASSUME \/ RejectReadOnly(p) \/ checkLoadData(p) \/ Shrink(p) \/ StoreCRC(p)
             \/ Grow(p) \/ KeepSize(p) \/ StoreRegion(p) \/ End(p)
      PROVE  FALSE
  <2>1. pc[p] \in {"check", "shrink", "crc", "grow", "region", "unlock"}
    BY <1>2, ZenonT(30) DEF RejectReadOnly, checkLoadData, Shrink, StoreCRC, Grow,
                       KeepSize, StoreRegion, End
  <2> QED
    BY <2>1 DEF Completing
<1>3. StoreActualSize(p) => pc[p] = "size"
  BY Zenon DEF StoreActualSize
<1>4. StoreMeta(p) => pc[p] = "meta"
  BY Zenon DEF StoreMeta
<1> QED
  BY <1>1, <1>2, <1>3, <1>4, ZenonT(30) DEF Step

LEMMA StepRestartable ==
    ASSUME Locked, Locked', NEW p \in Procs, Restartable(p), Step(p), Track(p)
    PROVE  Restartable(p)'
<1>1. TypeOK /\ TypeOK'
  BY Zenon DEF Locked
<1>2. CASE Completing(p)
  BY <1>2, OnlyTwoComplete, StoreActualSizeRestartable, StoreMetaRestartable, ZenonT(30)
<1>3. CASE ~Completing(p)
  <2>1. UNCHANGED <<may, confirmed, damage>>
    BY <1>3, PlainTrack, ZenonT(30)
  <2>2. CASE \/ RejectReadOnly(p) \/ Get(p) \/ SkipSet(p) \/ RemoveNothing(p)
             \/ End(p)
    <3>1. /\ pc[p] \in {"check", "body", "unlock"}
          /\ pc'[p] \in {"idle", "unlock"} /\ UNCHANGED <<data, meta, inst>>
      BY <1>1, <2>2, ZenonT(30)
         DEF RejectReadOnly, Get, SkipSet, RemoveNothing, End, In, TypeOK
    <3>2. /\ pc[p] \in {"idle", "check", "body", "unlock"}
          /\ pc'[p] \in {"idle", "check", "unlock"}
      BY <3>1
    <3> QED
      BY <2>1, <3>1, <3>2, MoveRestartable, ZenonT(30)
  <2>3. CASE \/ SetByOverride(p) \/ SetByAppend(p) \/ SetByWriteback(p)
             \/ RemoveByTombstone(p) \/ RemoveByWriteback(p) \/ RemoveMany(p)
             \/ ClearAll(p) \/ TrimCompact(p)
    BY <2>1, <2>3, BodyRestartable, ZenonT(30)
  <2>4. CASE checkLoadData(p)
    BY <1>1, <2>1, <2>4, CheckLoadRestartable, ZenonT(30)
  <2>5. CASE StoreCRC(p)
    BY <1>1, <2>1, <2>5, StoreCRCRestartable, ZenonT(30)
  <2>6. CASE Grow(p) \/ KeepSize(p)
    BY <2>1, <2>6, GrowRestartable, ZenonT(30)
  <2>7. CASE StoreRegion(p)
    BY <2>1, <2>7, StoreRegionRestartable, ZenonT(30)
  <2>8. CASE Shrink(p)
    BY <2>1, <2>8, ShrinkRestartable, ZenonT(30)
  <2>9. ~StoreActualSize(p) /\ ~StoreMeta(p)
    BY <1>3, Zenon DEF Completing, StoreActualSize, StoreMeta
  <2> QED
    BY <2>2, <2>3, <2>4, <2>5, <2>6, <2>7, <2>8, <2>9, ZenonT(30) DEF Step
<1> QED
  BY <1>2, <1>3

LEMMA CallRestartable ==
    ASSUME Locked, Locked', NEW p \in Procs, Restartable(p), Call(p)
    PROVE  Restartable(p)'
<1>1. TypeOK /\ Track(p)
  BY Zenon DEF Locked, Call
<1>2. CASE Step(p)
  BY <1>1, <1>2, StepRestartable, ZenonT(30)
<1>3. CASE \/ Lock(p) \/ Unlock(p)
           \/ \E c \in Calls : BeginRead(p, c) \/ BeginWrite(p, c)
  <2>1. /\ pc[p] = "idle" /\ pc'[p] \in {"idle", "check"}
        /\ UNCHANGED <<data, meta, inst>>
    BY <1>1, <1>3, ZenonT(30) DEF Lock, Unlock, BeginRead, BeginWrite, TypeOK
  <2>2. /\ pc[p] \in {"idle", "check", "body", "unlock"}
        /\ pc'[p] \in {"idle", "check", "unlock"} /\ ~Completing(p)
    BY <2>1 DEF Completing
  <2>3. UNCHANGED <<may, confirmed, damage>>
    BY <1>1, <2>2, PlainTrack, ZenonT(30)
  <2> QED
    BY <2>1, <2>2, <2>3, MoveRestartable, ZenonT(30)
<1>4. CASE ClearMemoryCache(p)
  <2>1. ~Completing(p)
    BY <1>4 DEF ClearMemoryCache, Completing
  <2>2. UNCHANGED <<may, confirmed, damage>>
    BY <1>1, <2>1, PlainTrack, ZenonT(30)
  <2> QED
    BY <1>1, <1>4, <2>2, ClearCacheRestartable, ZenonT(30)
<1> QED
  BY <1>2, <1>3, <1>4, ZenonT(30) DEF Call

\* One process has the store, and if it may repair what it salvages it is not
\* read-only: a read-only process would go on with the salvaged map.
Alone == (\E p \in Procs : Procs = {p}) /\ ReadOnly \cap Recovering = {}

RestartInv == Locked /\ \A p \in Procs : Restartable(p)

LEMMA NextRestartable ==
    ASSUME Alone, Locked, Locked', NEW p \in Procs, Restartable(p),
           [RestartNext]_allVars
    PROVE  Restartable(p)'
<1>1. Procs = {p} /\ ReadOnly \cap Recovering = {} /\ TypeOK
  BY DEF Alone, Locked
<1>2. CASE UNCHANGED allVars
  <2>1. UNCHANGED <<data, meta, inst, pc, op, buf, may, confirmed, damage>>
    BY <1>2, ZenonT(30) DEF allVars, vars, crashVars
  <2>2. /\ CurrentGood' = CurrentGood /\ SnapshotGood' = SnapshotGood
        /\ Loads' = Loads /\ FileSize' = FileSize
    BY <2>1, CurrentStays, SMTT(30)
  <2>3. FilesKnown(p)'
    BY <2>1, <2>2, SMTT(30) DEF Restartable, FilesKnown, Untorn, Extends, Headed
  <2>4. /\ Settled(inst[p])' <=> Settled(inst[p])
        /\ Extended(inst[p])' <=> Extended(inst[p])
    BY <2>1, <2>2, SMTT(30) DEF Settled, Extended, Decoded, InFile, Headed
  <2>5. (WritingBack(p)' <=> WritingBack(p)) /\ (Opening(p)' <=> Opening(p))
    BY <2>1, <2>2, SMTT(30) DEF WritingBack, Opening, InFile, Headed
  <2>6. Knows(p)'
    BY <2>1, <2>2, <2>4, <2>5, ZenonT(30) DEF Restartable, Knows
  <2> QED
    BY <2>3, <2>6 DEF Restartable
<1>3. CASE Call(p)
  BY <1>1, <1>3, CallRestartable, ZenonT(30)
<1>4. CASE Kill(p)
  BY <1>1, <1>4, KillRestartable, ZenonT(30)
<1>5. CASE Open(p)
  BY <1>1, <1>5, OpenMapRestartable, OpenReadMetaRestartable,
     OpenCheckRestartable, OpenDecodeRestartable, OpenRepairRestartable, ZenonT(30)
     DEF Open
<1>6. ASSUME NEW i \in DOMAIN data, Corrupt(i)
      PROVE  Restartable(p)'
  BY <1>1, <1>6, CorruptRestartable, ZenonT(30)
<1>7. RestartNext => Call(p) \/ Kill(p) \/ Open(p) \/ \E i \in DOMAIN data : Corrupt(i)
  BY <1>1, Zenon DEF RestartNext
<1> QED
  BY <1>2, <1>3, <1>4, <1>5, <1>6, <1>7, ZenonT(30)

LEMMA AlwaysRestartable ==
    ASSUME Alone
    PROVE  RestartSpec => []RestartInv
<1>1. CrashInit => RestartInv
  BY InitTyped, InitRestartable, ZenonT(30) DEF RestartInv
<1>2. Locked' /\ RestartInv /\ [RestartNext]_allVars => RestartInv'
  BY NextRestartable, Zenon DEF RestartInv
<1> QED
  BY <1>1, <1>2, RestartLocked, PTL DEF RestartSpec

-----------------------------------------------------------------------------
(***************************************************************************)
(* What a process that is alone on its store sees and leaves.              *)
(***************************************************************************)
LEMMA BodyShows ==
    ASSUME Locked, NEW p \in Procs, Restartable(p), pc[p] = "body"
    PROVE  /\ Visible(p) \in may \cup confirmed \cup {EmptyMap}
           /\ damage = "none" => Visible(p) \in may
<1>1. TypeOK
  BY DEF Locked
<1>2. Visible(p) = Contents(Loads)
  <2>1. Decoded(inst[p]) /\ inst[p].crcDigest = Loads
    BY <1>1, BodyFacts, ZenonT(30)
  <2>2. Loads \in Seq(Slot) /\ InFile(Loads)
    BY <1>1, LoadsInFile, ZenonT(30)
  <2>3. Deref(data, parseDict(Loads)) = Contents(Loads)
    BY <1>1, <2>2, InFileShows, ZenonT(30)
  <2> QED
    BY <2>1, <2>3, ZenonT(30) DEF Visible, Decoded
<1>3. /\ Contents(meta.crcDigest) \in may /\ Contents(meta.lastCRCDigest) \in confirmed
      /\ damage = "none" => CurrentGood
  BY <1>1 DEF Restartable, FilesKnown, Untorn
<1>4. Contents(<<>>) = EmptyMap
  BY EmptyContents
<1> QED
  BY <1>1, <1>2, <1>3, <1>4, ZenonT(30) DEF Loads

\* A process that is alone on its store and is killed where no store is torn
\* loses nothing, however often it is killed and opens the store again: a call
\* that has loaded the store sees every completed call (run restart).
THEOREM RestartsLoseNothing ==
    ASSUME Alone
    PROVE  RestartSpec => []CompletedCallsSurvive
<1>1. RestartInv => CompletedCallsSurvive
  BY BodyShows, ZenonT(30) DEF RestartInv, CompletedCallsSurvive
<1> QED
  BY <1>1, AlwaysRestartable, PTL

\* Whatever store a kill tears and whatever byte is damaged while the store is
\* closed, the next load of a process that is alone shows a whole state of the
\* store or nothing (run restart).
THEOREM RestartsNeverMix ==
    ASSUME Alone
    PROVE  RestartSpec => []NeverAMixture
<1>1. RestartInv => NeverAMixture
  BY BodyShows, Zenon DEF RestartInv, NeverAMixture
<1> QED
  BY <1>1, AlwaysRestartable, PTL

\* The digest kept incrementally is right after every call that completes its
\* stores, also when the call started from a rolled-back, a discarded or a
\* salvaged store (run restart).
THEOREM DigestSurvivesRestarts ==
    ASSUME Alone
    PROVE  RestartSpec => StoresLeaveAGoodDigest
<1> DEFINE Leaves == \A p \in Procs :
                        Completing(p) /\ pc'[p] \in {"unlock", "shrink"} =>
                            meta'.crcDigest = Region(data', meta'.actualSize)
<1>1. RestartInv /\ [RestartNext]_allVars => [Leaves]_allVars
  <2> SUFFICES ASSUME RestartInv, RestartNext, NEW q \in Procs,
                      Completing(q), pc'[q] \in {"unlock", "shrink"}
               PROVE  meta'.crcDigest = Region(data', meta'.actualSize)
    BY Zenon
  <2>1. Procs = {q} /\ Locked /\ TypeOK /\ Restartable(q)
    BY DEF Alone, RestartInv, Locked
  <2>2. ~Kill(q)
    BY <2>1 DEF Kill, Leave, TypeOK
  <2>3. ~Open(q)
    BY <2>1 DEF Open, OpenMap, OpenReadMeta, OpenCheck, OpenDecode, OpenRepair,
                Completing
  <2>4. ASSUME NEW i \in DOMAIN data PROVE ~Corrupt(i)
    BY <2>1 DEF Corrupt, Completing
  <2>5. Call(q)
    BY <2>1, <2>2, <2>3, <2>4, ZenonT(30) DEF RestartNext
  <2>6. Step(q) /\ Track(q)
    BY <2>1, <2>5, SMTT(30) DEF Call, Lock, Unlock, ClearMemoryCache, BeginRead,
                      BeginWrite, Completing
  <2>7. CurrentGood' /\ meta'.version = versionFlag
    BY <2>1, <2>6, OnlyTwoComplete, StoreActualSizeRestartable,
       StoreMetaRestartable, ZenonT(30)
  <2>8. readActualSize(meta)' = meta'.actualSize
    BY <2>7 DEF readActualSize, versionFlag, versionActualSize
  <2> QED
    BY <2>7, <2>8 DEF CurrentGood, Good
<1> QED
  BY <1>1, AlwaysRestartable, PTL DEF RestartSpec, StoresLeaveAGoodDigest
=============================================================================
