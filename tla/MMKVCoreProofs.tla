---------------------------- MODULE MMKVCoreProofs ----------------------------
(***************************************************************************)
(* Proofs about MMKVCore, for any processes, keys, values, page size and   *)
(* calls, in single- and in multi-process mode.                            *)
(*                                                                         *)
(* Locked: the types, and the discipline of the flock, also with processes *)
(* that have the store closed, are opening it or have died.  Basics: the   *)
(* same when all have it open; a process inside a write call is the only   *)
(* one inside a call.                                                      *)
(***************************************************************************)
EXTENDS MMKVCore, StoreFormatProofs

InCall(p) ==
    /\ pc[p] \notin OpenSteps
    /\ pc[p] = "idle" => op[p] = NoCall
    /\ pc[p] # "idle" => op[p] \in ReadCalls \cup WriteCalls
    /\ pc[p] \in {"crc", "size", "grow", "region", "meta", "shrink"} =>
          op[p] \in WriteCalls
    /\ MultiProcess /\ op[p] \in ReadCalls => sh[p] > 0
    /\ MultiProcess /\ op[p] \in WriteCalls => ex[p] > 0

Held(p) ==
    /\ pc[p] \in OpenSteps \cup {"idle"} => op[p] = NoCall
    /\ pc[p] \notin OpenSteps \cup {"idle"} =>
          op[p] \in ReadCalls \cup WriteCalls \cup {RepairCall}
    /\ op[p] \in ReadCalls => pc[p] \in {"check", "body", "unlock"}
    /\ op[p] = RepairCall => pc[p] \in {"grow", "region", "meta", "unlock"}
    /\ MultiProcess /\ op[p] \in ReadCalls => sh[p] > 0
    /\ MultiProcess /\ op[p] \in WriteCalls \cup {RepairCall} => ex[p] > 0

Exclusive == \A p, q \in Procs : p # q /\ ex[p] > 0 => ex[q] = 0 /\ sh[q] = 0

Basics == TypeOK /\ Exclusive /\ \A p \in Procs : InCall(p)

Locked == TypeOK /\ Exclusive /\ \A p \in Procs : Held(p)

-----------------------------------------------------------------------------
(***************************************************************************)
(* Types.                                                                  *)
(***************************************************************************)
LEMMA CallKinds ==
    /\ NoCall \notin ReadCalls /\ NoCall \notin WriteCalls
    /\ \A c \in ReadCalls : c.kind = "get" /\ c \notin WriteCalls
    /\ \A c \in WriteCalls :
          c.kind \in {"set", "remove", "removeMany", "clear", "trim"}
    /\ \A c \in WriteCalls : c.kind \in {"set", "remove"} => c.key \in Keys
    /\ \A c \in WriteCalls : c.kind = "set" => c.val \in Vals
    /\ RepairCall \notin ReadCalls \cup WriteCalls \cup {NoCall}
    /\ RepairCall.kind = "repair"
  BY DEF NoCall, RepairCall, ReadCalls, WriteCalls

LEMMA BasicsAre ==
    Basics <=> Locked /\ \A p \in Procs : pc[p] \notin OpenSteps /\ op[p] # RepairCall
<1>1. ASSUME TypeOK, NEW p \in Procs
      PROVE  InCall(p) <=> Held(p) /\ pc[p] \notin OpenSteps /\ op[p] # RepairCall
  BY <1>1, CallKinds DEF InCall, Held, TypeOK, Steps, OpenSteps
<1> QED
  BY <1>1 DEF Basics, Locked

LEMMA DerefType ==
    ASSUME NEW mem \in Seq(Slot), NEW dict \in [Keys -> Nat]
    PROVE  Deref(mem, dict) \in Maps
<1>1. \A i \in DOMAIN mem : mem[i] \in Slot
  OBVIOUS
<1>2. \A i \in DOMAIN mem : mem[i].val \in Vals \cup {NoVal}
  BY <1>1 DEF Slot
<1> QED
  BY <1>2 DEF Deref, Maps

LEMMA VisibleType == ASSUME TypeOK, NEW p \in Procs PROVE Visible(p) \in Maps
  BY DerefType DEF TypeOK, Instance, Visible

\* What the four outcomes of a load make of an instance.
LEMMA DecodedType ==
    ASSUME NEW i \in Instance
    PROVE  /\ decodeRegion(i, readActualSize(i.info), i.info.crcDigest) \in Instance
           /\ rollback(i) \in Instance /\ salvage(i) \in Instance
           /\ discard(i) \in Instance
<1>1. i.info \in MetaInfo
  BY DEF Instance
<1>2. decodeRegion(i, readActualSize(i.info), i.info.crcDigest) \in Instance
  BY <1>1, ParseDictType, Zenon
     DEF decodeRegion, readActualSize, Instance, MetaInfo
<1>3. rollback(i) \in Instance
  <2> DEFINE j == [i EXCEPT !.info.actualSize = i.info.lastActualSize,
                            !.info.crcDigest = i.info.lastCRCDigest]
  <2>1. j \in Instance
    BY <1>1, Zenon DEF Instance, MetaInfo
  <2> HIDE DEF j
  <2>2. decodeRegion(j, i.info.lastActualSize, i.info.lastCRCDigest) \in Instance
    BY <1>1, <2>1, ParseDictType, Zenon DEF decodeRegion, Instance, MetaInfo
  <2> QED
    BY <2>2 DEF rollback, j
<1>4. salvage(i) \in Instance
  BY <1>1, ParseDictType, Zenon DEF salvage, parseDictGreedy, Instance, MetaInfo
<1>5. discard(i) \in Instance
  <2>1. <<>> \in Seq(Slot) /\ EmptyDict \in [Keys -> Nat]
    BY DEF EmptyDict
  <2> QED
    BY <2>1, Zenon DEF discard, Instance
<1> QED
  BY <1>2, <1>3, <1>4, <1>5

LEMMA LoadType ==
    ASSUME meta \in MetaInfo, NEW m \in Instance
    PROVE  loadData(m) \in Instance
<1> DEFINE i == [m EXCEPT !.info = meta]
<1>1. i \in Instance
  BY DEF Instance
<1> HIDE DEF i
<1> QED
  BY <1>1, DecodedType, Zenon DEF loadData, loadInto, i

LEMMA RemapType ==
    ASSUME data \in Seq(Slot), NEW m \in Instance
    PROVE  remap(m) \in Instance
<1>1. FileSize \in Nat
  BY StoreAssumption DEF FileSize
<1>2. [m EXCEPT !.size = FileSize, !.dangling = TRUE] \in Instance
  BY <1>1, Zenon DEF Instance
<1> QED
  BY <1>2 DEF remap

LEMMA TruncatedType ==
    ASSUME data \in Seq(Slot), NEW m \in Instance, NEW n \in Nat
    PROVE  truncated(m, n) \in Instance /\ truncatedFile(m, n) \in Seq(Slot)
<1>1. pageRoundUp(n) \in Nat /\ pageRoundUp(n) - HeaderSize \in Nat
  <2> DEFINE r == pageRoundUp(n)
  <2>1. r \in Nat /\ r >= PageSize
    BY RoundUp, Zenon
  <2> HIDE DEF r
  <2>2. r - HeaderSize \in Nat
    BY <2>1, StoreAssumption
  <2> QED
    BY <2>1, <2>2 DEF r
<1>2. [m EXCEPT !.size = pageRoundUp(n), !.dangling = TRUE] \in Instance
  BY <1>1, Zenon DEF Instance
<1>3. truncated(m, n) \in Instance
  BY <1>2 DEF truncated
<1>4. truncatedFile(m, n) \in Seq(Slot)
  BY <1>1, ResizeType DEF truncatedFile
<1> QED
  BY <1>3, <1>4

LEMMA NextInfoType ==
    ASSUME NEW m \in Instance
    PROVE  NextInfo(m) \in MetaInfo
<1>1. m.info \in MetaInfo /\ m.actualSize \in Nat /\ m.crcDigest \in Seq(Slot)
  BY DEF Instance
<1>2. m.info.sequence + 1 \in Nat
  BY <1>1 DEF MetaInfo
<1> QED
  BY <1>1, <1>2, Zenon DEF NextInfo, MetaInfo, versionFlag

LEMMA AppendType ==
    ASSUME TypeOK, NEW p \in Procs, NEW item \in Slot, NEW d \in [Keys -> Nat],
           appendRaw(p, item, d)
    PROVE  data' \in Seq(Slot) /\ inst' \in [Procs -> Instance]
<1>1. inst[p] \in Instance /\ inst[p].info \in MetaInfo
  BY DEF TypeOK, Instance
<1>2. data' \in Seq(Slot)
  <2>1. PICK k \in Nat : data \in [1..k -> Slot]
    BY DEF TypeOK
  <2>2. data' \in [1..k -> Slot]
    BY <2>1 DEF appendRaw
  <2> QED
    BY <2>2
<1>3. appended(inst[p], item, d) \in Instance
  <2>1. /\ inst[p].actualSize + 1 \in Nat
        /\ Append(inst[p].crcDigest, item) \in Seq(Slot)
    BY <1>1 DEF Instance
  <2> QED
    BY <1>1, <2>1, Zenon DEF appended, Instance, MetaInfo
<1> QED
  BY <1>2, <1>3 DEF TypeOK, appendRaw

LEMMA OverrideType ==
    ASSUME TypeOK, NEW p \in Procs, NEW k \in Keys, NEW v \in Vals,
           overrideRaw(p, k, v)
    PROVE  data' \in Seq(Slot) /\ inst' \in [Procs -> Instance]
<1> DEFINE region == <<ItemSizeHolder, Pair(k, v)>>
<1>1. inst[p] \in Instance /\ inst[p].info \in MetaInfo
  BY DEF TypeOK, Instance
<1>2. region \in Seq(Slot) /\ region[1] \in Slot /\ region[2] \in Slot
  BY SlotTypes
<1>3. /\ data' = [i \in DOMAIN data |-> IF i <= 2 THEN region[i] ELSE data[i]]
      /\ inst' = [inst EXCEPT ![p] = overridden(@, k, region)]
  BY DEF overrideRaw
<1> HIDE DEF region
<1>4. data' \in Seq(Slot)
  <2>1. PICK n \in Nat : data \in [1..n -> Slot]
    BY DEF TypeOK
  <2>2. data' \in [1..n -> Slot]
    BY <1>2, <1>3, <2>1
  <2> QED
    BY <2>2
<1>5. overridden(inst[p], k, region) \in Instance
  <2>1. [inst[p].dict EXCEPT ![k] = 2] \in [Keys -> Nat]
    BY <1>1 DEF Instance
  <2> QED
    BY <1>1, <1>2, <2>1, Zenon DEF overridden, Instance, MetaInfo
<1> QED
  BY <1>3, <1>4, <1>5 DEF TypeOK

-----------------------------------------------------------------------------
(***************************************************************************)
(* Basics is inductive.                                                    *)
(***************************************************************************)
LEMMA InitBasics == Init => Basics
<1> SUFFICES ASSUME NEW version \in {0, 3, 4}, NEW region \in Seq(Slot),
                    InitWith(version, region)
             PROVE  Basics
  <2>1. \A map \in InitMaps : encodeRegion(map) \in Seq(Slot)
    BY EncodeType, CoreAssumption
  <2>2. <<>> \in Seq(Slot)
    OBVIOUS
  <2> QED
    BY <2>1, <2>2, Zenon DEF Init
<1>1. StoredInfo(version, region) \in MetaInfo
  BY DEF StoredInfo, MetaInfo
<1>2. \A p \in Procs : Opened(meta, region, p \in Recovering) \in Instance
  BY <1>1, ParseDictType, StoreAssumption DEF InitWith, Opened, Instance
<1>3. data \in Seq(Slot)
  BY ResizeType, StoreAssumption DEF InitWith
<1>4. TypeOK
  BY <1>1, <1>2, <1>3 DEF InitWith, TypeOK, Steps, OpenSteps
<1> QED
  BY <1>4, CallKinds DEF InitWith, Basics, Exclusive, InCall, OpenSteps

\* Steps inside a call that take no lock keep Locked if they keep the types
\* and stay inside the call.
LEMMA InsideLocked ==
    ASSUME Locked, NEW p \in Procs, TypeOK', UNCHANGED <<ex, sh, op>>,
           op[p] \in ReadCalls \cup WriteCalls \cup {RepairCall},
           NEW next \in {"body", "unlock", "crc", "size", "grow", "region", "meta",
                         "shrink"},
           pc' = [pc EXCEPT ![p] = next],
           op[p] \in ReadCalls => next \in {"body", "unlock"},
           op[p] = RepairCall => next \in {"region", "meta", "unlock"}
    PROVE  Locked'
<1>1. pc'[p] = next /\ \A q \in Procs \ {p} : pc'[q] = pc[q]
  BY DEF Locked, TypeOK
<1>2. Exclusive'
  BY DEF Locked, Exclusive
<1>3. \A q \in Procs \ {p} : Held(q)'
  BY <1>1, Zenon DEF Locked, Held
<1>4. Held(p)'
  <2>1. Held(p)
    BY DEF Locked
  <2> QED
    BY <1>1, <2>1, SMTT(30) DEF Held, OpenSteps
<1> QED
  BY <1>2, <1>3, <1>4, Zenon DEF Locked

LEMMA StepTypes ==
    ASSUME Locked, NEW p \in Procs, Step(p)
    PROVE  TypeOK'
<1> USE DEF Steps, OpenSteps
<1>0. /\ inst[p] \in Instance /\ inst[p].info \in MetaInfo
      /\ inst[p].dict \in [Keys -> Nat] /\ inst[p].actualSize \in Nat
      /\ inst[p].crcDigest \in Seq(Slot) /\ inst[p].size \in Nat
      /\ Visible(p) \in Maps /\ buf[p] \in Seq(Slot) /\ Len(buf[p]) \in Nat
  BY VisibleType DEF Locked, TypeOK, Instance
<1>1. ASSUME RejectReadOnly(p) \/ SkipSet(p) \/ RemoveNothing(p) \/ KeepSize(p)
      PROVE  TypeOK'
  BY <1>1, Zenon DEF RejectReadOnly, SkipSet, RemoveNothing, KeepSize, Locked, TypeOK
<1>2. CASE checkLoadData(p)
  <2>1. [inst[p] EXCEPT !.needLoad = FALSE] \in Instance
    BY <1>0, Zenon DEF Instance
  <2>2. \A m \in Instance : remap(m) \in Instance /\ loadData(m) \in Instance
    BY RemapType, LoadType DEF Locked, TypeOK
  <2>3. inst' \in [Procs -> Instance]
    BY <1>0, <1>2, <2>1, <2>2 DEF checkLoadData, Locked, TypeOK
  <2> QED
    BY <1>2, <2>3 DEF checkLoadData, Locked, TypeOK
<1>3. CASE Get(p)
  <2>1. <<Visible(p)>> \in Seq(Maps)
    BY <1>0
  <2> QED
    BY <1>3, <2>1 DEF Get, Locked, TypeOK
<1>4. ASSUME SetByOverride(p) \/ SetByAppend(p) \/ RemoveByTombstone(p)
      PROVE  TypeOK'
  <2>1. data' \in Seq(Slot) /\ inst' \in [Procs -> Instance]
    <3>1. op[p].key \in Keys /\ (op[p].kind = "set" => op[p].val \in Vals)
      BY <1>4, CallKinds DEF SetByOverride, SetByAppend, RemoveByTombstone, In,
         Locked, Held, OpenSteps
    <3>2. CASE SetByOverride(p)
      BY <3>1, <3>2, OverrideType DEF SetByOverride, In, Locked
    <3>3. CASE SetByAppend(p)
      <4>1. [inst[p].dict EXCEPT ![op[p].key] = inst[p].actualSize + 1]
                \in [Keys -> Nat]
        BY <1>0, <3>1
      <4> QED
        BY <3>1, <3>3, <4>1, AppendType, SlotTypes DEF SetByAppend, In, Locked
    <3>4. CASE RemoveByTombstone(p)
      <4>1. [inst[p].dict EXCEPT ![op[p].key] = 0] \in [Keys -> Nat]
        BY <1>0, <3>1
      <4> QED
        BY <3>1, <3>4, <4>1, AppendType, SlotTypes
           DEF RemoveByTombstone, Tombstone, Locked
    <3> QED
      BY <1>4, <3>2, <3>3, <3>4
  <2> QED
    BY <1>4, <2>1, Zenon DEF SetByOverride, SetByAppend, RemoveByTombstone,
                      overrideRaw, appendRaw, Locked, TypeOK
<1>5. ASSUME NEW map \in Maps, StartWriteback(p, map) PROVE TypeOK'
  BY <1>5, EncodeType DEF StartWriteback, Locked, TypeOK
<1>6. ASSUME SetByWriteback(p) \/ RemoveByWriteback(p) \/ RemoveMany(p)
             \/ TrimCompact(p)
      PROVE  TypeOK'
  <2>1. op[p].kind \in {"set", "remove"} => op[p].key \in Keys
    BY <1>6, CallKinds DEF SetByWriteback, RemoveByWriteback, RemoveMany,
       TrimCompact, In, Locked, Held, OpenSteps
  <2>2. op[p].kind = "set" => op[p].val \in Vals
    BY <1>6, CallKinds DEF SetByWriteback, RemoveByWriteback, RemoveMany,
       TrimCompact, In, Locked, Held, OpenSteps
  <2>3. CASE SetByWriteback(p)
    <3>1. [Visible(p) EXCEPT ![op[p].key] = op[p].val] \in Maps
      BY <1>0, <2>1, <2>2, <2>3 DEF SetByWriteback, In, Maps
    <3> QED
      BY <2>3, <3>1, <1>5 DEF SetByWriteback
  <2>4. CASE RemoveByWriteback(p)
    <3>1. [Visible(p) EXCEPT ![op[p].key] = NoVal] \in Maps
      BY <1>0, <2>1, <2>4 DEF RemoveByWriteback, In, Maps
    <3> QED
      BY <2>4, <3>1, <1>5 DEF RemoveByWriteback
  <2>5. CASE RemoveMany(p)
    <3>1. [k \in Keys |-> IF k \in op[p].keys THEN NoVal ELSE Visible(p)[k]]
              \in Maps
      BY <1>0 DEF Maps
    <3> QED
      BY <2>5, <3>1, <1>5 DEF RemoveMany
  <2>6. CASE TrimCompact(p)
    BY <2>6, <1>0, <1>5 DEF TrimCompact
  <2> QED
    BY <1>6, <2>3, <2>4, <2>5, <2>6, SMTT(30)
<1>7. CASE ClearAll(p)
  <2>1. truncated(inst[p], 0) \in Instance /\ truncatedFile(inst[p], 0) \in Seq(Slot)
    BY <1>0, TruncatedType DEF Locked, TypeOK
  <2>2. <<>> \in Seq(Slot) /\ EmptyDict \in [Keys -> Nat]
    BY DEF EmptyDict
  <2>3. [truncated(inst[p], 0) EXCEPT !.dict = EmptyDict, !.actualSize = 0,
                                      !.crcDigest = <<>>] \in Instance
    BY <2>1, <2>2, Zenon DEF Instance
  <2> QED
    BY <1>7, <2>1, <2>2, <2>3 DEF ClearAll, Locked, TypeOK
<1>8. CASE Shrink(p)
  <2>1. PICK t \in HalvedTo(inst[p].size, inst[p].actualSize + HeaderSize) :
          LET target == IF t < PageSize THEN PageSize ELSE t
              file == truncatedFile(inst[p], target)
          IN  IF target >= inst[p].size
              THEN UNCHANGED <<data, inst>>
              ELSE /\ data' = file
                   /\ inst' = [inst EXCEPT ![p] =
                        [truncated(@, target) EXCEPT
                            !.dict = parseDict(Region(file, inst[p].actualSize)),
                            !.dangling = FALSE]]
    BY <1>8, Zenon DEF Shrink
  <2> DEFINE target == IF t < PageSize THEN PageSize ELSE t
             file == truncatedFile(inst[p], target)
  <2>2. target \in Nat
    BY <1>0, StoreAssumption DEF HalvedTo
  <2> HIDE DEF target
  <2>3. truncated(inst[p], target) \in Instance /\ file \in Seq(Slot)
    BY <1>0, <2>2, TruncatedType, Zenon DEF Locked, TypeOK
  <2>4. [truncated(inst[p], target) EXCEPT
            !.dict = parseDict(Region(file, inst[p].actualSize)),
            !.dangling = FALSE] \in Instance
    BY <2>3, ParseDictType, Zenon DEF Instance
  <2>5. data' \in Seq(Slot) /\ inst' \in [Procs -> Instance]
    BY <2>1, <2>3, <2>4, Zenon DEF target, Locked, TypeOK
  <2> QED
    BY <1>8, <2>5, Zenon DEF Shrink, Locked, TypeOK
<1>9. ASSUME StoreCRC(p) \/ StoreActualSize(p) PROVE TypeOK'
  <2>1. meta' \in MetaInfo
    BY <1>0, <1>9, Zenon DEF StoreCRC, StoreActualSize, Locked, TypeOK, MetaInfo
  <2> QED
    BY <1>9, <2>1, Zenon DEF StoreCRC, StoreActualSize, Locked, TypeOK
<1>10. CASE Grow(p)
  <2>1. PICK n \in DoubledPast(inst[p].size,
                    GrowTarget(Len(buf[p]), Len(buf[p]) - 1, Incoming(p))) :
          /\ data' = truncatedFile(inst[p], n)
          /\ inst' = [inst EXCEPT ![p] = truncated(@, n)]
    BY <1>10, Zenon DEF Grow
  <2>2. n \in Nat
    BY <1>0, <2>1 DEF DoubledPast
  <2>3. truncated(inst[p], n) \in Instance /\ truncatedFile(inst[p], n) \in Seq(Slot)
    BY <1>0, <2>2, TruncatedType DEF Locked, TypeOK
  <2> QED
    BY <1>10, <2>1, <2>3 DEF Grow, Locked, TypeOK
<1>11. CASE StoreRegion(p)
  <2>1. data' \in Seq(Slot)
    <3>1. PICK k \in Nat : data \in [1..k -> Slot]
      BY DEF Locked, TypeOK
    <3>2. data' \in [1..k -> Slot]
      BY <1>0, <1>11, <3>1 DEF StoreRegion
    <3> QED
      BY <3>2
  <2>2. [inst[p] EXCEPT !.actualSize = Len(buf[p]), !.crcDigest = buf[p]] \in Instance
    BY <1>0, Zenon DEF Instance
  <2> QED
    BY <1>11, <2>1, <2>2 DEF StoreRegion, Locked, TypeOK
<1>12. CASE StoreMeta(p)
  <2>1. NextInfo(inst[p]) \in MetaInfo
    BY <1>0, NextInfoType
  <2>2. [inst[p] EXCEPT !.info = NextInfo(inst[p]), !.dict = parseDict(buf[p]),
            !.needFullWriteback = FALSE, !.dangling = FALSE] \in Instance
    BY <1>0, <2>1, ParseDictType, Zenon DEF Instance
  <2> QED
    BY <1>12, <2>1, <2>2 DEF StoreMeta, Locked, TypeOK
<1>13. CASE End(p)
  <2>1. <<>> \in Seq(Slot) /\ <<>> \in Seq(Maps)
    OBVIOUS
  <2>2. ex' \in [Procs -> Nat] /\ sh' \in [Procs -> Nat]
    <3>1. /\ ex \in [Procs -> Nat] /\ sh \in [Procs -> Nat]
          /\ MultiProcess /\ op[p] \in ReadCalls => sh[p] > 0
          /\ MultiProcess /\ op[p] \notin ReadCalls => ex[p] > 0
      <4>1. pc[p] = "unlock" /\ Held(p)
        BY <1>13, Zenon DEF End, Locked
      <4>2. op[p] \in ReadCalls \cup WriteCalls \cup {RepairCall}
        BY <4>1 DEF Held, OpenSteps
      <4> QED
        BY <4>1, <4>2, Zenon DEF Held, Locked, TypeOK
    <3>2. CASE ~MultiProcess
      BY <1>13, <3>1, <3>2 DEF End
    <3>3. CASE MultiProcess /\ op[p] \in ReadCalls
      BY <1>13, <3>1, <3>3 DEF End
    <3>4. CASE MultiProcess /\ op[p] \notin ReadCalls
      BY <1>13, <3>1, <3>4 DEF End
    <3> QED
      BY <3>2, <3>3, <3>4
  <2> QED
    BY <1>13, <2>1, <2>2, Zenon DEF End, Locked, TypeOK
<1> QED
  BY <1>1, <1>2, <1>3, <1>4, <1>6, <1>7, <1>8, <1>9, <1>10, <1>11, <1>12, <1>13,
     Zenon DEF Step

LEMMA StepLocked ==
    ASSUME Locked, NEW p \in Procs, Step(p)
    PROVE  Locked'
<1>1. TypeOK'
  BY StepTypes
<1>2. CASE End(p)
  <2>1. op'[p] = NoCall /\ pc'[p] = "idle"
        /\ \A q \in Procs \ {p} : op'[q] = op[q] /\ pc'[q] = pc[q]
                                /\ ex'[q] = ex[q] /\ sh'[q] = sh[q]
    <3> SUFFICES ASSUME NEW q \in Procs \ {p}
                 PROVE  ex'[q] = ex[q] /\ sh'[q] = sh[q]
      BY <1>2 DEF End, Locked, TypeOK
    <3> QED
      BY <1>2 DEF End, Locked, TypeOK
  <2>2. ex'[p] <= ex[p] /\ sh'[p] <= sh[p]
    BY <1>2 DEF End, Locked, TypeOK
  <2>3. Exclusive'
    <3>1. \A q \in Procs : /\ ex'[q] \in Nat /\ sh'[q] \in Nat
                           /\ ex[q] \in Nat /\ sh[q] \in Nat
                           /\ ex'[q] <= ex[q] /\ sh'[q] <= sh[q]
      <4>1. /\ ex \in [Procs -> Nat] /\ sh \in [Procs -> Nat]
            /\ ex' \in [Procs -> Nat] /\ sh' \in [Procs -> Nat]
        BY <1>1 DEF Locked, TypeOK
      <4>2. \A q \in Procs : ex'[q] <= ex[q] /\ sh'[q] <= sh[q]
        BY <2>1, <2>2, <4>1
      <4> QED
        BY <4>1, <4>2
    <3>2. Exclusive
      BY DEF Locked
    <3> QED
      BY <3>1, <3>2 DEF Exclusive
  <2>4. \A q \in Procs : Held(q)'
    BY <2>1, CallKinds DEF Locked, Held, OpenSteps
  <2> QED
    BY <1>1, <2>3, <2>4 DEF Locked
<1>3. CASE ~End(p)
  <2>1. UNCHANGED <<ex, sh, op>>
    BY <1>3, Zenon DEF Step, RejectReadOnly, checkLoadData, Get, SkipSet, SetByOverride,
       SetByAppend, SetByWriteback, RemoveByTombstone, RemoveByWriteback,
       RemoveMany, RemoveNothing, ClearAll, TrimCompact, Shrink, StoreCRC,
       StoreActualSize, Grow, KeepSize, StoreRegion, StoreMeta, overrideRaw,
       appendRaw, StartWriteback
  <2>2. pc[p] \in {"check", "body", "crc", "size", "grow", "region", "meta", "shrink"}
    BY <1>3, Zenon DEF Step, RejectReadOnly, checkLoadData, Get, SkipSet, SetByOverride,
       SetByAppend, SetByWriteback, RemoveByTombstone, RemoveByWriteback,
       RemoveMany, RemoveNothing, ClearAll, TrimCompact, Shrink, StoreCRC,
       StoreActualSize, Grow, KeepSize, StoreRegion, StoreMeta, In
  <2>3. op[p] \in ReadCalls \cup WriteCalls \cup {RepairCall}
    BY <2>2, SMTT(30) DEF Locked, Held, OpenSteps
  <2>4. PICK next \in {"body", "unlock", "crc", "size", "grow", "region", "meta",
                       "shrink"} : pc' = [pc EXCEPT ![p] = next]
    BY <1>3, Zenon DEF Step, RejectReadOnly, checkLoadData, Get, SkipSet, SetByOverride,
       SetByAppend, SetByWriteback, RemoveByTombstone, RemoveByWriteback,
       RemoveMany, RemoveNothing, ClearAll, TrimCompact, Shrink, StoreCRC,
       StoreActualSize, Grow, KeepSize, StoreRegion, StoreMeta, overrideRaw,
       appendRaw, StartWriteback
  <2>5. next = pc'[p]
    BY <2>4 DEF Locked, TypeOK
  <2>6. ASSUME op[p] \in ReadCalls PROVE next \in {"body", "unlock"}
    <3>1. op[p].kind = "get" /\ pc[p] \in {"check", "body", "unlock"}
      BY <2>6, CallKinds DEF Locked, Held
    <3> QED
      BY <1>3, <2>4, <2>5, <3>1, Zenon DEF Step, RejectReadOnly, checkLoadData, Get,
         SkipSet, SetByOverride, SetByAppend, SetByWriteback,
         RemoveByTombstone, RemoveByWriteback, RemoveMany, RemoveNothing,
         ClearAll, TrimCompact, Shrink, StoreCRC, StoreActualSize, Grow,
         KeepSize, StoreRegion, StoreMeta, In, Locked, TypeOK
  <2>7. ASSUME op[p] = RepairCall PROVE next \in {"region", "meta", "unlock"}
    <3>1. op[p].kind # "trim" /\ pc[p] \in {"grow", "region", "meta"}
      BY <2>2, <2>7, CallKinds DEF Locked, Held
    <3> QED
      BY <1>3, <2>4, <2>5, <3>1, Zenon DEF Step, RejectReadOnly, checkLoadData, Get,
         SkipSet, SetByOverride, SetByAppend, SetByWriteback,
         RemoveByTombstone, RemoveByWriteback, RemoveMany, RemoveNothing,
         ClearAll, TrimCompact, Shrink, StoreCRC, StoreActualSize, Grow,
         KeepSize, StoreRegion, StoreMeta, In, Locked, TypeOK
  <2> QED
    BY <1>1, <2>1, <2>3, <2>4, <2>6, <2>7, InsideLocked, ZenonT(30)
<1> QED
  BY <1>2, <1>3

LEMMA NextLocked == Locked /\ [Next]_vars => Locked'
<1> SUFFICES ASSUME Locked, [Next]_vars PROVE Locked'
  OBVIOUS
<1>1. ASSUME NEW p \in Procs, Lock(p) PROVE Locked'
  BY <1>1, CallKinds DEF Lock, Others, Locked, TypeOK, Exclusive, Held, OpenSteps
<1>2. ASSUME NEW p \in Procs, Unlock(p) PROVE Locked'
  BY <1>2, CallKinds DEF Unlock, Locked, TypeOK, Exclusive, Held, OpenSteps
<1>3. ASSUME NEW p \in Procs, ClearMemoryCache(p) PROVE Locked'
  <2>1. <<>> \in Seq(Slot) /\ EmptyDict \in [Keys -> Nat]
    BY DEF EmptyDict
  <2>2. inst[p] \in Instance
    BY DEF Locked, TypeOK
  <2>3. [inst[p] EXCEPT !.dict = EmptyDict, !.actualSize = 0,
                        !.crcDigest = <<>>, !.needLoad = TRUE] \in Instance
    BY <2>1, <2>2, Zenon DEF Instance
  <2> QED
    BY <1>3, <2>3 DEF ClearMemoryCache, Locked, TypeOK, Exclusive, Held, OpenSteps
<1>4. ASSUME NEW p \in Procs, NEW c \in Calls, BeginRead(p, c) PROVE Locked'
  <2>1. TypeOK'
    BY <1>4 DEF BeginRead, Locked, TypeOK, Steps, OpenSteps
  <2>2. Exclusive'
    BY <1>4 DEF BeginRead, Others, Locked, TypeOK, Exclusive
  <2>3. \A q \in Procs : Held(q)'
    BY <1>4, CallKinds DEF BeginRead, Locked, TypeOK, Held, OpenSteps
  <2> QED
    BY <2>1, <2>2, <2>3 DEF Locked
<1>5. ASSUME NEW p \in Procs, NEW c \in Calls, BeginWrite(p, c) PROVE Locked'
  <2>1. TypeOK'
    BY <1>5 DEF BeginWrite, Locked, TypeOK, Steps, OpenSteps
  <2>2. Exclusive'
    BY <1>5 DEF BeginWrite, Others, Locked, TypeOK, Exclusive
  <2>3. \A q \in Procs : Held(q)'
    BY <1>5, CallKinds DEF BeginWrite, Locked, TypeOK, Held, OpenSteps
  <2> QED
    BY <2>1, <2>2, <2>3 DEF Locked
<1>6. CASE UNCHANGED vars
  BY <1>6 DEF vars, Locked, TypeOK, Exclusive, Held, OpenSteps
<1> QED
  BY <1>1, <1>2, <1>3, <1>4, <1>5, <1>6, StepLocked DEF Next

\* No call closes the store.
LEMMA NextBasics == Basics /\ [Next]_vars => Basics'
<1> SUFFICES ASSUME Basics, [Next]_vars PROVE Basics'
  OBVIOUS
<1>1. Locked'
  BY BasicsAre, NextLocked
<1>2. \A q \in Procs : pc[q] \notin OpenSteps /\ op[q] # RepairCall
  BY BasicsAre
<1>3. ASSUME NEW p \in Procs,
             \/ Lock(p) \/ Unlock(p) \/ ClearMemoryCache(p) \/ Step(p)
             \/ \E c \in Calls : BeginRead(p, c) \/ BeginWrite(p, c)
      PROVE  \A q \in Procs : pc'[q] \notin OpenSteps /\ op'[q] # RepairCall
  <2>1. /\ \/ pc' = pc
           \/ \E next \in {"idle", "check", "body", "unlock", "crc", "size", "grow",
                           "region", "meta", "shrink"} : pc' = [pc EXCEPT ![p] = next]
        /\ \/ op' = op
           \/ \E c \in ReadCalls \cup WriteCalls \cup {NoCall} :
                 op' = [op EXCEPT ![p] = c]
    BY <1>3, Zenon DEF Lock, Unlock, ClearMemoryCache, BeginRead, BeginWrite, Step,
       RejectReadOnly, checkLoadData, Get, SkipSet, SetByOverride,
       SetByAppend, SetByWriteback, RemoveByTombstone, RemoveByWriteback,
       RemoveMany, RemoveNothing, ClearAll, TrimCompact, Shrink, StoreCRC,
       StoreActualSize, Grow, KeepSize, StoreRegion, StoreMeta, overrideRaw,
       appendRaw, StartWriteback, End
  <2> QED
    BY <1>2, <2>1, CallKinds DEF Basics, TypeOK, OpenSteps
<1>4. ASSUME UNCHANGED vars
      PROVE  \A q \in Procs : pc'[q] \notin OpenSteps /\ op'[q] # RepairCall
  BY <1>2, <1>4 DEF vars
<1>5. \A q \in Procs : pc'[q] \notin OpenSteps /\ op'[q] # RepairCall
  BY <1>3, <1>4, Zenon DEF Next
<1>6. \A q \in Procs : InCall(q)'
  BY <1>1, <1>5, CallKinds, ZenonT(30) DEF Locked, InCall, Held, TypeOK, Steps, OpenSteps
<1> QED
  BY <1>1, <1>6 DEF Basics, Locked

LEMMA BasicsHold == Spec => []Basics
  BY InitBasics, NextBasics, PTL DEF Spec

\* Every variable of the store stays in its type.
THEOREM TypeCorrect == Spec => []TypeOK
  BY BasicsHold, PTL DEF Basics
=============================================================================
