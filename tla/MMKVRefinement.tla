---------------------------- MODULE MMKVRefinement ----------------------------
(***************************************************************************)
(* What the coherence of the instances is good for: the bytes that appends *)
(* must not touch stay as they are, and the store implements the shared    *)
(* map of module KVMap.                                                    *)
(***************************************************************************)
EXTENDS MMKVCoherence

NoRewrite == \A p \in Procs : pc[p] # "meta"

\* In multi-process mode the log only gets longer under one sequence; what an
\* instance with that sequence has loaded is a front of it.
LogGrows(q) ==
    MultiProcess =>
        /\ pc[q] \in {"crc", "size"} => meta.actualSize <= inst[q].actualSize
        /\ inst[q].info.sequence = meta.sequence /\ ~Torn(q) =>
              inst[q].actualSize <= meta.actualSize

ViewsKept(q) == inst[q].info.sequence = meta.sequence => InFile(inst[q].crcDigest)

SnapshotKept ==
    /\ Region(data, meta.lastActualSize) = meta.lastCRCDigest
    /\ HeaderSize + meta.lastActualSize <= FileSize

\* The inductive invariant, on top of Coherent: appendRaw stores behind what
\* any instance with the stored sequence has loaded and behind the
\* last-confirmed snapshot, and only a write that moves the sequence on
\* reuses the slots.
Kept == /\ \A q \in Procs : LogGrows(q)
        /\ NoRewrite => \A q \in Procs : ViewsKept(q)
        /\ MultiProcess => meta.lastActualSize <= meta.actualSize
        /\ MultiProcess /\ NoRewrite => SnapshotKept

-----------------------------------------------------------------------------
(***************************************************************************)
(* The invariant is inductive.                                             *)
(***************************************************************************)
LEMMA SameLength ==
    ASSUME NEW f \in Seq(Slot), NEW g \in Seq(Slot), DOMAIN f = DOMAIN g
    PROVE  Len(f) = Len(g)
  OBVIOUS

\* A resize that leaves the stored region alone leaves every front of it.
LEMMA FrontStable ==
    ASSUME TypeOK, FileInv, FileInv', Quiet, Quiet', meta' = meta,
           data' \in Seq(Slot), NEW n \in Nat, n <= meta.actualSize
    PROVE  Region(data', n) = Region(data, n) /\ HeaderSize + n <= FileSize'
<1>1. /\ data \in Seq(Slot) /\ meta.actualSize \in Nat /\ HeaderSize \in Nat
      /\ Len(data) \in Nat /\ Len(data') \in Nat
  BY StoreAssumption DEF TypeOK, MetaInfo
<1>2. /\ Region(data, meta.actualSize) = Region(data', meta.actualSize)
      /\ meta.actualSize <= Len(data) /\ meta.actualSize <= Len(data')
  BY <1>1 DEF FileInv, Stored, FileSize
<1>3. \A i \in 1..meta.actualSize : data[i] = data'[i]
  <2>1. \A i \in 1..meta.actualSize :
          Region(data, meta.actualSize)[i] = data[i]
          /\ Region(data', meta.actualSize)[i] = data'[i]
    BY <1>1, <1>2 DEF Region
  <2> QED
    BY <1>2, <2>1
<1>4. Region(data, n) = Region(data', n)
  BY <1>1, <1>2, <1>3, SameFront
<1> QED
  BY <1>1, <1>2, <1>4 DEF FileSize

\* Steps that store nothing.
LEMMA KeptFrame ==
    ASSUME Kept, NEW p \in Procs, UNCHANGED <<data, meta>>, ~Torn(p), ~Torn(p)',
           \A q \in Procs \ {p} : pc'[q] = pc[q] /\ inst'[q] = inst[q],
           inst'[p] = inst[p] \/ (LogGrows(p)' /\ ViewsKept(p)')
    PROVE  Kept'
<1>1. NoRewrite' => NoRewrite
  BY DEF NoRewrite, Torn
<1>2. ASSUME NEW q \in Procs PROVE LogGrows(q)'
  BY DEF Kept, LogGrows, Torn
<1>3. ASSUME NEW q \in Procs, NoRewrite' PROVE ViewsKept(q)'
  <2>1. CASE inst'[q] = inst[q]
    <3>1. ViewsKept(q)
      BY <1>1, <1>3 DEF Kept
    <3> QED
      BY <2>1, <3>1, Zenon DEF ViewsKept, InFile, FileSize, Region
  <2> QED
    BY <2>1
<1>4. SnapshotKept => SnapshotKept'
  BY DEF SnapshotKept, Region, FileSize
<1> QED
  BY <1>1, <1>2, <1>3, <1>4 DEF Kept

LEMMA CheckLoadKept ==
    ASSUME Basics, Coherent', Basics', Kept, NEW p \in Procs, checkLoadData(p)
    PROVE  Kept'
<1>1. /\ pc[p] = "check" /\ pc'[p] = "body" /\ UNCHANGED <<data, meta>>
      /\ \A q \in Procs \ {p} : inst'[q] = inst[q] /\ pc'[q] = pc[q]
  BY DEF checkLoadData, Basics, TypeOK
<1>2. Quiet'
  BY <1>1, NobodyElseWrites DEF Quiet, Torn
<1>3. SameRegion(inst[p])' /\ Decoded(inst[p])' /\ FileInv'
  BY <1>1 DEF Coherent, InstInv, Loaded
<1>4. LogGrows(p)'
  <2>1. meta'.actualSize \in Nat
    BY DEF Basics, TypeOK, MetaInfo
  <2> QED
    BY <1>1, <1>3, <2>1 DEF SameRegion, LogGrows
<1>5. InFile(inst[p].crcDigest)'
  BY <1>2, <1>3 DEF FileInv, Stored, SameRegion, Decoded, InFile
<1> QED
  BY <1>1, <1>4, <1>5, KeptFrame DEF ViewsKept, Torn

LEMMA ClearCacheKept ==
    ASSUME Basics, Kept, NEW p \in Procs, ClearMemoryCache(p)
    PROVE  Kept'
<1>1. /\ pc[p] = "idle" /\ UNCHANGED <<data, meta, pc>>
      /\ \A q \in Procs \ {p} : inst'[q] = inst[q]
  BY DEF ClearMemoryCache, Basics, TypeOK
<1>2. inst'[p].actualSize = 0 /\ inst'[p].crcDigest = <<>>
  <2>1. inst[p] \in Instance
    BY DEF Basics, TypeOK
  <2>2. inst'[p] = [inst[p] EXCEPT !.dict = EmptyDict, !.actualSize = 0,
                                   !.crcDigest = <<>>, !.needLoad = TRUE]
    BY DEF ClearMemoryCache, Basics, TypeOK
  <2> QED
    BY <2>1, <2>2 DEF Instance
<1>3. LogGrows(p)'
  <2>1. meta'.actualSize \in Nat
    BY <1>1 DEF Basics, TypeOK, MetaInfo
  <2> QED
    BY <1>1, <1>2, <2>1 DEF LogGrows
<1>4. InFile(inst[p].crcDigest)'
  <2>1. Len(data') \in Nat /\ HeaderSize \in Nat
    BY <1>1, StoreAssumption DEF Basics, TypeOK
  <2> QED
    BY <1>2, <2>1 DEF InFile, Region, FileSize
<1> QED
  BY <1>1, <1>3, <1>4, KeptFrame DEF ViewsKept, Torn

\* appendRaw stores behind every front of the stored region.
LEMMA AppendKept ==
    ASSUME Basics, Basics', Coherent, Coherent', Kept, NEW p \in Procs,
           op[p] \in WriteCalls, pc[p] = "body", NEW item, NEW d,
           appendRaw(p, item, d)
    PROVE  Kept'
<1>1. /\ meta' = meta /\ pc'[p] = "crc"
      /\ inst'[p] = appended(inst[p], item, d)
      /\ \A q \in Procs \ {p} : pc'[q] = pc[q] /\ inst'[q] = inst[q]
      /\ data' = [i \in DOMAIN data |->
                    IF i = inst[p].actualSize + 1 THEN item ELSE data[i]]
  BY DEF appendRaw, Basics, TypeOK
<1>2. /\ data \in Seq(Slot) /\ data' \in Seq(Slot) /\ Len(data) \in Nat
      /\ meta.actualSize \in Nat /\ meta.lastActualSize \in Nat
      /\ inst[p] \in Instance /\ HeaderSize \in Nat
  BY StoreAssumption DEF Basics, TypeOK, MetaInfo
<1>3. inst[p].actualSize = meta.actualSize
  BY InBody DEF SameRegion
<1>4. inst'[p].actualSize = meta.actualSize + 1
  BY <1>1, <1>2, <1>3, AppendedFields
<1>5. Len(data') = Len(data) /\ FileSize' = FileSize
  <2>1. DOMAIN data' = DOMAIN data
    BY <1>1, Zenon
  <2>2. Len(data') = Len(data)
    BY <1>2, <2>1, SameLength, Zenon
  <2> QED
    BY <2>2, Zenon DEF FileSize
<1>6. ASSUME NEW n \in Nat, n <= meta.actualSize, HeaderSize + n <= FileSize
      PROVE  Region(data', n) = Region(data, n)
  <2>1. n <= Len(data)
    BY <1>2, <1>6 DEF FileSize
  <2>2. \A i \in 1..n : data[i] = data'[i]
    BY <1>1, <1>2, <1>3, <1>6, <2>1
  <2> QED
    BY <1>2, <1>5, <2>1, <2>2, SameFront
<1>7. NoRewrite /\ \A q \in Procs \ {p} : MultiProcess /\ pc[q] = "idle"
  BY WriterAlone DEF NoRewrite
<1>8. ASSUME NEW q \in Procs PROVE LogGrows(q)' /\ ViewsKept(q)'
  <2>1. CASE q = p
    <3>1. InFile(inst[p].crcDigest)'
      BY <1>1, Zenon DEF Coherent, InstInv
    <3> QED
      BY <1>1, <1>2, <1>4, <2>1, <3>1 DEF LogGrows, ViewsKept, Torn
  <2>2. CASE q # p
    <3>1. pc[q] = "idle" /\ MultiProcess /\ inst'[q] = inst[q] /\ pc'[q] = pc[q]
      BY <1>1, <1>7, <2>2
    <3>2. LogGrows(q) /\ ViewsKept(q)
      BY <1>7, Zenon DEF Kept
    <3>3. LogGrows(q)'
      BY <1>1, <3>1, <3>2 DEF LogGrows, Torn
    <3>4. ASSUME inst[q].info.sequence = meta.sequence
          PROVE  InFile(inst[q].crcDigest)'
      <4>1. /\ inst[q].actualSize = Len(inst[q].crcDigest)
            /\ inst[q].crcDigest \in Seq(Slot)
        BY <3>1, FieldTypes DEF Coherent, InstInv, Decoded, Basics
      <4>2. Len(inst[q].crcDigest) \in Nat
            /\ Len(inst[q].crcDigest) <= meta.actualSize
        BY <3>1, <3>2, <3>4, <4>1 DEF LogGrows, Torn
      <4>3. InFile(inst[q].crcDigest)
        BY <3>2, <3>4 DEF ViewsKept
      <4>4. Region(data', Len(inst[q].crcDigest)) = inst[q].crcDigest
        BY <1>6, <4>2, <4>3 DEF InFile
      <4> QED
        BY <1>5, <3>1, <4>3, <4>4, SMTT(30) DEF InFile
    <3> QED
      BY <1>1, <3>1, <3>3, <3>4 DEF ViewsKept
  <2> QED
    BY <2>1, <2>2
<1>9. ASSUME MultiProcess PROVE SnapshotKept'
  <2>1. SnapshotKept /\ meta.lastActualSize <= meta.actualSize
    BY <1>7, <1>9, Zenon DEF Kept
  <2> QED
    BY <1>1, <1>2, <1>5, <1>6, <2>1 DEF SnapshotKept
<1> QED
  BY <1>1, <1>8, <1>9 DEF Kept

LEMMA OverrideKept ==
    ASSUME Basics, Basics', Coherent', Kept, NEW p \in Procs,
           CanOverride(inst[p], op[p].key),
           NEW k, NEW v, overrideRaw(p, k, v)
    PROVE  Kept'
<1>1. ~MultiProcess /\ Procs = {p} /\ pc'[p] = "crc"
  BY CoreAssumption DEF CanOverride, overrideRaw, Basics, TypeOK
<1>2. InFile(inst[p].crcDigest)'
  BY <1>1, Zenon DEF Coherent, InstInv
<1> QED
  BY <1>1, <1>2 DEF Kept, LogGrows, ViewsKept

LEMMA StoreCRCKept ==
    ASSUME Basics, Kept, NEW p \in Procs, StoreCRC(p)
    PROVE  Kept'
<1>1. /\ pc[p] = "crc" /\ pc'[p] = "size" /\ UNCHANGED <<data, inst>>
      /\ \A q \in Procs \ {p} : pc'[q] = pc[q]
  BY DEF StoreCRC, Basics, TypeOK
<1>2. /\ meta'.sequence = meta.sequence /\ meta'.actualSize = meta.actualSize
      /\ meta'.lastActualSize = meta.lastActualSize
      /\ meta'.lastCRCDigest = meta.lastCRCDigest
  BY DEF StoreCRC, Basics, TypeOK, MetaInfo
<1>3. NoRewrite' => NoRewrite
  BY <1>1 DEF NoRewrite
<1>4. ASSUME NEW q \in Procs PROVE LogGrows(q)' /\ (ViewsKept(q) => ViewsKept(q)')
  <2>1. LogGrows(q)'
    BY <1>1, <1>2 DEF Kept, LogGrows, Torn
  <2>2. ViewsKept(q) => ViewsKept(q)'
    BY <1>1, <1>2, Zenon DEF ViewsKept, InFile, Region, FileSize
  <2> QED
    BY <2>1, <2>2
<1>5. SnapshotKept => SnapshotKept'
  BY <1>1, <1>2, Zenon DEF SnapshotKept, Region, FileSize
<1> QED
  BY <1>2, <1>3, <1>4, <1>5 DEF Kept

LEMMA StoreActualSizeKept ==
    ASSUME Basics, Kept, NEW p \in Procs, StoreActualSize(p)
    PROVE  Kept'
<1>1. /\ pc[p] = "size" /\ pc'[p] = "unlock" /\ UNCHANGED <<data, inst>>
      /\ \A q \in Procs \ {p} : pc'[q] = pc[q]
      /\ op[p] \in WriteCalls
  BY DEF StoreActualSize, Basics, TypeOK, InCall, OpenSteps
<1>2. /\ meta'.sequence = meta.sequence /\ meta'.actualSize = inst[p].actualSize
      /\ meta'.lastActualSize = meta.lastActualSize
      /\ meta'.lastCRCDigest = meta.lastCRCDigest
  BY DEF StoreActualSize, Basics, TypeOK, MetaInfo
<1>3. NoRewrite' => NoRewrite
  BY <1>1 DEF NoRewrite
<1>4. /\ meta.actualSize \in Nat /\ meta'.actualSize \in Nat
      /\ meta.lastActualSize \in Nat
      /\ \A q \in Procs : inst[q].actualSize \in Nat
  <2>1. \A q \in Procs : inst[q].actualSize \in Nat
    BY FieldTypes DEF Basics
  <2> QED
    BY <1>2, <2>1 DEF Basics, TypeOK, MetaInfo
<1>5. MultiProcess => meta.actualSize <= meta'.actualSize
  BY <1>1, <1>2 DEF Kept, LogGrows
<1>6. ASSUME NEW q \in Procs PROVE LogGrows(q)' /\ (ViewsKept(q) => ViewsKept(q)')
  <2>1. LogGrows(q)'
    <3>1. CASE q = p
      BY <1>1, <1>2, <1>4, <3>1 DEF LogGrows
    <3>2. CASE q # p
      <4>1. pc[q] = "idle"
        BY <1>1, <3>2, WriterAlone
      <4>2. LogGrows(q)
        BY DEF Kept
      <4> QED
        BY <1>1, <1>2, <1>4, <1>5, <3>2, <4>1, <4>2 DEF LogGrows, Torn
    <3> QED
      BY <3>1, <3>2
  <2>2. ViewsKept(q) => ViewsKept(q)'
    BY <1>1, <1>2, Zenon DEF ViewsKept, InFile, Region, FileSize
  <2> QED
    BY <2>1, <2>2
<1>7. SnapshotKept => SnapshotKept'
  BY <1>1, <1>2, Zenon DEF SnapshotKept, Region, FileSize
<1>8. MultiProcess => meta'.lastActualSize <= meta'.actualSize
  BY <1>2, <1>4, <1>5 DEF Kept
<1> QED
  BY <1>3, <1>6, <1>7, <1>8 DEF Kept

\* A resize that is not part of a clear leaves the stored region alone.  The
\* resized file is met either under the same sequence by instances that have
\* loaded a front of the region, or by nobody but the process itself.
LEMMA ResizeKept ==
    ASSUME Basics, Basics', Coherent, Coherent', Kept, NEW p \in Procs,
           op[p] \in WriteCalls, pc[p] \in {"grow", "shrink"},
           pc'[p] \in {"region", "unlock"}, meta' = meta,
           \A q \in Procs \ {p} : pc'[q] = pc[q] /\ inst'[q] = inst[q],
           inst'[p].actualSize = inst[p].actualSize,
           inst'[p].crcDigest = inst[p].crcDigest
    PROVE  Kept'
<1>1. /\ Quiet /\ Quiet' /\ NoRewrite
      /\ \A q \in Procs \ {p} : MultiProcess /\ pc[q] = "idle"
  BY WriterAlone DEF Quiet, Torn, NoRewrite
<1>2. /\ inst[p].crcDigest = meta.crcDigest
      /\ inst[p].actualSize = meta.actualSize
      /\ inst[p].actualSize = Len(inst[p].crcDigest)
      /\ InFile(inst[p].crcDigest)
  BY InBody DEF SameRegion, Decoded
<1>3. /\ data' \in Seq(Slot) /\ TypeOK /\ FileInv /\ FileInv'
      /\ meta.actualSize \in Nat /\ meta.lastActualSize \in Nat
  BY Zenon DEF Basics, TypeOK, Coherent, MetaInfo
<1>4. ASSUME NEW n \in Nat, n <= meta.actualSize
      PROVE  Region(data', n) = Region(data, n) /\ HeaderSize + n <= FileSize'
  BY <1>1, <1>3, <1>4, FrontStable
<1>5. ASSUME NEW q \in Procs PROVE LogGrows(q)'
  BY <1>1, <1>2, <1>3 DEF Kept, LogGrows, Torn
<1>6. ASSUME NEW q \in Procs, inst'[q].info.sequence = meta.sequence
      PROVE  InFile(inst[q].crcDigest)'
  <2>1. CASE q = p
    BY <1>2, <1>3, <1>4, <2>1 DEF InFile
  <2>2. CASE q # p
    <3>1. MultiProcess /\ pc[q] = "idle" /\ inst'[q] = inst[q] /\ LogGrows(q)
      BY <1>1, <2>2, SMTT(30) DEF Kept
    <3>2. /\ inst[q].actualSize = Len(inst[q].crcDigest)
          /\ inst[q].crcDigest \in Seq(Slot)
      BY <3>1, FieldTypes DEF Coherent, InstInv, Decoded, Basics
    <3>3. Len(inst[q].crcDigest) \in Nat /\ Len(inst[q].crcDigest) <= meta.actualSize
      BY <1>6, <3>1, <3>2 DEF LogGrows, Torn
    <3>4. InFile(inst[q].crcDigest)
      BY <1>1, <1>6, <3>1 DEF Kept, ViewsKept
    <3> QED
      BY <1>4, <3>1, <3>3, <3>4 DEF InFile
  <2> QED
    BY <2>1, <2>2
<1>7. ASSUME MultiProcess PROVE SnapshotKept'
  BY <1>1, <1>3, <1>4, <1>7 DEF Kept, SnapshotKept
<1> QED
  BY <1>5, <1>6, <1>7 DEF Kept, ViewsKept

LEMMA ToMetaKept ==
    ASSUME Basics, Kept, NEW p \in Procs, op[p] \in WriteCalls, meta' = meta,
           pc' = [pc EXCEPT ![p] = "meta"],
           \A q \in Procs \ {p} : inst'[q] = inst[q]
    PROVE  Kept'
<1>1. pc'[p] = "meta" /\ \A q \in Procs \ {p} : pc'[q] = pc[q]
  BY DEF Basics, TypeOK
<1>2. ~NoRewrite'
  BY <1>1 DEF NoRewrite
<1>3. ASSUME NEW q \in Procs PROVE LogGrows(q)'
  BY <1>1 DEF Kept, LogGrows, Torn
<1> QED
  BY <1>2, <1>3 DEF Kept

LEMMA StoreMetaKept ==
    ASSUME Basics, Basics', Coherent, Coherent', Kept, NEW p \in Procs, StoreMeta(p)
    PROVE  Kept'
<1> DEFINE m == inst[p]
           info == NextInfo(m)
<1>1. /\ pc[p] = "meta" /\ op[p] \in WriteCalls /\ UNCHANGED <<data, buf>>
      /\ pc'[p] \in {"shrink", "unlock"} /\ meta' = info
      /\ \A q \in Procs \ {p} : pc'[q] = pc[q] /\ inst'[q] = inst[q]
  BY DEF StoreMeta, Basics, InCall, OpenSteps, TypeOK
<1>2. /\ m \in Instance /\ m.info \in MetaInfo /\ m.info.sequence \in Nat
      /\ m.actualSize \in Nat
  BY FieldTypes, SMTT(30) DEF Basics
<1>3. m.actualSize = Len(buf[p]) /\ m.crcDigest = buf[p] /\ InFile(buf[p])
      /\ m.info.sequence = meta.sequence
  BY <1>1 DEF Coherent, InstInv, Torn, Current
<1>4. /\ info.sequence = m.info.sequence + 1 /\ info.actualSize = m.actualSize
      /\ info.lastActualSize = m.actualSize /\ info.lastCRCDigest = m.crcDigest
  BY <1>2 DEF NextInfo, MetaInfo
<1>5. inst'[p] = [m EXCEPT !.info = info, !.dict = parseDict(buf[p]),
                           !.needFullWriteback = FALSE, !.dangling = FALSE]
  BY DEF StoreMeta, Basics, TypeOK
<1> HIDE DEF m, info
<1>6. inst'[p].actualSize = m.actualSize /\ inst'[p].crcDigest = m.crcDigest
  BY <1>2, <1>5 DEF Instance
<1>7. InFile(inst[p].crcDigest)'
  BY <1>1, <1>3, <1>6, Zenon DEF InFile, FileSize
<1>8. ASSUME NEW q \in Procs \ {p}
      PROVE  pc'[q] = "idle" /\ inst'[q].info.sequence # meta'.sequence
  <2>1. inst[q].info.sequence <= meta.sequence /\ inst[q].info.sequence \in Nat
    BY FieldTypes DEF Coherent, InstInv, Behind, Basics
  <2>2. pc'[q] = "idle"
    BY <1>1, WriterAlone
  <2> QED
    BY <1>1, <1>2, <1>3, <1>4, <2>1, <2>2, SMTT(30)
<1>9. ASSUME NEW q \in Procs PROVE LogGrows(q)' /\ ViewsKept(q)'
  BY <1>1, <1>2, <1>4, <1>6, <1>7, <1>8 DEF LogGrows, ViewsKept
<1>10. SnapshotKept' /\ meta'.lastActualSize <= meta'.actualSize
  <2>1. meta'.lastActualSize = Len(buf[p]) /\ meta'.lastCRCDigest = buf[p]
        /\ meta'.actualSize = Len(buf[p])
    BY <1>1, <1>3, <1>4
  <2>2. InFile(buf[p]) /\ data' = data /\ Len(buf[p]) \in Nat
    BY <1>1, <1>2, <1>3
  <2> QED
    BY <2>1, <2>2 DEF InFile, SnapshotKept, FileSize
<1> QED
  BY <1>9, <1>10 DEF Kept

LEMMA GrowShrinkKept ==
    ASSUME Basics, Basics', Coherent, Coherent', Kept, NEW p \in Procs,
           Grow(p) \/ Shrink(p)
    PROVE  Kept'
<1>1. /\ inst[p] \in Instance /\ TypeOK /\ meta' = meta
      /\ pc[p] \in {"grow", "shrink"} /\ op[p] \in WriteCalls
      /\ pc'[p] \in {"region", "unlock"} /\ \A q \in Procs \ {p} : pc'[q] = pc[q]
  <2>1. /\ pc[p] \in {"grow", "shrink"} /\ meta' = meta
        /\ \E next \in {"region", "unlock"} : pc' = [pc EXCEPT ![p] = next]
    BY Zenon DEF Grow, Shrink
  <2>2. TypeOK /\ InCall(p)
    BY Zenon DEF Basics
  <2>3. op[p] \in WriteCalls
    BY <2>1, <2>2 DEF InCall
  <2> QED
    BY <2>1, <2>2, <2>3 DEF TypeOK
<1>2. \A n : /\ truncated(inst[p], n).actualSize = inst[p].actualSize
             /\ truncated(inst[p], n).crcDigest = inst[p].crcDigest
  BY <1>1 DEF truncated, Instance
<1>3. \A q \in Procs \ {p} : inst'[q] = inst[q]
  BY <1>1, Zenon DEF Grow, Shrink, TypeOK
<1>4. /\ inst'[p].actualSize = inst[p].actualSize
      /\ inst'[p].crcDigest = inst[p].crcDigest
  <2>1. CASE Grow(p)
    <3>1. PICK n : inst' = [inst EXCEPT ![p] = truncated(inst[p], n)]
      BY <2>1, Zenon DEF Grow
    <3>2. inst'[p] = truncated(inst[p], n)
      BY <1>1, <3>1 DEF TypeOK
    <3> QED
      BY <1>2, <3>2
  <2>2. CASE Shrink(p)
    <3>1. PICK n, d : \/ inst' = inst
                      \/ inst' = [inst EXCEPT ![p] = [truncated(inst[p], n) EXCEPT
                                     !.dict = d, !.dangling = FALSE]]
      BY <2>2, Zenon DEF Shrink
    <3> DEFINE t == truncated(inst[p], n)
    <3>2. CASE inst' = inst
      BY <3>2
    <3>3. CASE inst' = [inst EXCEPT ![p] = [t EXCEPT !.dict = d, !.dangling = FALSE]]
      <4>1. inst'[p] = [t EXCEPT !.dict = d, !.dangling = FALSE]
        BY <1>1, <3>3 DEF TypeOK
      <4>2. t.actualSize = inst[p].actualSize /\ t.crcDigest = inst[p].crcDigest
        BY <1>2
      <4> HIDE DEF t
      <4>3. inst'[p].actualSize = t.actualSize /\ inst'[p].crcDigest = t.crcDigest
        BY <4>1
      <4> QED
        BY <4>2, <4>3
    <3> QED
      BY <3>1, <3>2, <3>3
  <2> QED
    BY <2>1, <2>2
<1> QED
  BY <1>1, <1>3, <1>4, ResizeKept, Zenon

LEMMA StepKept ==
    ASSUME Basics, Basics', Coherent, Coherent', Kept, NEW p \in Procs, Step(p)
    PROVE  Kept'
<1>1. ASSUME RejectReadOnly(p) \/ Get(p) \/ SkipSet(p) \/ SetByWriteback(p)
             \/ RemoveByWriteback(p) \/ RemoveMany(p) \/ RemoveNothing(p)
             \/ TrimCompact(p) \/ KeepSize(p) \/ End(p)
      PROVE  Kept'
  <2>1. /\ UNCHANGED <<data, meta, inst>>
        /\ pc[p] \in {"check", "body", "grow", "unlock"}
        /\ \E next \in {"idle", "unlock", "grow", "region"} :
              pc' = [pc EXCEPT ![p] = next]
    BY <1>1, ZenonT(30) DEF RejectReadOnly, Get, SkipSet, SetByWriteback,
          RemoveByWriteback, RemoveMany, RemoveNothing, TrimCompact, KeepSize,
          End, StartWriteback, In
  <2>2. ~Torn(p) /\ ~Torn(p)' /\ \A q \in Procs \ {p} : pc'[q] = pc[q]
    BY <2>1 DEF Torn, Basics, TypeOK
  <2> QED
    BY <2>1, <2>2, KeptFrame
<1>2. ASSUME NEW kind \in {"set", "remove", "clear", "trim"}, In(p, kind)
      PROVE  op[p] \in WriteCalls /\ pc[p] = "body"
  <2>1. pc[p] = "body" /\ op[p].kind \in {"set", "remove", "clear", "trim"}
    BY <1>2 DEF In
  <2>2. op[p] \in ReadCalls \cup WriteCalls
    BY <2>1 DEF Basics, InCall
  <2> QED
    BY <2>1, <2>2, CallKinds
<1>3. CASE SetByAppend(p)
  BY <1>2, <1>3, AppendKept, SMTT(30) DEF SetByAppend
<1>4. CASE RemoveByTombstone(p)
  BY <1>2, <1>4, AppendKept, SMTT(30) DEF RemoveByTombstone
<1>5. CASE SetByOverride(p)
  BY <1>5, OverrideKept DEF SetByOverride
<1>6. CASE ClearAll(p)
  <2>1. op[p] \in WriteCalls
    BY <1>2, <1>6 DEF ClearAll
  <2>2. /\ meta' = meta /\ pc' = [pc EXCEPT ![p] = "meta"]
        /\ \A q \in Procs \ {p} : inst'[q] = inst[q]
    BY <1>6, Zenon DEF ClearAll, Basics, TypeOK
  <2> QED
    BY <2>1, <2>2, ToMetaKept, Zenon
<1>7. CASE StoreRegion(p)
  <2>1. op[p] \in WriteCalls
    BY <1>7 DEF StoreRegion, Basics, InCall
  <2>2. /\ meta' = meta /\ pc' = [pc EXCEPT ![p] = "meta"]
        /\ \A q \in Procs \ {p} : inst'[q] = inst[q]
    BY <1>7, Zenon DEF StoreRegion, Basics, TypeOK
  <2> QED
    BY <2>1, <2>2, ToMetaKept, Zenon
<1> QED
  BY <1>1, <1>3, <1>4, <1>5, <1>6, <1>7, CheckLoadKept, StoreCRCKept,
     StoreActualSizeKept, StoreMetaKept, GrowShrinkKept, ZenonT(30) DEF Step

LEMMA NextKept ==
    Basics /\ Basics' /\ Coherent /\ Coherent' /\ Kept /\ [Next]_vars => Kept'
<1> SUFFICES ASSUME Basics, Basics', Coherent, Coherent', Kept, [Next]_vars
             PROVE  Kept'
  OBVIOUS
<1>1. CASE UNCHANGED vars
  <2>1. /\ NoRewrite' = NoRewrite /\ SnapshotKept' = SnapshotKept
        /\ \A q \in Procs : LogGrows(q)' = LogGrows(q) /\ ViewsKept(q)' = ViewsKept(q)
    BY <1>1, Zenon DEF vars, NoRewrite, SnapshotKept, LogGrows, ViewsKept, Torn,
                       InFile, Region, FileSize
  <2> QED
    BY <1>1, <2>1, Zenon DEF vars, Kept
<1>2. ASSUME NEW p \in Procs,
             Lock(p) \/ Unlock(p) \/ \E c \in Calls : BeginRead(p, c) \/ BeginWrite(p, c)
      PROVE  Kept'
  <2>1. /\ UNCHANGED <<data, meta, inst>> /\ pc[p] = "idle"
        /\ pc' = pc \/ pc' = [pc EXCEPT ![p] = "check"]
    BY <1>2, Zenon DEF Lock, Unlock, BeginRead, BeginWrite
  <2>2. ~Torn(p) /\ ~Torn(p)' /\ \A q \in Procs \ {p} : pc'[q] = pc[q]
    BY <2>1 DEF Torn, Basics, TypeOK
  <2> QED
    BY <2>1, <2>2, KeptFrame
<1> QED
  BY <1>1, <1>2, ClearCacheKept, StepKept, Zenon DEF Next

LEMMA InitKept == Init => Kept
<1>1. ASSUME Init PROVE Kept
  <2>1. Basics /\ Coherent
    BY <1>1, InitBasics, InitCoherent
  <2>2. PICK version \in {0, 3, 4}, region \in Seq(Slot) :
           InitWith(version, region)
    <3>1. CASE InitWith(0, <<>>)
      <4>1. <<>> \in Seq(Slot)
        OBVIOUS
      <4> QED
        BY <3>1, <4>1, Zenon
    <3>2. ASSUME NEW version \in {3, 4}, NEW map \in InitMaps,
                 InitWith(version, encodeRegion(map))
          PROVE  \E v \in {0, 3, 4}, region \in Seq(Slot) : InitWith(v, region)
      BY <3>2, EncodeType, CoreAssumption
    <3> QED
      BY <1>1, <3>1, <3>2 DEF Init
  <2>3. /\ meta.actualSize = Len(region) /\ meta.crcDigest = region
        /\ meta.lastActualSize = IF version = 4 THEN Len(region) ELSE 0
        /\ meta.lastCRCDigest = IF version = 4 THEN region ELSE <<>>
        /\ \A q \in Procs : /\ pc[q] = "idle"
                            /\ inst[q] = Opened(meta, region, q \in Recovering)
    <3>1. /\ meta = StoredInfo(version, region) /\ pc = [q \in Procs |-> "idle"]
          /\ inst = [q \in Procs |-> Opened(meta, region, q \in Recovering)]
      BY <2>2, Zenon DEF InitWith
    <3>2. \A q \in Procs : /\ pc[q] = "idle"
                           /\ inst[q] = Opened(meta, region, q \in Recovering)
      BY <3>1, Zenon
    <3>3. /\ meta.actualSize = Len(region) /\ meta.crcDigest = region
          /\ meta.lastActualSize = IF version = 4 THEN Len(region) ELSE 0
          /\ meta.lastCRCDigest = IF version = 4 THEN region ELSE <<>>
      BY <3>1 DEF StoredInfo
    <3> QED
      BY <3>2, <3>3, Zenon
  <2>4. \A q \in Procs : inst[q].actualSize = Len(region) /\ inst[q].crcDigest = region
    <3>1. ASSUME NEW r PROVE /\ Opened(meta, region, r).actualSize = Len(region)
                             /\ Opened(meta, region, r).crcDigest = region
      BY SMTT(30) DEF Opened
    <3> QED
      BY <2>3, <3>1, Zenon
  <2>5. Quiet /\ Len(region) \in Nat /\ HeaderSize \in Nat /\ Len(data) \in Nat
    BY <2>1, <2>3, StoreAssumption, SMTT(30) DEF Quiet, Torn, Basics, TypeOK
  <2>6. InFile(region)
    BY <2>1, <2>3, <2>5 DEF Coherent, FileInv, Stored, InFile
  <2>7. InFile(<<>>)
    BY <2>5 DEF InFile, Region, FileSize
  <2>8. SnapshotKept /\ meta.lastActualSize <= meta.actualSize
    BY <2>3, <2>5, <2>6, <2>7 DEF SnapshotKept, InFile
  <2> QED
    BY <2>3, <2>4, <2>5, <2>6, <2>8 DEF Kept, LogGrows, ViewsKept
<1> QED
  BY <1>1

LEMMA KeptHolds == Spec => [](Basics /\ Coherent /\ Kept)
<1>1. Basics /\ Coherent /\ [Next]_vars => (Basics /\ Coherent)'
  BY NextBasics, NextCoherent
<1>2. Init => Basics /\ Coherent /\ Kept
  BY InitBasics, InitCoherent, InitKept
<1>3. Basics /\ Coherent /\ Kept /\ [Next]_vars => (Basics /\ Coherent /\ Kept)'
  BY <1>1, NextKept
<1> QED
  BY <1>2, <1>3, PTL DEF Spec

\* In multi-process mode appends leave the bytes of the last-confirmed snapshot
\* as they are, so that loadData can roll a torn one back (appendRaw).
\* overrideRaw, which single-process mode alone uses, gives that up.
THEOREM SnapshotIntact == ASSUME MultiProcess PROVE Spec => []LastConfirmedIntact
<1>1. ASSUME MultiProcess, Kept PROVE LastConfirmedIntact
  BY <1>1 DEF Kept, NoRewrite, SnapshotKept, LastConfirmedIntact
<1>2. MultiProcess /\ Kept => LastConfirmedIntact
  BY <1>1
<1> QED
  BY <1>2, KeptHolds, PTL

\* Under one sequence the slots of a view are not reused: an instance that
\* has not noticed the appends of others shows what it loaded.
THEOREM ViewsStay == Spec => []SameSequencePreservesViews
<1>1. ASSUME Basics, Coherent, Kept, NoRewrite, NEW q \in Procs,
             inst[q].info.sequence = meta.sequence
      PROVE  Visible(q) = Contents(inst[q].crcDigest)
  <2>1. InFile(inst[q].crcDigest) /\ inst[q].dict = parseDict(inst[q].crcDigest)
    BY <1>1 DEF Kept, ViewsKept, Coherent, InstInv, Decoded, NoRewrite
  <2>2. /\ data \in Seq(Slot) /\ inst[q].crcDigest \in Seq(Slot)
        /\ Len(data) \in Nat /\ HeaderSize \in Nat
    BY <1>1, FieldTypes DEF Basics
  <2>3. Len(inst[q].crcDigest) <= Len(data)
    BY <2>1, <2>2 DEF InFile, FileSize
  <2> QED
    BY <2>1, <2>2, <2>3, ViewsOfFront, SMTT(30) DEF InFile, Visible
<1>2. Basics /\ Coherent /\ Kept => SameSequencePreservesViews
  BY <1>1 DEF SameSequencePreservesViews, NoRewrite
<1> QED
  BY <1>2, KeptHolds, PTL

-----------------------------------------------------------------------------
(***************************************************************************)
(* The store implements the shared map: first what kv and owner are.       *)
(***************************************************************************)
\* Inside a call that is not writing, nobody is.
LEMMA NoWriter ==
    ASSUME Basics, NEW p \in Procs, pc[p] # "idle", ~Writing(p), NEW q \in Procs
    PROVE  ~Writing(q)
  BY NobodyElseWrites DEF Writing

LEMMA NextMapWhileWriting ==
    ASSUME NEW p \in Procs, Writing(p)', \A q \in Procs : Writing(q)' => q = p
    PROVE  kv' = Contents(Pending(p)')
<1>1. (CHOOSE q \in Procs : Writing(q)') = p
  OBVIOUS
<1> QED
  BY <1>1 DEF kv

\* In the body of a call the map is what the instance shows.
LEMMA MapInBody ==
    ASSUME Basics, Coherent, NEW p \in Procs, pc[p] = "body"
    PROVE  /\ kv = Visible(p) /\ kv = Contents(inst[p].crcDigest)
           /\ \A q \in Procs : ~Writing(q)
<1>1. \A q \in Procs : ~Writing(q)
  BY NoWriter DEF Writing
<1>2. Quiet
  BY <1>1 DEF Quiet, Torn, Writing
<1>3. SameRegion(inst[p]) /\ Decoded(inst[p])
  BY DEF Coherent, InstInv, Loaded
<1>4. meta.crcDigest = Stored /\ HeaderSize + meta.actualSize <= FileSize
  BY <1>2 DEF Coherent, FileInv
<1>5. /\ data \in Seq(Slot) /\ meta.actualSize \in Nat /\ Len(data) \in Nat
      /\ HeaderSize \in Nat
  BY FieldTypes DEF Basics
<1>6. Deref(data, parseDict(Stored)) = Contents(Stored)
  BY <1>4, <1>5, DerefRegion DEF FileSize, Stored
<1>7. kv = Contents(Stored)
  BY <1>1 DEF kv
<1> QED
  BY <1>1, <1>3, <1>4, <1>6, <1>7 DEF SameRegion, Decoded, Visible

\* A step of a process that is not writing leaves the map alone.
LEMMA MapFrame ==
    ASSUME Basics, Basics', UNCHANGED <<data, meta>>, NEW p \in Procs,
           ~Writing(p), ~Writing(p)',
           \A q \in Procs \ {p} : pc'[q] = pc[q] /\ inst'[q] = inst[q] /\ buf'[q] = buf[q]
    PROVE  kv' = kv
<1>1. \A q \in Procs : Writing(q)' <=> Writing(q)
  BY DEF Writing
<1>2. CASE \E q \in Procs : Writing(q)
  <2>1. PICK q \in Procs : Writing(q)
    BY <1>2
  <2>2. q # p /\ \A r \in Procs : Writing(r) => r = q
    BY <2>1, OneWriter, SMTT(30)
  <2>3. kv = Contents(Pending(q))
    BY <2>1, <2>2, MapWhileWriting
  <2>4. kv' = Contents(Pending(q)')
    BY <1>1, <2>1, <2>2, NextMapWhileWriting, SMTT(30)
  <2>5. Pending(q)' = Pending(q)
    BY <2>2 DEF Pending
  <2> QED
    BY <2>3, <2>4, <2>5
<1>3. CASE ~\E q \in Procs : Writing(q)
  BY <1>1, <1>3 DEF kv, Stored, Region
<1> QED
  BY <1>2, <1>3

\* The steps of a writer between its decision and its last store.
LEMMA MapPending ==
    ASSUME Basics, NEW p \in Procs, Writing(p), Writing(p)',
           \A q \in Procs \ {p} : pc'[q] = pc[q], Pending(p)' = Pending(p)
    PROVE  kv' = kv
<1>1. \A q \in Procs : Writing(q) => q = p
  BY OneWriter
<1>2. \A q \in Procs : Writing(q)' => q = p
  BY <1>1 DEF Writing
<1> QED
  BY <1>1, <1>2, MapWhileWriting, NextMapWhileWriting

\* Its last store.
LEMMA MapStored ==
    ASSUME Basics, Coherent', NEW p \in Procs, Writing(p), ~Writing(p)',
           \A q \in Procs \ {p} : pc'[q] = pc[q], meta'.crcDigest = Pending(p)
    PROVE  kv' = kv
<1>1. \A q \in Procs : Writing(q) => q = p
  BY OneWriter
<1>2. \A q \in Procs : ~Writing(q)'
  BY <1>1 DEF Writing
<1>3. Quiet'
  BY <1>2 DEF Quiet, Torn, Writing
<1>4. kv = Contents(Pending(p))
  BY <1>1, MapWhileWriting
<1>5. kv' = Contents(Stored')
  BY <1>2 DEF kv
<1>6. meta'.crcDigest = Stored'
  BY <1>3 DEF Coherent, FileInv
<1> QED
  BY <1>4, <1>5, <1>6

\* Its decision.
LEMMA MapDecided ==
    ASSUME Basics, Coherent, NEW p \in Procs, pc[p] = "body", Writing(p)',
           \A q \in Procs \ {p} : pc'[q] = pc[q]
    PROVE  kv = Visible(p) /\ kv' = Contents(Pending(p)')
<1>1. \A q \in Procs : Writing(q)' => q = p
  BY MapInBody DEF Writing
<1> QED
  BY <1>1, MapInBody, NextMapWhileWriting

LEMMA OneHolder ==
    ASSUME Basics, NEW p \in Procs, Holds(p), NEW q \in Procs, Holds(q)
    PROVE  p = q
<1>1. ex[p] > 0 /\ ex[q] > 0
  BY DEF Basics, TypeOK, Holds
<1> QED
  BY <1>1 DEF Basics, Exclusive

LEMMA OwnerIs ==
    ASSUME NEW p \in Procs, Holds(p), \A q \in Procs : Holds(q) => q = p
    PROVE  owner = p
<1>1. (CHOOSE q \in Procs : Holds(q)) = p
  OBVIOUS
<1> QED
  BY <1>1 DEF owner

LEMMA NextOwnerIs ==
    ASSUME NEW p \in Procs, Holds(p)', \A q \in Procs : Holds(q)' => q = p
    PROVE  owner' = p
<1>1. (CHOOSE q \in Procs : Holds(q)') = p
  OBVIOUS
<1> QED
  BY <1>1 DEF owner

LEMMA OwnerFrame ==
    ASSUME Basics, \A q \in Procs : Holds(q)' <=> Holds(q)
    PROVE  owner' = owner
<1>1. CASE \E q \in Procs : Holds(q)
  <2>1. PICK q \in Procs : Holds(q)
    BY <1>1
  <2>2. \A r \in Procs : Holds(r) => r = q
    BY <2>1, OneHolder
  <2> QED
    BY <2>1, <2>2, OwnerIs, NextOwnerIs
<1>2. CASE ~\E q \in Procs : Holds(q)
  BY <1>2 DEF owner
<1> QED
  BY <1>1, <1>2

\* A process inside a call is not shut out by the owner of the lock.
LEMMA MayActInCall ==
    ASSUME Basics, NEW p \in Procs, pc[p] # "idle"
    PROVE  Map!MayAct(p)
<1>1. CASE \E q \in Procs : Holds(q)
  <2>1. PICK q \in Procs : Holds(q)
    BY <1>1
  <2>2. owner = q
    BY <2>1, OneHolder, OwnerIs
  <2>3. q = p
    <3>1. ex[q] > 0
      BY <2>1 DEF Basics, TypeOK, Holds
    <3>2. MultiProcess => ex[p] > 0 \/ sh[p] > 0
      BY DEF Basics, InCall
    <3>3. q # p => ex[p] = 0 /\ sh[p] = 0
      BY <3>1 DEF Basics, Exclusive
    <3> QED
      BY <3>2, <3>3, CoreAssumption
  <2> QED
    BY <2>2, <2>3 DEF Map!MayAct
<1>2. CASE ~\E q \in Procs : Holds(q)
  BY <1>2 DEF owner, Map!MayAct
<1> QED
  BY <1>1, <1>2

\* The counters of the flock are not used in single-process mode.
Unlocked == ~MultiProcess => \A p \in Procs : ex[p] = 0

LEMMA UnlockedStep == Unlocked /\ [Next]_vars => Unlocked'
<1> SUFFICES ASSUME Unlocked, [Next]_vars, ~MultiProcess
             PROVE  \A p \in Procs : ex'[p] = 0
  BY DEF Unlocked
<1>1. ex' = ex
  <2>1. ASSUME NEW p \in Procs, Step(p) PROVE ex' = ex
    BY <2>1, ZenonT(30) DEF Step, RejectReadOnly, checkLoadData, Get, SkipSet,
       SetByOverride, SetByAppend, SetByWriteback, RemoveByTombstone,
       RemoveByWriteback, RemoveMany, RemoveNothing, ClearAll, TrimCompact,
       Shrink, StoreCRC, StoreActualSize, Grow, KeepSize, StoreRegion,
       StoreMeta, End, appendRaw, overrideRaw, StartWriteback
  <2>2. ASSUME NEW p \in Procs, NEW c, BeginRead(p, c) \/ BeginWrite(p, c)
        PROVE  ex' = ex
    BY <2>2, Zenon DEF BeginRead, BeginWrite
  <2>3. ASSUME NEW p \in Procs, Lock(p) \/ Unlock(p) \/ ClearMemoryCache(p)
        PROVE  ex' = ex
    BY <2>3, Zenon DEF Lock, Unlock, ClearMemoryCache
  <2> QED
    BY <2>1, <2>2, <2>3, ZenonT(30) DEF Next, vars
<1> QED
  BY <1>1 DEF Unlocked

-----------------------------------------------------------------------------
(***************************************************************************)
(* Every step of the store is a step of the shared map or leaves it alone. *)
(***************************************************************************)
MapStep == [Map!Next]_(Map!vars)

LEMMA Stutters == ASSUME kv' = kv, res' = res, owner' = owner PROVE MapStep
  BY DEF MapStep, Map!vars

LEMMA OwnerInCall ==
    ASSUME Basics, UNCHANGED <<ex, op>>
    PROVE  owner' = owner
<1>1. \A q \in Procs : Holds(q)' <=> Holds(q)
  BY DEF Holds
<1> QED
  BY <1>1, OwnerFrame

\* Steps that neither read nor write the map.
LEMMA SilentMaps ==
    ASSUME Basics, Basics', UNCHANGED <<data, meta, ex, op, buf, res>>,
           NEW p \in Procs, ~Writing(p), ~Writing(p)',
           \A q \in Procs \ {p} : pc'[q] = pc[q] /\ inst'[q] = inst[q]
    PROVE  MapStep
<1>1. kv' = kv
  BY MapFrame
<1> QED
  BY <1>1, OwnerInCall, Stutters

LEMMA GetMaps ==
    ASSUME Basics, Basics', Coherent, NEW p \in Procs, Get(p)
    PROVE  MapStep
<1>1. /\ pc[p] = "body" /\ pc' = [pc EXCEPT ![p] = "unlock"]
      /\ UNCHANGED <<data, meta, inst, ex, op, buf>>
      /\ res' = [res EXCEPT ![p] = <<Visible(p)>>]
  BY SMTT(30) DEF Get, In
<1>2. kv' = kv
  <2>1. ~Writing(p) /\ ~Writing(p)' /\ \A q \in Procs \ {p} : pc'[q] = pc[q]
    BY <1>1 DEF Writing, Basics, TypeOK
  <2> QED
    BY <1>1, <2>1, MapFrame, SMTT(30)
<1>3. kv = Visible(p)
  BY <1>1, MapInBody
<1>4. owner' = owner /\ Map!MayAct(p)
  BY <1>1, OwnerInCall, MayActInCall
<1>5. Map!Read(p)
  BY <1>1, <1>2, <1>3, <1>4, SMTT(30) DEF Map!Read
<1> QED
  BY <1>5 DEF MapStep, Map!Next

\* A write takes effect when it decides what to store.
LEMMA SetMaps ==
    ASSUME Basics, Coherent, NEW p \in Procs, pc[p] = "body", Writing(p)',
           \A q \in Procs \ {p} : pc'[q] = pc[q], UNCHANGED <<ex, op, res>>,
           NEW k \in Keys, NEW v \in Vals,
           Contents(Pending(p)') = [Visible(p) EXCEPT ![k] = v]
    PROVE  MapStep
<1>1. kv = Visible(p) /\ kv' = Contents(Pending(p)')
  BY MapDecided
<1>2. owner' = owner /\ Map!MayAct(p)
  BY OwnerInCall, MayActInCall
<1>3. Map!Set(p, k, v)
  BY <1>1, <1>2, SMTT(30) DEF Map!Set
<1> QED
  BY <1>3 DEF MapStep, Map!Next

LEMMA RemoveMaps ==
    ASSUME Basics, Coherent, NEW p \in Procs, pc[p] = "body", Writing(p)',
           \A q \in Procs \ {p} : pc'[q] = pc[q], UNCHANGED <<ex, op, res>>,
           NEW ks \in SUBSET Keys,
           Contents(Pending(p)') =
              [k \in Keys |-> IF k \in ks THEN NoVal ELSE Visible(p)[k]]
    PROVE  MapStep
<1>1. kv = Visible(p) /\ kv' = Contents(Pending(p)')
  BY MapDecided
<1>2. owner' = owner /\ Map!MayAct(p)
  BY OwnerInCall, MayActInCall
<1>3. Map!Remove(p, ks)
  BY <1>1, <1>2 DEF Map!Remove
<1> QED
  BY <1>3 DEF MapStep, Map!Next

LEMMA RemoveOneMaps ==
    ASSUME Basics, Coherent, NEW p \in Procs, pc[p] = "body", Writing(p)',
           \A q \in Procs \ {p} : pc'[q] = pc[q], UNCHANGED <<ex, op, res>>,
           NEW k \in Keys, Contents(Pending(p)') = [Visible(p) EXCEPT ![k] = NoVal]
    PROVE  MapStep
<1> DEFINE ks == {k}
<1>1. Visible(p) \in Maps
  BY VisibleType DEF Basics
<1>2. [Visible(p) EXCEPT ![k] = NoVal] =
         [j \in Keys |-> IF j \in ks THEN NoVal ELSE Visible(p)[j]]
  BY <1>1, Zenon DEF Maps
<1>3. ks \in SUBSET Keys
  BY SMTT(30)
<1> HIDE DEF ks
<1> QED
  BY <1>2, <1>3, RemoveMaps, ZenonT(30)

\* What the fast paths are about to store.
LEMMA AppendDecides ==
    ASSUME Basics, Coherent, NEW p \in Procs, pc[p] = "body",
           inst[p].actualSize > 0, op[p] \in WriteCalls,
           NEW k \in Keys, NEW v \in Vals \cup {NoVal}, NEW d,
           appendRaw(p, Pair(k, v), d)
    PROVE  /\ Writing(p)' /\ \A q \in Procs \ {p} : pc'[q] = pc[q]
           /\ UNCHANGED <<ex, op, res>>
           /\ Contents(Pending(p)') = [Visible(p) EXCEPT ![k] = v]
<1> DEFINE m == inst[p]
           item == Pair(k, v)
<1>1. /\ pc'[p] = "crc" /\ UNCHANGED <<ex, op, res>>
      /\ \A q \in Procs \ {p} : pc'[q] = pc[q]
      /\ inst'[p] = appended(m, item, d)
  BY SMTT(30) DEF appendRaw, Basics, TypeOK
<1>2. m \in Instance /\ m.crcDigest \in Seq(Slot)
  BY FieldTypes, SMTT(30) DEF Basics
<1>3. Pending(p)' = Append(m.crcDigest, item)
  BY <1>1, <1>2, AppendedFields, SMTT(30) DEF Pending
<1>4. Len(m.crcDigest) > 0
  <2>1. Decoded(m)
    BY InBody, Zenon
  <2> QED
    BY <2>1, SMTT(30) DEF Decoded
<1>5. Contents(Append(m.crcDigest, item)) = [Contents(m.crcDigest) EXCEPT ![k] = v]
  BY <1>2, <1>4, AppendContents, SMTT(30)
<1>6. Contents(m.crcDigest) = Visible(p)
  BY MapInBody
<1> QED
  BY <1>1, <1>3, <1>5, <1>6, SMTT(30) DEF Writing

LEMMA OverrideDecides ==
    ASSUME Basics, Coherent, NEW p \in Procs, pc[p] = "body",
           NEW k \in Keys, NEW v \in Vals,
           CanOverride(inst[p], k), overrideRaw(p, k, v)
    PROVE  /\ Writing(p)' /\ \A q \in Procs \ {p} : pc'[q] = pc[q]
           /\ UNCHANGED <<ex, op, res>>
           /\ Contents(Pending(p)') = [Visible(p) EXCEPT ![k] = v]
<1> DEFINE m == inst[p]
           two == <<ItemSizeHolder, Pair(k, v)>>
           d == [m.dict EXCEPT ![k] = 2]
<1>1. /\ pc'[p] = "crc" /\ UNCHANGED <<ex, op, res>>
      /\ \A q \in Procs \ {p} : pc'[q] = pc[q]
      /\ inst'[p] = overridden(m, k, two)
  BY SMTT(30) DEF overrideRaw, Basics, TypeOK
<1>2. m \in Instance /\ m.dict \in [Keys -> Nat] /\ data \in Seq(Slot)
  BY FieldTypes DEF Basics
<1>3. Contents(two) = [EmptyMap EXCEPT ![k] = v]
  BY OverrideContents, SMTT(30)
<1> HIDE DEF two
<1>4. inst'[p].crcDigest = two
  <2>1. d = [m.dict EXCEPT ![k] = 2]
    BY SMTT(30)
  <2> HIDE DEF d
  <2> QED
    BY <1>1, <1>2, <2>1, OverriddenFields, SMTT(30)
<1>5. Pending(p)' = two
  BY <1>1, <1>4, SMTT(30) DEF Pending
<1>6. \A l \in Keys \ {k} : m.dict[l] = 0
  BY DEF CanOverride, DictKeys
<1>7. [EmptyMap EXCEPT ![k] = v] = [Visible(p) EXCEPT ![k] = v]
  <2>1. 0 \notin DOMAIN data
    BY <1>2
  <2> QED
    BY <1>6, <2>1, ZenonT(30) DEF Visible, Deref, EmptyMap
<1> QED
  BY <1>1, <1>3, <1>5, <1>7, ZenonT(30) DEF Writing

LEMMA WritebackDecides ==
    ASSUME Basics, NEW p \in Procs, NEW map \in Maps, StartWriteback(p, map)
    PROVE  /\ Writing(p)' /\ \A q \in Procs \ {p} : pc'[q] = pc[q]
           /\ UNCHANGED <<ex, op, res>>
           /\ Contents(Pending(p)') = map
<1>1. /\ pc'[p] = "grow" /\ UNCHANGED <<ex, op, res>>
      /\ \A q \in Procs \ {p} : pc'[q] = pc[q]
      /\ buf'[p] = encodeRegion(map)
  BY SMTT(30) DEF StartWriteback, Basics, TypeOK
<1> QED
  BY <1>1, EncodeContents, SMTT(30) DEF Writing, Pending

\* A log with a live key is not empty.
LEMMA LiveLog ==
    ASSUME Basics, Coherent, NEW p \in Procs, pc[p] = "body",
           op[p] \in WriteCalls, DictKeys(inst[p]) # {}
    PROVE  inst[p].actualSize > 0
<1> DEFINE m == inst[p]
<1>1. m.dict = parseDict(m.crcDigest) /\ m.actualSize = Len(m.crcDigest)
  BY InBody, Zenon DEF Decoded
<1>2. m.crcDigest \in Seq(Slot) /\ Len(m.crcDigest) \in Nat
  BY FieldTypes DEF Basics
<1>3. PICK k \in Keys : m.dict[k] # 0
  BY SMTT(30) DEF DictKeys
<1>4. parseDict(m.crcDigest)[k] = 0 \/ parseDict(m.crcDigest)[k] \in 2..Len(m.crcDigest)
  BY <1>2, ParseDictRange
<1> QED
  BY <1>1, <1>2, <1>3, <1>4, SMTT(30)

LEMMA DecisionMaps ==
    ASSUME Basics, Coherent, NEW p \in Procs,
           \/ SetByOverride(p) \/ SetByAppend(p) \/ SetByWriteback(p)
           \/ RemoveByTombstone(p) \/ RemoveByWriteback(p) \/ RemoveMany(p)
           \/ TrimCompact(p)
    PROVE  MapStep
<1> DEFINE c == op[p]
<1>1. /\ \A kind \in {"set", "remove", "removeMany", "clear", "trim"} :
            In(p, kind) => pc[p] = "body" /\ c \in WriteCalls
      /\ In(p, "set") => c.key \in Keys /\ c.val \in Vals
      /\ In(p, "remove") => c.key \in Keys
      /\ In(p, "removeMany") => c.keys \in SUBSET Keys
  <2>1. pc[p] = "body" => c \in ReadCalls \cup WriteCalls
    BY DEF Basics, InCall
  <2>2. \A w \in WriteCalls : w.kind = "removeMany" => w.keys \in SUBSET Keys
    BY DEF WriteCalls
  <2> QED
    BY <2>1, <2>2, CallKinds, SMTT(30) DEF In
<1>2. Visible(p) \in Maps
  BY VisibleType DEF Basics
<1>3. CASE SetByOverride(p)
  <2>1. /\ pc[p] = "body" /\ c.key \in Keys /\ c.val \in Vals
        /\ CanOverride(inst[p], c.key) /\ overrideRaw(p, c.key, c.val)
    BY <1>1, <1>3, Zenon DEF SetByOverride
  <2>2. /\ Writing(p)' /\ \A q \in Procs \ {p} : pc'[q] = pc[q]
        /\ UNCHANGED <<ex, op, res>>
        /\ Contents(Pending(p)') = [Visible(p) EXCEPT ![c.key] = c.val]
    BY <2>1, OverrideDecides, SMTT(30)
  <2> QED
    BY <2>1, <2>2, SetMaps, ZenonT(30)
<1>4. CASE SetByAppend(p)
  <2>1. /\ pc[p] = "body" /\ c \in WriteCalls /\ c.key \in Keys /\ c.val \in Vals
        /\ DictKeys(inst[p]) # {}
        /\ \E d : appendRaw(p, Pair(c.key, c.val), d)
    BY <1>1, <1>4, Zenon DEF SetByAppend, CanAppend
  <2>2. inst[p].actualSize > 0
    BY <2>1, LiveLog, Zenon
  <2>3. /\ Writing(p)' /\ \A q \in Procs \ {p} : pc'[q] = pc[q]
        /\ UNCHANGED <<ex, op, res>>
        /\ Contents(Pending(p)') = [Visible(p) EXCEPT ![c.key] = c.val]
    BY <2>1, <2>2, AppendDecides, SMTT(30)
  <2> QED
    BY <2>1, <2>3, SetMaps, ZenonT(30)
<1>5. CASE SetByWriteback(p)
  <2> DEFINE map == [Visible(p) EXCEPT ![c.key] = c.val]
  <2>1. /\ pc[p] = "body" /\ c.key \in Keys /\ c.val \in Vals
        /\ StartWriteback(p, map)
    BY <1>1, <1>5, Zenon DEF SetByWriteback
  <2>2. map \in Maps
    BY <1>2, <2>1 DEF Maps
  <2>3. /\ Writing(p)' /\ \A q \in Procs \ {p} : pc'[q] = pc[q]
        /\ UNCHANGED <<ex, op, res>> /\ Contents(Pending(p)') = map
    BY <2>1, <2>2, WritebackDecides, Zenon
  <2> QED
    BY <2>1, <2>3, SetMaps, ZenonT(30)
<1>6. CASE RemoveByTombstone(p) \/ RemoveByWriteback(p)
  <2> DEFINE map == [Visible(p) EXCEPT ![c.key] = NoVal]
  <2>1. pc[p] = "body" /\ c \in WriteCalls /\ c.key \in Keys
    BY <1>1, <1>6, ZenonT(30) DEF RemoveByTombstone, RemoveByWriteback
  <2>2. map \in Maps
    BY <1>2, <2>1 DEF Maps
  <2>3. /\ Writing(p)' /\ \A q \in Procs \ {p} : pc'[q] = pc[q]
        /\ UNCHANGED <<ex, op, res>> /\ Contents(Pending(p)') = map
    <3>1. CASE RemoveByTombstone(p)
      <4>1. inst[p].actualSize > 0 /\ \E d : appendRaw(p, Pair(c.key, NoVal), d)
        BY <3>1, Zenon DEF RemoveByTombstone, CanBury, Tombstone
      <4>2. NoVal \in Vals \cup {NoVal}
        OBVIOUS
      <4> QED
        BY <2>1, <4>1, <4>2, AppendDecides, ZenonT(30)
    <3>2. CASE RemoveByWriteback(p)
      <4>1. StartWriteback(p, map)
        BY <3>2, Zenon DEF RemoveByWriteback
      <4> QED
        BY <2>2, <4>1, WritebackDecides, Zenon
    <3> QED
      BY <1>6, <3>1, <3>2, Zenon
  <2> QED
    BY <2>1, <2>3, RemoveOneMaps, ZenonT(30)
<1>7. CASE RemoveMany(p)
  <2> DEFINE map == [k \in Keys |-> IF k \in c.keys THEN NoVal ELSE Visible(p)[k]]
  <2>1. pc[p] = "body" /\ c.keys \in SUBSET Keys /\ StartWriteback(p, map)
    BY <1>1, <1>7, ZenonT(30) DEF RemoveMany
  <2>2. map \in Maps
    BY <1>2 DEF Maps
  <2>3. /\ Writing(p)' /\ \A q \in Procs \ {p} : pc'[q] = pc[q]
        /\ UNCHANGED <<ex, op, res>> /\ Contents(Pending(p)') = map
    BY <2>1, <2>2, WritebackDecides, ZenonT(30)
  <2> QED
    BY <2>1, <2>3, RemoveMaps, Zenon
<1>8. CASE TrimCompact(p)
  <2>1. pc[p] = "body" /\ StartWriteback(p, Visible(p))
    BY <1>1, <1>8, Zenon DEF TrimCompact
  <2>2. /\ Writing(p)' /\ \A q \in Procs \ {p} : pc'[q] = pc[q]
        /\ UNCHANGED <<ex, op, res>> /\ Contents(Pending(p)') = Visible(p)
    BY <1>2, <2>1, WritebackDecides, ZenonT(30)
  <2>3. kv' = kv
    BY <2>1, <2>2, MapDecided, SMTT(30)
  <2> QED
    BY <2>2, <2>3, OwnerInCall, Stutters
<1> QED
  BY <1>3, <1>4, <1>5, <1>6, <1>7, <1>8, SMTT(30)

LEMMA ClearAllMaps ==
    ASSUME Basics, Coherent, NEW p \in Procs, ClearAll(p)
    PROVE  MapStep
<1>1. /\ pc[p] = "body" /\ pc'[p] = "meta" /\ buf'[p] = <<>>
      /\ \A q \in Procs \ {p} : pc'[q] = pc[q]
      /\ UNCHANGED <<ex, op, res>>
  BY DEF ClearAll, In, Basics, TypeOK
<1>2. Writing(p)' /\ Pending(p)' = <<>>
  BY <1>1 DEF Writing, Pending
<1> DEFINE ks == Keys
<1>3. Contents(Pending(p)') =
         [k \in Keys |-> IF k \in ks THEN NoVal ELSE Visible(p)[k]]
  BY <1>2, EmptyContents, Zenon DEF EmptyMap
<1>4. ks \in SUBSET Keys
  OBVIOUS
<1> HIDE DEF ks
<1> QED
  BY <1>1, <1>2, <1>3, <1>4, RemoveMaps, SMTT(30)

\* The stores that follow the decision.
LEMMA StoresMap ==
    ASSUME Basics, Basics', Coherent, Coherent', NEW p \in Procs,
           \/ StoreCRC(p) \/ StoreActualSize(p) \/ Grow(p) \/ KeepSize(p)
           \/ StoreRegion(p) \/ StoreMeta(p) \/ Shrink(p)
    PROVE  MapStep
<1>1. ASSUME NEW next, pc' = [pc EXCEPT ![p] = next]
      PROVE  pc'[p] = next /\ \A q \in Procs \ {p} : pc'[q] = pc[q]
  BY <1>1 DEF Basics, TypeOK
<1>2. SUFFICES kv' = kv
  <2>1. UNCHANGED <<ex, op, res>>
    BY ZenonT(30) DEF StoreCRC, StoreActualSize, Grow, KeepSize, StoreRegion,
                 StoreMeta, Shrink
  <2> QED
    BY <1>2, <2>1, OwnerInCall, Stutters
<1>3. CASE StoreCRC(p)
  <2>1. /\ pc[p] = "crc" /\ pc'[p] = "size" /\ inst' = inst
        /\ \A q \in Procs \ {p} : pc'[q] = pc[q]
    BY <1>1, <1>3, ZenonT(30) DEF StoreCRC
  <2>2. Writing(p) /\ Writing(p)' /\ Pending(p)' = Pending(p)
    BY <2>1 DEF Writing, Pending
  <2> QED
    BY <2>1, <2>2, MapPending
<1>4. CASE StoreActualSize(p)
  <2>1. /\ pc[p] = "size" /\ pc'[p] = "unlock"
        /\ \A q \in Procs \ {p} : pc'[q] = pc[q]
        /\ meta' = [meta EXCEPT !.actualSize = inst[p].actualSize]
    BY <1>1, <1>4, Zenon DEF StoreActualSize
  <2>2. meta'.crcDigest = meta.crcDigest
    BY <2>1 DEF Basics, TypeOK, MetaInfo
  <2>3. meta.crcDigest = inst[p].crcDigest
    BY <2>1, Zenon DEF Coherent, InstInv
  <2>4. Writing(p) /\ ~Writing(p)' /\ Pending(p) = inst[p].crcDigest
    BY <2>1, SMTT(30) DEF Writing, Pending
  <2> QED
    BY <2>1, <2>2, <2>3, <2>4, MapStored, SMTT(30)
<1>5. CASE Grow(p) \/ KeepSize(p) \/ StoreRegion(p)
  <2>1. /\ pc[p] \in {"grow", "region"} /\ buf' = buf
        /\ \E next \in {"region", "meta"} : pc' = [pc EXCEPT ![p] = next]
    BY <1>5, Zenon DEF Grow, KeepSize, StoreRegion
  <2>2. /\ pc'[p] \in {"region", "meta"} /\ \A q \in Procs \ {p} : pc'[q] = pc[q]
    BY <1>1, <2>1, ZenonT(30)
  <2>3. Writing(p) /\ Writing(p)' /\ Pending(p)' = Pending(p)
    BY <2>1, <2>2, SMTT(30) DEF Writing, Pending
  <2> QED
    BY <2>2, <2>3, MapPending
<1>6. CASE StoreMeta(p)
  <2>1. /\ pc[p] = "meta" /\ meta' = NextInfo(inst[p])
        /\ \E next \in {"shrink", "unlock"} : pc' = [pc EXCEPT ![p] = next]
    BY <1>6, Zenon DEF StoreMeta
  <2>2. /\ pc'[p] \in {"shrink", "unlock"} /\ \A q \in Procs \ {p} : pc'[q] = pc[q]
    BY <1>1, <2>1, Zenon
  <2>3. inst[p].crcDigest = buf[p]
    BY <2>1, Zenon DEF Coherent, InstInv
  <2>4. meta'.crcDigest = inst[p].crcDigest
    <3>1. inst[p].info \in MetaInfo
      BY FieldTypes, ZenonT(30) DEF Basics
    <3> QED
      BY <2>1, <3>1, SMTT(30) DEF NextInfo, MetaInfo
  <2>5. Writing(p) /\ ~Writing(p)' /\ Pending(p) = buf[p]
    BY <2>1, <2>2, SMTT(30) DEF Writing, Pending
  <2> QED
    BY <2>2, <2>3, <2>4, <2>5, MapStored, ZenonT(30)
<1>7. CASE Shrink(p)
  <2>1. /\ pc[p] = "shrink" /\ pc'[p] = "unlock" /\ meta' = meta
        /\ \A q \in Procs \ {p} : pc'[q] = pc[q]
    BY <1>1, <1>7, ZenonT(30) DEF Shrink
  <2>2. \A q \in Procs : ~Writing(q) /\ ~Writing(q)'
    BY <2>1, NoWriter DEF Writing
  <2>3. Quiet /\ Quiet'
    BY <2>2 DEF Quiet, Torn, Writing
  <2>4. Stored = meta.crcDigest /\ Stored' = meta'.crcDigest
    BY <2>3 DEF Coherent, FileInv
  <2> QED
    BY <2>1, <2>2, <2>4, SMTT(30) DEF kv
<1> QED
  BY <1>3, <1>4, <1>5, <1>6, <1>7, SMTT(30)

\* The steps between calls, and those inside a call that store nothing.
LEMMA QuietStepsMap ==
    ASSUME Basics, Basics', NEW p \in Procs,
           \/ RejectReadOnly(p) \/ checkLoadData(p) \/ SkipSet(p) \/ RemoveNothing(p)
           \/ ClearMemoryCache(p)
    PROVE  MapStep
<1>1. UNCHANGED <<data, meta, ex, op, buf, res>>
  BY Zenon DEF RejectReadOnly, checkLoadData, SkipSet, RemoveNothing, ClearMemoryCache
<1>2. /\ pc[p] \in {"check", "body", "idle"}
      /\ \/ pc' = pc
         \/ \E next \in {"body", "unlock"} : pc' = [pc EXCEPT ![p] = next]
  BY Zenon DEF RejectReadOnly, checkLoadData, SkipSet, RemoveNothing, In, ClearMemoryCache
<1>3. inst' = inst \/ \E m : inst' = [inst EXCEPT ![p] = m]
  BY Zenon DEF RejectReadOnly, checkLoadData, SkipSet, RemoveNothing, ClearMemoryCache
<1>4. pc \in [Procs -> Steps] /\ inst \in [Procs -> Instance]
  BY DEF Basics, TypeOK
<1>5. ~Writing(p) /\ ~Writing(p)'
  BY <1>2, <1>4 DEF Writing
<1>6. \A q \in Procs \ {p} : pc'[q] = pc[q] /\ inst'[q] = inst[q]
  BY <1>2, <1>3, <1>4
<1> QED
  BY <1>1, <1>5, <1>6, SilentMaps, SMTT(30)

\* A call takes the lock for itself alone: it does not change the owner.
LEMMA BeginMaps ==
    ASSUME Basics, Basics', Unlocked, NEW p \in Procs, NEW c,
           BeginRead(p, c) \/ BeginWrite(p, c)
    PROVE  MapStep
<1>1. /\ pc[p] = "idle" /\ pc' = [pc EXCEPT ![p] = "check"]
      /\ op' = [op EXCEPT ![p] = c]
      /\ UNCHANGED <<data, meta, inst, buf, res>>
  BY ZenonT(30) DEF BeginRead, BeginWrite
<1>2. /\ pc \in [Procs -> Steps] /\ ex \in [Procs -> Nat] /\ op[p] = NoCall
      /\ op'[p] = c /\ \A q \in Procs \ {p} : pc'[q] = pc[q] /\ op'[q] = op[q]
  BY <1>1, SMTT(30) DEF Basics, TypeOK, InCall
<1>3. kv' = kv
  <2>1. ~Writing(p) /\ ~Writing(p)'
    BY <1>1, <1>2 DEF Writing
  <2> QED
    BY <1>1, <1>2, <2>1, MapFrame, ZenonT(30)
<1>4. Holds(p)' <=> Holds(p)
  <2>1. CASE BeginRead(p, c)
    <3>1. ex' = ex /\ c \in ReadCalls
      BY <2>1, ZenonT(30) DEF BeginRead
    <3> QED
      BY <1>2, <3>1, CallKinds DEF Holds
  <2>2. CASE BeginWrite(p, c)
    <3>1. /\ c \in WriteCalls /\ (~MultiProcess => ex' = ex)
          /\ MultiProcess => ex' = [ex EXCEPT ![p] = @ + 1]
      BY <2>2, ZenonT(30) DEF BeginWrite
    <3> QED
      BY <1>2, <3>1, CallKinds, SMTT(30) DEF Holds, Unlocked
  <2> QED
    BY <2>1, <2>2, SMTT(30)
<1>5. \A q \in Procs \ {p} : Holds(q)' <=> Holds(q)
  <2>1. \A q \in Procs \ {p} : ex'[q] = ex[q]
    BY <1>2 DEF BeginRead, BeginWrite
  <2> QED
    BY <1>2, <2>1, SMTT(30) DEF Holds
<1> QED
  BY <1>1, <1>3, <1>4, <1>5, OwnerFrame, Stutters, SMTT(30)

LEMMA EndMaps ==
    ASSUME Basics, Basics', Unlocked, NEW p \in Procs, End(p)
    PROVE  MapStep
<1>1. /\ pc[p] = "unlock" /\ pc' = [pc EXCEPT ![p] = "idle"]
      /\ op' = [op EXCEPT ![p] = NoCall] /\ res' = [res EXCEPT ![p] = <<>>]
      /\ buf' = [buf EXCEPT ![p] = <<>>]
      /\ UNCHANGED <<data, meta, inst>>
  BY ZenonT(30) DEF End
<1>2. /\ pc \in [Procs -> Steps] /\ ex \in [Procs -> Nat]
      /\ op[p] \in ReadCalls \cup WriteCalls /\ op'[p] = NoCall
      /\ MultiProcess /\ op[p] \in WriteCalls => ex[p] > 0
      /\ \A q \in Procs \ {p} : pc'[q] = pc[q] /\ op'[q] = op[q] /\ buf'[q] = buf[q]
  BY <1>1, SMTT(30) DEF Basics, TypeOK, InCall
<1>3. kv' = kv
  <2>1. ~Writing(p) /\ ~Writing(p)'
    BY <1>1, <1>2 DEF Writing
  <2> QED
    BY <1>1, <1>2, <2>1, MapFrame, SMTT(30)
<1>4. /\ ~MultiProcess => ex' = ex
      /\ MultiProcess /\ op[p] \in ReadCalls => ex' = ex
      /\ MultiProcess /\ op[p] \notin ReadCalls => ex' = [ex EXCEPT ![p] = @ - 1]
  BY ZenonT(30) DEF End
<1>5. Holds(p)' <=> Holds(p)
  BY <1>2, <1>4, CallKinds, SMTT(30) DEF Holds, Unlocked
<1>6. \A q \in Procs \ {p} : Holds(q)' <=> Holds(q)
  <2>1. \A q \in Procs \ {p} : ex'[q] = ex[q]
    BY <1>2, <1>4
  <2> QED
    BY <1>2, <2>1, SMTT(30) DEF Holds
<1>7. owner' = owner
  BY <1>5, <1>6, OwnerFrame
<1>8. Map!Return(p)
  BY <1>1, <1>3, <1>7 DEF Map!Return
<1> QED
  BY <1>8 DEF MapStep, Map!Next

\* Lock and Unlock between calls.
LEMMA LockMaps ==
    ASSUME Basics, Basics', NEW p \in Procs, Lock(p)
    PROVE  MapStep
<1>1. /\ pc[p] = "idle" /\ op[p] = NoCall /\ ex' = [ex EXCEPT ![p] = @ + 1]
      /\ ex[p] = 0 => \A q \in Procs \ {p} : ex[q] = 0
      /\ UNCHANGED <<data, meta, inst, pc, op, buf, res>>
  BY SMTT(30) DEF Lock, Others, Basics, InCall
<1>2. ex \in [Procs -> Nat] /\ ex'[p] = ex[p] + 1
  BY <1>1, SMTT(30) DEF Basics, TypeOK
<1>3. kv' = kv
  BY <1>1, ZenonT(30) DEF kv, Writing, Pending, Stored, Region
<1>4. \A q \in Procs \ {p} : ex[q] = 0 /\ ex'[q] = 0
  BY <1>1, <1>2, SMTT(30) DEF Basics, Exclusive
<1>5. \A q \in Procs \ {p} : ~Holds(q) /\ ~Holds(q)'
  BY <1>4 DEF Holds
<1>6. Holds(p)'
  BY <1>1, <1>2, CallKinds DEF Holds
<1>7. owner' = p
  BY <1>5, <1>6, NextOwnerIs
<1>8. Map!MayAct(p)
  <2>1. CASE Holds(p)
    BY <2>1, <1>5, OwnerIs DEF Map!MayAct
  <2>2. CASE ~Holds(p)
    BY <2>2, <1>5, SMTT(30) DEF owner, Map!MayAct
  <2> QED
    BY <2>1, <2>2
<1>9. Map!Lock(p)
  BY <1>1, <1>3, <1>7, <1>8, SMTT(30) DEF Map!Lock
<1> QED
  BY <1>9, SMTT(30) DEF MapStep, Map!Next

LEMMA UnlockMaps ==
    ASSUME Basics, Basics', NEW p \in Procs, Unlock(p)
    PROVE  MapStep
<1>1. /\ pc[p] = "idle" /\ op[p] = NoCall /\ ex[p] > 0
      /\ ex' = [ex EXCEPT ![p] = @ - 1]
      /\ UNCHANGED <<data, meta, inst, pc, op, buf, res>>
  BY SMTT(30) DEF Unlock, Basics, InCall
<1>2. ex \in [Procs -> Nat] /\ ex'[p] = ex[p] - 1
  BY <1>1, SMTT(30) DEF Basics, TypeOK
<1>3. kv' = kv
  BY <1>1, SMTT(30) DEF kv, Writing, Pending, Stored, Region
<1>4. \A q \in Procs \ {p} : ex[q] = 0 /\ ex'[q] = 0
  BY <1>1, <1>2 DEF Basics, Exclusive
<1>5. \A q \in Procs \ {p} : ~Holds(q) /\ ~Holds(q)'
  BY <1>4 DEF Holds
<1>6. owner = p
  <2>1. Holds(p)
    BY <1>1, <1>2, CallKinds, SMTT(30) DEF Holds
  <2> QED
    BY <2>1, <1>5, OwnerIs, SMTT(30)
<1>7. CASE ex[p] = 1
  <2>1. ~Holds(p)'
    BY <1>1, <1>2, <1>7, CallKinds DEF Holds
  <2>2. owner' = "nobody"
    BY <1>5, <2>1, SMTT(30) DEF owner
  <2>3. Map!Unlock(p)
    BY <1>1, <1>3, <1>6, <2>2, SMTT(30) DEF Map!Unlock
  <2> QED
    BY <2>3 DEF MapStep, Map!Next
<1>8. CASE ex[p] # 1
  <2>1. Holds(p)'
    BY <1>1, <1>2, <1>8, CallKinds, SMTT(30) DEF Holds
  <2>2. owner' = p
    BY <1>5, <2>1, NextOwnerIs
  <2> QED
    BY <1>1, <1>3, <1>6, <2>2, Stutters, SMTT(30)
<1> QED
  BY <1>7, <1>8, SMTT(30)

LEMMA NextMaps ==
    ASSUME Basics, Basics', Coherent, Coherent', Unlocked, [Next]_vars
    PROVE  MapStep
<1>1. ASSUME NEW p \in Procs, Step(p) PROVE MapStep
  <2>1. CASE Get(p)
    BY <2>1, GetMaps
  <2>2. CASE End(p)
    BY <2>2, EndMaps
  <2>3. CASE ClearAll(p)
    BY <2>3, ClearAllMaps
  <2> QED
    BY <1>1, <2>1, <2>2, <2>3, QuietStepsMap, DecisionMaps, StoresMap, ZenonT(30) DEF Step
<1>2. ASSUME NEW p \in Procs, Lock(p) \/ Unlock(p) \/ ClearMemoryCache(p)
      PROVE  MapStep
  BY <1>2, LockMaps, UnlockMaps, QuietStepsMap, ZenonT(30)
<1>3. ASSUME NEW p \in Procs, NEW c \in Calls, BeginRead(p, c) \/ BeginWrite(p, c)
      PROVE  MapStep
  BY <1>3, BeginMaps, Zenon
<1>4. CASE UNCHANGED vars
  <2>1. UNCHANGED <<data, meta, inst, ex, pc, op, buf, res>>
    BY <1>4, SMTT(30) DEF vars
  <2>2. kv' = kv
    BY <2>1 DEF kv, Writing, Pending, Stored, Region
  <2> QED
    BY <2>1, <2>2, OwnerInCall, Stutters, SMTT(30)
<1> QED
  BY <1>1, <1>2, <1>3, <1>4, ZenonT(30) DEF Next

LEMMA InitMapsTo == ASSUME Init PROVE Map!Init /\ Unlocked
<1>1. Basics
  BY InitBasics
<1>2. /\ pc = [q \in Procs |-> "idle"] /\ ex = [q \in Procs |-> 0]
      /\ res = [q \in Procs |-> <<>>]
  BY Zenon DEF Init, InitWith
<1>3. \A q \in Procs : ~Writing(q)
  BY <1>2 DEF Writing
<1>4. kv = Contents(Stored)
  BY <1>3 DEF kv
<1>5. Stored \in Seq(Slot)
  <2>1. Quiet
    BY <1>2 DEF Quiet, Torn
  <2>2. Stored = meta.crcDigest
    BY <2>1, InitCoherent DEF Coherent, FileInv
  <2> QED
    BY <1>1, <2>2, SMTT(30) DEF Basics, TypeOK, MetaInfo
<1>6. kv \in Maps
  BY <1>4, <1>5, ParseDictType, DerefType, SMTT(30) DEF Contents
<1>7. \A q \in Procs : ex[q] = 0
  BY <1>2
<1>8. \A q \in Procs : ~Holds(q)
  BY <1>7 DEF Holds
<1>9. owner = "nobody"
  BY <1>8 DEF owner
<1> QED
  BY <1>2, <1>6, <1>7, <1>9 DEF Map!Init, Maps, Unlocked

\* Reads return the latest completed write, writes take effect once and whole,
\* Lock excludes the others: every behaviour of the store (the locked calls,
\* checkLoadData, the byte and meta stores one by one) is one of KVMap.
THEOREM StoreImplementsMap == Spec => ImplementsMap
<1> DEFINE I == Basics /\ Coherent /\ Unlocked
<1>1. Init => I /\ Map!Init
  BY InitBasics, InitCoherent, InitMapsTo
<1>2. I /\ [Next]_vars => I'
  BY NextBasics, NextCoherent, UnlockedStep
<1>3. I /\ I' /\ [Next]_vars => [Map!Next]_(Map!vars)
  BY NextMaps DEF MapStep
<1> HIDE DEF I
<1> QED
  BY <1>1, <1>2, <1>3, PTL DEF Spec, ImplementsMap, Map!Spec
=============================================================================
