---------------------------- MODULE MMKVCoherence -----------------------------
(***************************************************************************)
(* Proofs that instances of MMKVCore stay coherent with the files and with *)
(* each other, for any processes, keys, values, page size and calls.       *)
(*                                                                         *)
(* The inductive invariant says of the files that digest and size describe *)
(* the stored region unless a store is under way, and of every instance,   *)
(* at each place in a call, how far it agrees with the files.  What makes  *)
(* it inductive is the sequence: an instance whose sequence is the stored  *)
(* one has mapped the whole file, because every step that resizes the file *)
(* either comes before a new sequence is stored or leaves all others       *)
(* behind the stored one.                                                  *)
(***************************************************************************)
EXTENDS MMKVCoreProofs

FileInv ==
    /\ Quiet => meta.crcDigest = Stored /\ HeaderSize + meta.actualSize <= FileSize
    /\ meta.version = 0 => meta.actualSize = 0

\* p got past checkLoadData and is not in the middle of a store.
Loaded(p) == \/ pc[p] \in {"body", "grow", "region", "shrink"}
             \/ pc[p] = "unlock" /\ (op[p] \in ReadCalls \/ p \notin ReadOnly)

\* The file has the size it had when its sequence was stored.
Unresized == \A q \in Procs : pc[q] \notin {"region", "meta"}

SameRegion(m) == m.crcDigest = meta.crcDigest /\ m.actualSize = meta.actualSize

Decoded(m) == m.dict = parseDict(m.crcDigest) /\ m.actualSize = Len(m.crcDigest)

Behind(m) ==
    /\ m.info.sequence <= meta.sequence
    /\ m.info.sequence = meta.sequence => m.info.version = meta.version
    /\ m.info.sequence = meta.sequence /\ Unresized => m.size = FileSize

Current(m) == /\ m.info.sequence = meta.sequence
              /\ m.size = FileSize
              /\ ~m.needLoad

InFile(region) == /\ Region(data, Len(region)) = region
                  /\ HeaderSize + Len(region) <= FileSize

InstInv(p) ==
    /\ Behind(inst[p])
    /\ pc[p] # "meta" => Decoded(inst[p])
    /\ pc[p] \notin {"region", "meta"} => ~inst[p].dangling
    /\ Loaded(p) \/ Torn(p) => Current(inst[p])
    /\ Loaded(p) => SameRegion(inst[p])
    /\ pc[p] \in {"crc", "size"} =>
          InFile(inst[p].crcDigest) /\ meta.version # 0
    /\ pc[p] = "size" => meta.crcDigest = inst[p].crcDigest
    /\ pc[p] = "grow" => Len(buf[p]) > 0
    /\ pc[p] = "region" => HeaderSize + Len(buf[p]) <= FileSize
    /\ pc[p] = "meta" =>
          /\ inst[p].actualSize = Len(buf[p]) /\ inst[p].crcDigest = buf[p]
          /\ InFile(buf[p])
    /\ pc[p] = "shrink" =>
          \A q \in Others(p) : inst[q].info.sequence < meta.sequence
    /\ ~MultiProcess =>
          /\ inst[p].info.sequence = meta.sequence
          /\ ~inst[p].needLoad /\ ~Torn(p) => SameRegion(inst[p])

\* The inductive invariant: the meta describes the stored region whenever no
\* appendRaw, overrideRaw, write-back or clear is under way, and every instance
\* agrees with the files as far as its place in its call (InstInv) demands.
Coherent == FileInv /\ \A p \in Procs : InstInv(p)

-----------------------------------------------------------------------------
(***************************************************************************)
(* What the locks give.                                                    *)
(***************************************************************************)
\* While a process is inside a write call all the others are idle.
LEMMA WriterAlone ==
    ASSUME Basics, NEW p \in Procs, op[p] \in WriteCalls, NEW q \in Procs \ {p}
    PROVE  MultiProcess /\ pc[q] = "idle"
<1>1. MultiProcess
  BY CoreAssumption
<1>2. ex[p] > 0
  BY <1>1 DEF Basics, InCall, OpenSteps
<1>3. ex[q] = 0 /\ sh[q] = 0
  BY <1>2 DEF Basics, Exclusive
<1>4. op[q] \notin ReadCalls /\ op[q] \notin WriteCalls
  BY <1>1, <1>3 DEF Basics, InCall, OpenSteps
<1> QED
  BY <1>1, <1>4 DEF Basics, InCall, OpenSteps

\* While a process is inside any call nobody else is storing anything.
LEMMA NobodyElseWrites ==
    ASSUME Basics, NEW p \in Procs, pc[p] # "idle", NEW q \in Procs \ {p}
    PROVE  pc[q] \in {"idle", "check", "body", "unlock"}
<1>1. op[q] \notin WriteCalls
  BY WriterAlone
<1> QED
  BY <1>1 DEF Basics, InCall, OpenSteps, TypeOK, Steps

LEMMA OthersIdle ==
    ASSUME Basics, Coherent, NEW p \in Procs, op[p] \in WriteCalls,
           NEW q \in Procs \ {p}, pc'[q] = pc[q], inst'[q] = inst[q],
           Behind(inst[q])'
    PROVE  InstInv(q)'
<1>1. MultiProcess /\ pc[q] = "idle" /\ pc'[q] = "idle"
  BY WriterAlone
<1>2. Decoded(inst[q])' /\ ~inst'[q].dangling
  BY <1>1 DEF Coherent, InstInv, Decoded
<1> QED
  BY <1>1, <1>2 DEF InstInv, Loaded, Torn

-----------------------------------------------------------------------------
(***************************************************************************)
(* Steps that change neither file.                                         *)
(***************************************************************************)
LEMMA OthersKeep ==
    ASSUME Basics, Coherent, NEW p \in Procs, UNCHANGED <<data, meta>>,
           pc[p] \notin {"region", "meta"}, NEW q \in Procs \ {p},
           pc'[q] = pc[q], op'[q] = op[q], buf'[q] = buf[q],
           \A r \in Procs \ {p} : inst'[r] = inst[r] /\ pc'[r] = pc[r],
           inst'[p].info.sequence = inst[p].info.sequence \/ pc[q] # "shrink"
    PROVE  InstInv(q)'
<1>1. InstInv(q)
  BY DEF Coherent
<1>2. Unresized' => Unresized
  BY DEF Unresized
<1>3. Behind(inst[q])'
  BY <1>1, <1>2 DEF InstInv, Behind, FileSize
<1>4. pc[q] = "shrink" =>
        \A r \in Others(q) : inst'[r].info.sequence < meta'.sequence
  BY <1>1 DEF InstInv, Others
<1> QED
  BY <1>1, <1>3, <1>4, Zenon
     DEF InstInv, Decoded, Loaded, Torn, Current, SameRegion, InFile, FileSize,
         Region, Others

LEMMA FileKeeps ==
    ASSUME Coherent, NEW p \in Procs, UNCHANGED <<data, meta>>, ~Torn(p),
           \A r \in Procs \ {p} : pc'[r] = pc[r]
    PROVE  FileInv'
<1>1. Quiet' => Quiet
  BY DEF Quiet, Torn
<1> QED
  BY <1>1 DEF Coherent, FileInv, Stored, Region, FileSize

\* Steps that only move on inside or between calls.
LEMMA Moves ==
    ASSUME Basics, Coherent, NEW p \in Procs, UNCHANGED <<data, meta, inst>>,
           pc[p] \in {"idle", "check", "body", "grow", "unlock"},
           NEW next \in {"idle", "check", "body", "grow", "region", "unlock"},
           pc' = [pc EXCEPT ![p] = next],
           \A q \in Procs \ {p} : op'[q] = op[q] /\ buf'[q] = buf[q],
           Loaded(p)' => Loaded(p),
           next = "grow" => Len(buf'[p]) > 0,
           next = "region" => HeaderSize + Len(buf'[p]) <= FileSize
    PROVE  Coherent'
<1>1. ~Torn(p) /\ pc'[p] = next /\ \A q \in Procs \ {p} : pc'[q] = pc[q]
  BY DEF Torn, Basics, TypeOK
<1>2. FileInv'
  BY <1>1, FileKeeps
<1>3. InstInv(p)'
  <2>1. InstInv(p)
    BY DEF Coherent
  <2>2. Unresized' => Unresized
    BY <1>1 DEF Unresized
  <2>3. Behind(inst[p])'
    BY <2>1, <2>2 DEF InstInv, Behind, FileSize
  <2>4. Decoded(inst[p])' /\ ~inst'[p].dangling
    BY <2>1 DEF InstInv, Decoded
  <2> QED
    BY <1>1, <2>1, <2>3, <2>4
       DEF InstInv, Torn, Current, SameRegion, InFile, FileSize
<1>4. ASSUME NEW q \in Procs \ {p} PROVE InstInv(q)'
  BY <1>1, <1>4, OthersKeep
<1> QED
  BY <1>2, <1>3, <1>4 DEF Coherent

-----------------------------------------------------------------------------
(***************************************************************************)
(* Loading.                                                                *)
(***************************************************************************)
LEMMA FieldTypes ==
    ASSUME TypeOK, NEW p \in Procs
    PROVE  /\ inst[p] \in Instance /\ inst[p].info \in MetaInfo
           /\ inst[p].info.sequence \in Nat /\ inst[p].actualSize \in Nat
           /\ inst[p].crcDigest \in Seq(Slot) /\ inst[p].size \in Nat
           /\ inst[p].dict \in [Keys -> Nat] /\ inst[p].dangling \in BOOLEAN
           /\ meta.sequence \in Nat /\ meta.actualSize \in Nat
           /\ meta.version \in {0, 3, 4} /\ meta.crcDigest \in Seq(Slot)
           /\ data \in Seq(Slot) /\ Len(data) \in Nat /\ HeaderSize \in Nat
           /\ HeaderSize > 0 /\ FileSize \in Nat
           /\ buf[p] \in Seq(Slot) /\ Len(buf[p]) \in Nat
<1>1. /\ inst[p] \in Instance /\ meta \in MetaInfo
      /\ data \in Seq(Slot) /\ buf[p] \in Seq(Slot)
  BY DEF TypeOK
<1>2. /\ inst[p].info \in MetaInfo /\ inst[p].actualSize \in Nat
      /\ inst[p].crcDigest \in Seq(Slot) /\ inst[p].size \in Nat
      /\ inst[p].dict \in [Keys -> Nat] /\ inst[p].dangling \in BOOLEAN
  BY <1>1 DEF Instance
<1>3. inst[p].info.sequence \in Nat
  BY <1>2 DEF MetaInfo
<1>4. /\ meta.sequence \in Nat /\ meta.actualSize \in Nat
      /\ meta.version \in {0, 3, 4} /\ meta.crcDigest \in Seq(Slot)
  BY <1>1 DEF MetaInfo
<1>5. /\ Len(data) \in Nat /\ Len(buf[p]) \in Nat
      /\ HeaderSize \in Nat /\ HeaderSize > 0
  BY <1>1, StoreAssumption
<1>6. FileSize \in Nat
  BY <1>5 DEF FileSize
<1> QED
  BY <1>1, <1>2, <1>3, <1>4, <1>5, <1>6

\* With nothing torn, an instance that has mapped the file accepts its region.
LEMMA Accepted ==
    ASSUME TypeOK, FileInv, Quiet, NEW m \in Instance, m.size = FileSize,
           m.info = meta
    PROVE  CurrentOK(m) /\ readActualSize(m.info) = meta.actualSize
<1>1. /\ meta.actualSize \in Nat /\ meta.version \in {0, 3, 4}
      /\ HeaderSize \in Nat /\ HeaderSize > 0 /\ FileSize \in Nat
  BY StoreAssumption DEF TypeOK, MetaInfo, FileSize
<1>2. readActualSize(m.info) = meta.actualSize
  BY <1>1 DEF readActualSize, versionActualSize, FileInv
<1> QED
  BY <1>1, <1>2 DEF CurrentOK, Acceptable, FileInv, Stored

LEMMA LoadResult ==
    ASSUME TypeOK, FileInv, Quiet, NEW m \in Instance, m.size = FileSize
    PROVE  /\ loadData(m).info = meta /\ loadData(m).size = FileSize
           /\ loadData(m).dict = parseDict(meta.crcDigest)
           /\ loadData(m).crcDigest = meta.crcDigest
           /\ loadData(m).actualSize = meta.actualSize
           /\ loadData(m).needLoad = m.needLoad
           /\ ~loadData(m).dangling
<1> DEFINE l == [m EXCEPT !.info = meta]
<1>1. l \in Instance /\ l.size = FileSize /\ l.info = meta
  BY Zenon DEF Instance, TypeOK
<1>2. CurrentOK(l) /\ readActualSize(l.info) = meta.actualSize
  BY <1>1, Accepted, Zenon
<1>3. loadData(m) = decodeRegion(l, meta.actualSize, meta.crcDigest)
  BY <1>1, <1>2 DEF loadData, loadInto
<1>4. Region(data, meta.actualSize) = meta.crcDigest
  BY SMTT(30) DEF FileInv, Stored
<1> QED
  BY <1>1, <1>3, <1>4 DEF decodeRegion, Instance

LEMMA RemapResult ==
    ASSUME TypeOK, NEW m \in Instance
    PROVE  remap(m) \in Instance /\ remap(m).size = FileSize
           /\ remap(m).needLoad = m.needLoad
<1>1. data \in Seq(Slot)
  BY DEF TypeOK
<1> QED
  BY <1>1, RemapType, Zenon DEF remap, Instance

LEMMA CheckLoadCoherent ==
    ASSUME Basics, Basics', Coherent, NEW p \in Procs, checkLoadData(p)
    PROVE  Coherent'
<1> DEFINE m == inst[p]
<1>1. /\ pc[p] = "check" /\ pc'[p] = "body"
      /\ UNCHANGED <<data, meta, op, buf>>
      /\ \A q \in Procs \ {p} : inst'[q] = inst[q] /\ pc'[q] = pc[q]
  BY DEF checkLoadData, Basics, TypeOK
<1>2. Quiet /\ Unresized /\ ~Torn(p)
  BY <1>1, NobodyElseWrites DEF Quiet, Unresized, Torn
<1>3. FileInv'
  BY <1>1, <1>2, FileKeeps
<1>4. ASSUME NEW q \in Procs \ {p} PROVE InstInv(q)'
  <2>1. pc[q] # "shrink"
    BY <1>1, NobodyElseWrites
  <2> QED
    BY <1>1, <2>1, OthersKeep
<1>5. InstInv(p)'
  <2>1. m \in Instance /\ InstInv(p) /\ FileInv /\ TypeOK
    BY FieldTypes DEF Basics, Coherent
  <2>2. inst'[p] = IF m.needLoad
                   THEN loadData(remap([m EXCEPT !.needLoad = FALSE]))
                   ELSE IF NewSequence(p) THEN loadData(remap(m))
                   ELSE IF NewAppend(p) THEN loadData(m) ELSE m
    BY DEF checkLoadData, Basics, TypeOK
  <2>3. SUFFICES /\ Current(inst'[p]) /\ SameRegion(inst'[p])
                 /\ Decoded(inst'[p]) /\ ~inst'[p].dangling
                 /\ inst'[p].info.version = meta.version
    <3>1. Behind(inst[p])'
      BY <1>1, <2>3, FieldTypes DEF Current, Behind, FileSize, Basics
    <3> QED
      BY <1>1, <2>3, <3>1
         DEF InstInv, Current, SameRegion, Decoded, Torn, FileSize
  <2>4. meta.actualSize = Len(meta.crcDigest)
    BY <1>2, <2>1, FieldTypes, RegionType, Zenon DEF FileInv, Stored
  <2>5. ASSUME NEW l \in Instance, l.size = FileSize, ~l.needLoad,
               inst'[p] = loadData(l)
        PROVE  /\ Current(inst'[p]) /\ SameRegion(inst'[p])
               /\ Decoded(inst'[p]) /\ ~inst'[p].dangling
               /\ inst'[p].info.version = meta.version
    BY <1>2, <2>1, <2>4, <2>5, LoadResult DEF Current, SameRegion, Decoded
  <2>6. CASE m.needLoad
    <3> DEFINE l == [m EXCEPT !.needLoad = FALSE]
    <3>1. l \in Instance /\ ~l.needLoad
      BY <2>1, Zenon DEF Instance
    <3>2. remap(l) \in Instance /\ remap(l).size = FileSize /\ ~remap(l).needLoad
      BY <2>1, <3>1, RemapResult, Zenon
    <3> QED
      BY <2>2, <2>5, <2>6, <3>2, Zenon
  <2>7. CASE ~m.needLoad /\ NewSequence(p)
    <3>1. remap(m) \in Instance /\ remap(m).size = FileSize /\ ~remap(m).needLoad
      BY <2>1, <2>7, RemapResult
    <3> QED
      BY <2>2, <2>5, <2>7, <3>1
  <2>8. CASE ~m.needLoad /\ ~NewSequence(p)
    <3>1. m.info.sequence = meta.sequence
      BY <2>1, <2>8 DEF NewSequence, InstInv
    <3>2. m.size = FileSize /\ m.info.version = meta.version
      BY <1>2, <2>1, <3>1 DEF InstInv, Behind
    <3>3. CASE NewAppend(p)
      BY <2>1, <2>2, <2>5, <2>8, <3>2, <3>3
    <3>4. CASE ~NewAppend(p)
      <4>1. SameRegion(m)
        BY <1>2, <2>1, <2>8, <3>4 DEF NewAppend, SameRegion, InstInv
      <4>2. Decoded(m) /\ ~m.dangling
        BY <1>1, <2>1 DEF InstInv
      <4> QED
        BY <2>2, <2>8, <3>1, <3>2, <3>4, <4>1, <4>2, SMTT(30) DEF Current
    <3> QED
      BY <3>3, <3>4
  <2> QED
    BY <2>6, <2>7, <2>8
<1> QED
  BY <1>3, <1>4, <1>5 DEF Coherent

LEMMA ClearCacheCoherent ==
    ASSUME Basics, Coherent, NEW p \in Procs, ClearMemoryCache(p)
    PROVE  Coherent'
<1> DEFINE m == inst[p]
<1>1. /\ pc[p] = "idle" /\ UNCHANGED <<data, meta, op, pc, buf>>
      /\ \A q \in Procs \ {p} : inst'[q] = inst[q]
  BY DEF ClearMemoryCache, Basics, TypeOK
<1>2. inst'[p] = [m EXCEPT !.dict = EmptyDict, !.actualSize = 0,
                           !.crcDigest = <<>>, !.needLoad = TRUE]
  BY DEF ClearMemoryCache, Basics, TypeOK
<1>3. m \in Instance /\ InstInv(p)
  BY FieldTypes DEF Basics, Coherent
<1>4. /\ inst'[p].info = m.info /\ inst'[p].size = m.size
      /\ inst'[p].dangling = m.dangling /\ inst'[p].needLoad
      /\ inst'[p].dict = EmptyDict /\ inst'[p].actualSize = 0
      /\ inst'[p].crcDigest = <<>>
  BY <1>2, <1>3 DEF Instance
<1>5. FileInv'
  BY <1>1, FileKeeps DEF Torn
<1>6. ASSUME NEW q \in Procs \ {p} PROVE InstInv(q)'
  BY <1>1, <1>4, OthersKeep
<1>7. InstInv(p)'
  <2>1. Behind(inst[p])'
    BY <1>1, <1>3, <1>4 DEF InstInv, Behind, Unresized, FileSize
  <2>2. Decoded(inst[p])'
    BY <1>4, ParseEmpty DEF Decoded, EmptyDict
  <2> QED
    BY <1>1, <1>3, <1>4, <2>1, <2>2, SMTT(30) DEF InstInv, Torn, Loaded
<1> QED
  BY <1>5, <1>6, <1>7 DEF Coherent

-----------------------------------------------------------------------------
(***************************************************************************)
(* Appends and overrides.                                                  *)
(***************************************************************************)
\* What holds inside the body of a write call.
LEMMA InBody ==
    ASSUME Basics, Coherent, NEW p \in Procs, op[p] \in WriteCalls,
           pc[p] \in {"body", "grow", "region", "shrink"}
    PROVE  /\ Quiet /\ Current(inst[p]) /\ SameRegion(inst[p])
           /\ Decoded(inst[p]) /\ InFile(inst[p].crcDigest)
           /\ inst[p].info.version = meta.version \/ pc[p] = "region"
<1>1. \A q \in Procs \ {p} : pc[q] = "idle"
  BY WriterAlone
<1>2. Quiet
  BY <1>1 DEF Quiet, Torn
<1>3. Current(inst[p]) /\ SameRegion(inst[p]) /\ Decoded(inst[p])
  BY DEF Coherent, InstInv, Loaded
<1>4. InFile(inst[p].crcDigest)
  BY <1>2, <1>3 DEF Coherent, FileInv, Stored, SameRegion, Decoded, InFile
<1>5. inst[p].info.version = meta.version
  BY <1>3 DEF Coherent, InstInv, Behind, Current
<1> QED
  BY <1>2, <1>3, <1>4, <1>5

LEMMA ToCRC ==
    ASSUME Basics, Coherent, NEW p \in Procs, op[p] \in WriteCalls,
           pc[p] = "body", fastOK(inst[p]), UNCHANGED meta,
           Len(data') = Len(data), pc' = [pc EXCEPT ![p] = "crc"],
           \A q \in Procs \ {p} : inst'[q] = inst[q],
           inst'[p].size = inst[p].size, inst'[p].needLoad = inst[p].needLoad,
           inst'[p].dangling = inst[p].dangling,
           inst'[p].info.sequence = inst[p].info.sequence,
           inst'[p].info.version = inst[p].info.version,
           Decoded(inst'[p]), InFile(inst[p].crcDigest)'
    PROVE  Coherent'
<1>1. pc'[p] = "crc" /\ \A q \in Procs \ {p} : pc'[q] = pc[q]
  BY DEF Basics, TypeOK
<1>2. Unresized' => Unresized
  BY <1>1 DEF Unresized
<1>3. FileInv'
  <2>1. ~Quiet'
    BY <1>1 DEF Quiet, Torn
  <2> QED
    BY <2>1 DEF Coherent, FileInv
<1>4. ASSUME NEW q \in Procs \ {p} PROVE InstInv(q)'
  <2>1. Behind(inst[q])'
    BY <1>2 DEF Coherent, InstInv, Behind, FileSize
  <2> QED
    BY <1>1, <2>1, OthersIdle
<1>5. InstInv(p)'
  <2>1. Behind(inst[p])'
    BY <1>2 DEF Coherent, InstInv, Behind, FileSize
  <2>2. Current(inst[p])'
    BY InBody DEF Current, FileSize
  <2>3. meta.version # 0
    BY InBody, FieldTypes DEF fastOK, versionFlag, Basics
  <2>4. ~inst'[p].dangling
    BY DEF Coherent, InstInv
  <2> QED
    BY <1>1, <2>1, <2>2, <2>3, <2>4, SMTT(30) DEF InstInv, Decoded, Loaded, Torn, Current
<1> QED
  BY <1>3, <1>4, <1>5 DEF Coherent

LEMMA AppendedFields ==
    ASSUME NEW m \in Instance, NEW item, NEW d
    PROVE  LET a == appended(m, item, d)
           IN  /\ a.size = m.size /\ a.needLoad = m.needLoad
               /\ a.needFullWriteback = m.needFullWriteback
               /\ a.recover = m.recover
               /\ a.dangling = m.dangling /\ a.actualSize = m.actualSize + 1
               /\ a.info.sequence = m.info.sequence
               /\ a.info.version = m.info.version
               /\ a.crcDigest = Append(m.crcDigest, item) /\ a.dict = d
<1> DEFINE n == m.actualSize + 1
           crc == Append(m.crcDigest, item)
           info == [m.info EXCEPT !.actualSize = n, !.crcDigest = crc]
<1>1. info.sequence = m.info.sequence /\ info.version = m.info.version
  <2>1. m.info \in MetaInfo
    BY DEF Instance
  <2> HIDE DEF n, crc
  <2> QED
    BY <2>1 DEF MetaInfo
<1>2. appended(m, item, d) = [m EXCEPT !.actualSize = n, !.crcDigest = crc,
                                       !.dict = d, !.info = info]
  BY DEF appended
<1> HIDE DEF n, crc, info
<1>3. LET a == appended(m, item, d)
      IN  /\ a.size = m.size /\ a.needLoad = m.needLoad
          /\ a.needFullWriteback = m.needFullWriteback /\ a.recover = m.recover
          /\ a.dangling = m.dangling /\ a.actualSize = n
          /\ a.info = info /\ a.crcDigest = crc /\ a.dict = d
  BY <1>2 DEF Instance
<1> QED
  BY <1>1, <1>3 DEF n, crc

LEMMA AppendItem ==
    ASSUME NEW r \in Seq(Slot), NEW item \in Slot
    PROVE  /\ Append(r, item) \in Seq(Slot)
           /\ Len(r) \in Nat /\ Len(Append(r, item)) = Len(r) + 1
           /\ \A i \in 1..(Len(r) + 1) :
                 Append(r, item)[i] = IF i = Len(r) + 1 THEN item ELSE r[i]
  OBVIOUS

\* What an append through a mapping of the whole file leaves.
LEMMA AppendResult ==
    ASSUME TypeOK, TypeOK', NEW p \in Procs, inst[p].size = FileSize,
           Decoded(inst[p]), InFile(inst[p].crcDigest),
           1 <= spaceLeft(inst[p]), inst[p].actualSize > 0,
           NEW k \in Keys, NEW v \in Vals \cup {NoVal},
           appendRaw(p, Pair(k, v),
                     [inst[p].dict EXCEPT ![k] = IF v = NoVal THEN 0
                                                 ELSE inst[p].actualSize + 1])
    PROVE  /\ inst'[p].size = inst[p].size /\ inst'[p].needLoad = inst[p].needLoad
           /\ inst'[p].needFullWriteback = inst[p].needFullWriteback
           /\ inst'[p].recover = inst[p].recover
           /\ inst'[p].dangling = inst[p].dangling
           /\ inst'[p].info.sequence = inst[p].info.sequence
           /\ inst'[p].info.version = inst[p].info.version
           /\ inst'[p].actualSize = inst[p].actualSize + 1
           /\ inst'[p].crcDigest = Append(inst[p].crcDigest, Pair(k, v))
           /\ inst'[p].crcDigest[1] = inst[p].crcDigest[1]
           /\ Decoded(inst'[p]) /\ InFile(inst[p].crcDigest)'
           /\ data' \in Seq(Slot) /\ Len(data') = Len(data)
           /\ \A i \in 1..inst[p].actualSize : data'[i] = data[i]
<1> DEFINE m == inst[p]
           n == m.actualSize + 1
           item == Pair(k, v)
           crc == Append(m.crcDigest, item)
           d == [m.dict EXCEPT ![k] = IF v = NoVal THEN 0 ELSE n]
<1>1. /\ m \in Instance /\ m.info \in MetaInfo /\ m.crcDigest \in Seq(Slot)
      /\ m.actualSize \in Nat /\ m.size \in Nat /\ HeaderSize \in Nat
      /\ data \in Seq(Slot) /\ Len(data) \in Nat
  BY FieldTypes
<1>2. m.size = FileSize /\ Decoded(m) /\ InFile(m.crcDigest)
  OBVIOUS
<1>3. inst'[p] = appended(m, item, d)
  BY SMTT(30) DEF appendRaw, TypeOK
<1>4. /\ inst'[p].size = m.size /\ inst'[p].needLoad = m.needLoad
      /\ inst'[p].needFullWriteback = m.needFullWriteback
      /\ inst'[p].recover = m.recover
      /\ inst'[p].dangling = m.dangling /\ inst'[p].actualSize = n
      /\ inst'[p].info.sequence = m.info.sequence
      /\ inst'[p].info.version = m.info.version
      /\ inst'[p].crcDigest = crc /\ inst'[p].dict = d
  <2> HIDE DEF item, d
  <2> QED
    BY <1>1, <1>3, AppendedFields, SMTT(60)
<1>5. item \in Slot
  BY SlotTypes, SMTT(30)
<1>6. /\ crc \in Seq(Slot) /\ Len(crc) = n /\ n \in Nat
      /\ \A i \in 1..n : crc[i] = IF i = n THEN item ELSE m.crcDigest[i]
  <2>1. m.actualSize = Len(m.crcDigest)
    BY <1>2, SMTT(30) DEF Decoded
  <2> HIDE DEF item
  <2> QED
    BY <1>1, <1>5, <2>1, AppendItem, SMTT(30)
<1>7. Decoded(inst'[p])
  <2>1. /\ m.actualSize = Len(m.crcDigest) /\ Len(m.crcDigest) > 0
        /\ m.dict = parseDict(m.crcDigest)
    BY <1>2 DEF Decoded
  <2>2. parseDict(crc) = [parseDict(m.crcDigest) EXCEPT ![k] =
                             IF v = NoVal THEN 0 ELSE Len(m.crcDigest) + 1]
    BY <1>1, <2>1, ParseAppend, Zenon
  <2>3. d = parseDict(crc)
    BY <2>1, <2>2, ZenonT(30)
  <2> HIDE DEF n, crc, d
  <2> QED
    BY <1>4, <1>6, <2>3, Zenon DEF Decoded
<1>8. data' = [i \in DOMAIN data |-> IF i = n THEN item ELSE data[i]]
  BY SMTT(30) DEF appendRaw
<1>9. /\ data' \in Seq(Slot) /\ Len(data') = Len(data)
      /\ DOMAIN data' = 1..Len(data) /\ DOMAIN data = 1..Len(data)
  <2>1. data' \in Seq(Slot)
    BY SMTT(30) DEF TypeOK
  <2> QED
    BY <1>1, <1>8, <2>1, SMTT(30)
<1>10. n <= Len(data)
  BY <1>1, <1>2, SMTT(30) DEF spaceLeft, FileSize
<1>11. Region(data', n) = crc /\ n <= Len(data')
  <2>1. \A i \in 1..m.actualSize : m.crcDigest[i] = data[i]
    BY <1>1, <1>2, <1>9, <1>10, SMTT(30) DEF InFile, Region, Decoded
  <2>2. \A i \in 1..n : data'[i] = crc[i]
    BY <1>1, <1>6, <1>8, <1>9, <1>10, <2>1, SMTT(30)
  <2> HIDE DEF crc
  <2> QED
    BY <1>1, <1>6, <1>9, <1>10, <2>2, SMTT(30) DEF Region
<1>12. InFile(inst[p].crcDigest)'
  BY <1>1, <1>4, <1>6, <1>11, SMTT(30) DEF InFile, FileSize
<1>13. /\ crc[1] = m.crcDigest[1]
       /\ \A i \in 1..m.actualSize : data'[i] = data[i]
  <2>1. \A i \in 1..m.actualSize : i \in 1..n /\ i # n /\ i \in DOMAIN data
    BY <1>1, <1>9, <1>10
  <2>2. 1 \in 1..m.actualSize
    BY <1>1
  <2> HIDE DEF crc, item, n
  <2> QED
    BY <1>6, <1>8, <2>1, <2>2, Zenon
<1> HIDE DEF n, item, crc, d
<1> QED
  BY <1>4, <1>7, <1>9, <1>12, <1>13, Zenon DEF n, item, crc

LEMMA AppendCoherent ==
    ASSUME Basics, Basics', Coherent, NEW p \in Procs, op[p] \in WriteCalls,
           pc[p] = "body", fastOK(inst[p]), 1 <= spaceLeft(inst[p]),
           inst[p].actualSize > 0, NEW k \in Keys, NEW v \in Vals \cup {NoVal},
           appendRaw(p, Pair(k, v),
                     [inst[p].dict EXCEPT ![k] = IF v = NoVal THEN 0
                                                 ELSE inst[p].actualSize + 1])
    PROVE  Coherent'
<1>1. TypeOK /\ TypeOK'
  BY DEF Basics
<1>2. inst[p].size = FileSize /\ Decoded(inst[p]) /\ InFile(inst[p].crcDigest)
  BY InBody, SMTT(30) DEF Current
<1>3. /\ inst'[p].size = inst[p].size /\ inst'[p].needLoad = inst[p].needLoad
      /\ inst'[p].dangling = inst[p].dangling
      /\ inst'[p].info.sequence = inst[p].info.sequence
      /\ inst'[p].info.version = inst[p].info.version
      /\ Decoded(inst'[p]) /\ InFile(inst[p].crcDigest)'
      /\ Len(data') = Len(data)
  BY <1>1, <1>2, AppendResult, ZenonT(30)
<1>4. \A q \in Procs \ {p} : inst'[q] = inst[q]
  BY <1>1, SMTT(30) DEF appendRaw, TypeOK
<1>5. UNCHANGED meta /\ pc' = [pc EXCEPT ![p] = "crc"]
  BY DEF appendRaw
<1> QED
  BY <1>3, <1>4, <1>5, ToCRC, ZenonT(30)

LEMMA OverriddenFields ==
    ASSUME NEW m \in Instance, NEW k, NEW region, NEW d,
           d = [m.dict EXCEPT ![k] = 2]
    PROVE  LET a == overridden(m, k, region)
           IN  /\ a.size = m.size /\ a.needLoad = m.needLoad
               /\ a.needFullWriteback = m.needFullWriteback
               /\ a.recover = m.recover
               /\ a.dangling = m.dangling /\ a.actualSize = 2
               /\ a.info.sequence = m.info.sequence
               /\ a.info.version = m.info.version
               /\ a.crcDigest = region /\ a.dict = d
<1> DEFINE info == [m.info EXCEPT !.actualSize = 2, !.crcDigest = region]
<1>1. info.sequence = m.info.sequence /\ info.version = m.info.version
  <2>1. m.info \in MetaInfo
    BY DEF Instance
  <2> QED
    BY <2>1 DEF MetaInfo
<1>2. overridden(m, k, region) = [m EXCEPT !.actualSize = 2,
                !.crcDigest = region, !.dict = d, !.info = info]
  BY DEF overridden
<1> HIDE DEF info
<1>3. LET a == overridden(m, k, region)
      IN  /\ a.size = m.size /\ a.needLoad = m.needLoad
          /\ a.needFullWriteback = m.needFullWriteback /\ a.recover = m.recover
          /\ a.dangling = m.dangling /\ a.actualSize = 2
          /\ a.info = info /\ a.crcDigest = region /\ a.dict = d
  BY <1>2 DEF Instance
<1> QED
  BY <1>1, <1>3

\* What an override of the only key leaves.
LEMMA OverrideResult ==
    ASSUME TypeOK, TypeOK', NEW p \in Procs, inst[p].size = FileSize,
           NEW k \in Keys, NEW v \in Vals,
           CanOverride(inst[p], k), overrideRaw(p, k, v)
    PROVE  /\ inst'[p].size = inst[p].size /\ inst'[p].needLoad = inst[p].needLoad
           /\ inst'[p].needFullWriteback = inst[p].needFullWriteback
           /\ inst'[p].recover = inst[p].recover
           /\ inst'[p].dangling = inst[p].dangling
           /\ inst'[p].info.sequence = inst[p].info.sequence
           /\ inst'[p].info.version = inst[p].info.version
           /\ inst'[p].actualSize = 2
           /\ inst'[p].crcDigest = <<ItemSizeHolder, Pair(k, v)>>
           /\ Decoded(inst'[p]) /\ InFile(inst[p].crcDigest)'
           /\ data' \in Seq(Slot) /\ Len(data') = Len(data) /\ 2 <= Len(data)
           /\ data'[1] = ItemSizeHolder
<1> DEFINE m == inst[p]
           two == <<ItemSizeHolder, Pair(k, v)>>
           d == [m.dict EXCEPT ![k] = 2]
<1>1. /\ m \in Instance /\ m.dict \in [Keys -> Nat]
      /\ m.size \in Nat /\ HeaderSize \in Nat
      /\ data \in Seq(Slot) /\ Len(data) \in Nat
  BY FieldTypes
<1>2. m.size = FileSize /\ HeaderSize + 2 <= m.size
      /\ \A l \in Keys \ {k} : m.dict[l] = 0
  BY DEF CanOverride, DictKeys
<1>3. inst'[p] = overridden(m, k, two)
  BY DEF overrideRaw, TypeOK
<1>4. data' = [i \in DOMAIN data |-> IF i <= 2 THEN two[i] ELSE data[i]]
  BY DEF overrideRaw
<1>5. two \in Seq(Slot) /\ Len(two) = 2 /\ two[1] = ItemSizeHolder
  BY SlotTypes
<1>6. parseDict(two) = [l \in Keys |-> IF l = k THEN 2 ELSE 0]
  BY ParseOverride
<1> HIDE DEF two
<1>7. /\ inst'[p].size = m.size /\ inst'[p].needLoad = m.needLoad
      /\ inst'[p].needFullWriteback = m.needFullWriteback
      /\ inst'[p].recover = m.recover
      /\ inst'[p].dangling = m.dangling /\ inst'[p].actualSize = 2
      /\ inst'[p].info.sequence = m.info.sequence
      /\ inst'[p].info.version = m.info.version
      /\ inst'[p].crcDigest = two /\ inst'[p].dict = d
  <2>1. d = [m.dict EXCEPT ![k] = 2]
    OBVIOUS
  <2> HIDE DEF d
  <2> QED
    BY <1>1, <1>3, <2>1, OverriddenFields, SMTT(30)
<1>8. Decoded(inst'[p])
  <2>1. inst'[p].dict = parseDict(two)
    BY <1>1, <1>2, <1>6, <1>7, ZenonT(30)
  <2> QED
    BY <1>5, <1>7, <2>1 DEF Decoded
<1>9. /\ data' \in Seq(Slot) /\ Len(data') = Len(data)
      /\ DOMAIN data' = 1..Len(data) /\ DOMAIN data = 1..Len(data)
  <2>1. data' \in Seq(Slot)
    BY DEF TypeOK
  <2> QED
    BY <1>1, <1>4, <2>1
<1>10. 2 <= Len(data)
  BY <1>1, <1>2 DEF FileSize
<1>11. Region(data', 2) = two /\ data'[1] = ItemSizeHolder
  <2>1. \A i \in 1..2 : i \in DOMAIN data' /\ data'[i] = two[i]
    BY <1>1, <1>4, <1>9, <1>10
  <2>2. Region(data', 2) = [i \in 1..2 |-> two[i]]
    BY <2>1 DEF Region
  <2>3. data'[1] = ItemSizeHolder
    BY <1>5, <2>1
  <2> QED
    BY <1>5, <2>2, <2>3 DEF two
<1>12. InFile(inst[p].crcDigest)'
  <2>1. inst'[p].crcDigest = two
    BY <1>7
  <2>2. Region(data', Len(two)) = two
    BY <1>5, <1>11
  <2>3. HeaderSize + Len(two) <= HeaderSize + Len(data')
    BY <1>1, <1>5, <1>9, <1>10
  <2> QED
    BY <2>1, <2>2, <2>3 DEF InFile, FileSize
<1> QED
  BY <1>7, <1>8, <1>9, <1>10, <1>11, <1>12, Zenon DEF two

LEMMA OverrideCoherent ==
    ASSUME Basics, Basics', Coherent, NEW p \in Procs, op[p] \in WriteCalls,
           pc[p] = "body", NEW k \in Keys, NEW v \in Vals,
           CanOverride(inst[p], k), overrideRaw(p, k, v)
    PROVE  Coherent'
<1>1. TypeOK /\ TypeOK' /\ inst[p].size = FileSize /\ fastOK(inst[p])
  BY InBody DEF Basics, Current, CanOverride
<1>2. /\ inst'[p].size = inst[p].size /\ inst'[p].needLoad = inst[p].needLoad
      /\ inst'[p].dangling = inst[p].dangling
      /\ inst'[p].info.sequence = inst[p].info.sequence
      /\ inst'[p].info.version = inst[p].info.version
      /\ Decoded(inst'[p]) /\ InFile(inst[p].crcDigest)'
      /\ Len(data') = Len(data)
  BY <1>1, OverrideResult, ZenonT(30)
<1>3. \A q \in Procs \ {p} : inst'[q] = inst[q]
  BY <1>1, SMTT(30) DEF overrideRaw, TypeOK
<1>4. UNCHANGED meta /\ pc' = [pc EXCEPT ![p] = "crc"]
  BY DEF overrideRaw
<1> QED
  BY <1>1, <1>2, <1>3, <1>4, ToCRC, ZenonT(30)

LEMMA StoreCRCCoherent ==
    ASSUME Basics, Coherent, NEW p \in Procs, StoreCRC(p)
    PROVE  Coherent'
<1>1. /\ pc[p] = "crc" /\ pc'[p] = "size" /\ UNCHANGED <<data, inst, op, buf>>
      /\ \A q \in Procs \ {p} : pc'[q] = pc[q]
  BY DEF StoreCRC, Basics, TypeOK
<1>2. /\ meta'.crcDigest = inst[p].crcDigest /\ meta'.sequence = meta.sequence
      /\ meta'.version = meta.version /\ meta'.actualSize = meta.actualSize
  BY DEF StoreCRC, Basics, TypeOK, MetaInfo
<1>3. InstInv(p) /\ op[p] \in WriteCalls
  BY <1>1 DEF Coherent, Basics, InCall, OpenSteps
<1>4. FileInv'
  <2>1. ~Quiet'
    BY <1>1 DEF Quiet, Torn
  <2> QED
    BY <1>2, <2>1 DEF Coherent, FileInv
<1>5. Unresized' => Unresized
  BY <1>1, SMTT(30) DEF Unresized
<1>6. ASSUME NEW q \in Procs PROVE Behind(inst[q])'
  BY <1>1, <1>2, <1>5 DEF Coherent, InstInv, Behind, FileSize
<1>7. ASSUME NEW q \in Procs \ {p} PROVE InstInv(q)'
  BY <1>1, <1>3, <1>6, OthersIdle, SMTT(30)
<1>8. InstInv(p)'
  BY <1>1, <1>2, <1>3, <1>6
     DEF InstInv, Decoded, Loaded, Torn, Current, InFile, FileSize, Region
<1> QED
  BY <1>4, <1>7, <1>8 DEF Coherent

LEMMA StoreActualSizeCoherent ==
    ASSUME Basics, Coherent, NEW p \in Procs, StoreActualSize(p)
    PROVE  Coherent'
<1>1. /\ pc[p] = "size" /\ pc'[p] = "unlock" /\ UNCHANGED <<data, inst, op, buf>>
      /\ \A q \in Procs \ {p} : pc'[q] = pc[q]
  BY DEF StoreActualSize, Basics, TypeOK
<1>2. /\ meta'.crcDigest = meta.crcDigest /\ meta'.sequence = meta.sequence
      /\ meta'.version = meta.version /\ meta'.actualSize = inst[p].actualSize
  BY DEF StoreActualSize, Basics, TypeOK, MetaInfo
<1>3. InstInv(p) /\ op[p] \in WriteCalls
  BY <1>1, SMTT(30) DEF Coherent, Basics, InCall, OpenSteps
<1>4. FileInv'
  BY <1>1, <1>2, <1>3 DEF InstInv, InFile, Decoded, FileInv, Stored, FileSize
<1>5. Unresized' => Unresized
  BY <1>1, SMTT(30) DEF Unresized
<1>6. ASSUME NEW q \in Procs PROVE Behind(inst[q])'
  BY <1>1, <1>2, <1>5 DEF Coherent, InstInv, Behind, FileSize
<1>7. ASSUME NEW q \in Procs \ {p} PROVE InstInv(q)'
  BY <1>1, <1>3, <1>6, OthersIdle, SMTT(30)
<1>8. InstInv(p)'
  BY <1>1, <1>2, <1>3, <1>6, SMTT(30)
     DEF InstInv, Decoded, Loaded, Torn, Current, SameRegion, FileSize
<1> QED
  BY <1>4, <1>7, <1>8 DEF Coherent

-----------------------------------------------------------------------------
(***************************************************************************)
(* Write-backs, clears and resizes.                                        *)
(***************************************************************************)
\* memoryFile.truncate through a mapping of the whole file: file and mapping
\* get the same new size, and what remains of the file keeps its bytes.
LEMMA Truncate ==
    ASSUME TypeOK, NEW m \in Instance, m.size = FileSize, NEW n \in Nat
    PROVE  /\ truncatedFile(m, n) \in Seq(Slot)
           /\ Len(truncatedFile(m, n)) \in Nat
           /\ truncated(m, n).size = HeaderSize + Len(truncatedFile(m, n))
           /\ truncated(m, n).size >= n
           /\ \A i \in 1..Len(truncatedFile(m, n)) :
                 i <= Len(data) => truncatedFile(m, n)[i] = data[i]
           /\ truncated(m, n).info = m.info /\ truncated(m, n).dict = m.dict
           /\ truncated(m, n).actualSize = m.actualSize
           /\ truncated(m, n).crcDigest = m.crcDigest
           /\ truncated(m, n).needLoad = m.needLoad
           /\ truncated(m, n).recover = m.recover
           /\ truncated(m, n).needFullWriteback = m.needFullWriteback
<1> DEFINE r == pageRoundUp(n)
<1>1. /\ r \in Nat /\ r >= n /\ r >= PageSize /\ data \in Seq(Slot)
      /\ Len(data) \in Nat /\ HeaderSize \in Nat /\ PageSize \in Nat
      /\ HeaderSize < PageSize
  BY RoundUp, StoreAssumption, SMTT(30) DEF TypeOK
<1> HIDE DEF r
<1>2. CASE r = m.size
  <2>1. truncatedFile(m, n) = data /\ truncated(m, n) = m
    BY <1>2 DEF truncatedFile, truncated, r
  <2> QED
    BY <1>1, <1>2, <2>1 DEF FileSize
<1>3. CASE r # m.size
  <2>1. /\ truncatedFile(m, n) = Resize(data, r - HeaderSize)
        /\ truncated(m, n) = [m EXCEPT !.size = r, !.dangling = TRUE]
    BY <1>3 DEF truncatedFile, truncated, r
  <2>2. r - HeaderSize \in Nat
    BY <1>1
  <2>3. /\ truncatedFile(m, n) \in Seq(Slot)
        /\ Len(truncatedFile(m, n)) = r - HeaderSize
        /\ \A i \in 1..(r - HeaderSize) :
              i <= Len(data) => truncatedFile(m, n)[i] = data[i]
    <3> DEFINE l == r - HeaderSize
    <3> HIDE DEF l
    <3>1. l \in Nat /\ truncatedFile(m, n) = Resize(data, l)
      BY <2>1, <2>2 DEF l
    <3>2. data \in Seq(Slot)
      BY <1>1
    <3>3. /\ Resize(data, l) \in Seq(Slot) /\ Len(Resize(data, l)) = l
          /\ \A i \in 1..l : i <= Len(data) => Resize(data, l)[i] = data[i]
      BY <3>1, <3>2, ResizeType, Zenon
    <3>4. /\ truncatedFile(m, n) \in Seq(Slot) /\ Len(truncatedFile(m, n)) = l
          /\ \A i \in 1..l : i <= Len(data) => truncatedFile(m, n)[i] = data[i]
      BY <3>1, <3>3, Zenon
    <3> QED
      BY <3>4 DEF l
  <2>4. /\ truncated(m, n).size = r
        /\ truncated(m, n).info = m.info /\ truncated(m, n).dict = m.dict
        /\ truncated(m, n).actualSize = m.actualSize
        /\ truncated(m, n).crcDigest = m.crcDigest
        /\ truncated(m, n).needLoad = m.needLoad
        /\ truncated(m, n).recover = m.recover
        /\ truncated(m, n).needFullWriteback = m.needFullWriteback
    BY <2>1 DEF Instance
  <2> QED
    BY <1>1, <2>2, <2>3, <2>4
<1> QED
  BY <1>2, <1>3

\* Two files that agree on the first n slots have the same region of n slots.
LEMMA SameFront ==
    ASSUME NEW f \in Seq(Slot), NEW g \in Seq(Slot), NEW n \in Nat,
           n <= Len(f), n <= Len(g), \A i \in 1..n : f[i] = g[i]
    PROVE  Region(f, n) = Region(g, n)
  BY DEF Region

\* What growing the file for the region of a write-back leaves.
LEMMA GrowResult ==
    ASSUME TypeOK, NEW p \in Procs, inst[p].size = FileSize,
           Len(buf[p]) > 0, Grow(p)
    PROVE  /\ data' \in Seq(Slot) /\ Len(data') \in Nat
           /\ Len(data') >= Len(data)
           /\ \A i \in 1..Len(data) : data'[i] = data[i]
           /\ inst'[p].size = FileSize'
           /\ HeaderSize + Len(buf[p]) <= FileSize'
           /\ inst'[p].info = inst[p].info /\ inst'[p].dict = inst[p].dict
           /\ inst'[p].actualSize = inst[p].actualSize
           /\ inst'[p].crcDigest = inst[p].crcDigest
           /\ inst'[p].needLoad = inst[p].needLoad
           /\ inst'[p].recover = inst[p].recover
<1> DEFINE m == inst[p]
<1>1. m.size = FileSize
  OBVIOUS
<1>2. PICK n \in DoubledPast(m.size, GrowTarget(Len(buf[p]), Len(buf[p]) - 1,
                                                Incoming(p))) :
          data' = truncatedFile(m, n) /\ inst' = [inst EXCEPT ![p] = truncated(m, n)]
  BY Zenon DEF Grow
<1>3. /\ m \in Instance /\ m.size \in Nat
      /\ data \in Seq(Slot) /\ Len(data) \in Nat /\ HeaderSize \in Nat
      /\ Len(buf[p]) \in Nat
  BY FieldTypes, SMTT(30)
<1>4. Incoming(p) \in Nat
  BY DEF Incoming
<1>5. n \in Nat /\ n > HeaderSize + Len(buf[p]) /\ n >= m.size
  <2>1. Len(buf[p]) - 1 \in Nat
    BY <1>3
  <2>2. n \in Nat /\ n > HeaderSize + Len(buf[p])
    <3> DEFINE items == Len(buf[p]) - 1
    <3> HIDE DEF items
    <3>1. items \in Nat /\ n \in DoubledPast(m.size, GrowTarget(Len(buf[p]), items, Incoming(p)))
      BY <2>1 DEF items
    <3> QED
      BY <1>3, <1>4, <3>1, GrownFits, SMTT(60)
  <2> QED
    BY <1>3, <2>2 DEF DoubledPast
<1> HIDE DEF m
<1>6. inst'[p] = truncated(m, n)
  BY <1>2, <1>3 DEF TypeOK
<1>7. /\ data' \in Seq(Slot) /\ Len(data') \in Nat
      /\ inst'[p].size = HeaderSize + Len(data') /\ inst'[p].size >= n
      /\ \A i \in 1..Len(data') : i <= Len(data) => data'[i] = data[i]
      /\ inst'[p].info = m.info /\ inst'[p].dict = m.dict
      /\ inst'[p].actualSize = m.actualSize
      /\ inst'[p].crcDigest = m.crcDigest /\ inst'[p].needLoad = m.needLoad
      /\ inst'[p].recover = m.recover
  <2>1. /\ truncatedFile(m, n) \in Seq(Slot)
        /\ Len(truncatedFile(m, n)) \in Nat
        /\ truncated(m, n).size = HeaderSize + Len(truncatedFile(m, n))
        /\ truncated(m, n).size >= n
        /\ \A i \in 1..Len(truncatedFile(m, n)) :
              i <= Len(data) => truncatedFile(m, n)[i] = data[i]
        /\ truncated(m, n).info = m.info /\ truncated(m, n).dict = m.dict
        /\ truncated(m, n).actualSize = m.actualSize
        /\ truncated(m, n).crcDigest = m.crcDigest
        /\ truncated(m, n).needLoad = m.needLoad
        /\ truncated(m, n).recover = m.recover
    BY <1>1, <1>3, <1>5, Truncate, Zenon
  <2> QED
    BY <1>2, <1>6, <2>1, SMTT(30)
<1>8. /\ Len(data') >= Len(data) /\ inst'[p].size = FileSize'
      /\ HeaderSize + Len(buf[p]) <= FileSize'
  BY <1>1, <1>3, <1>5, <1>7, SMTT(30) DEF FileSize
<1>9. \A i \in 1..Len(data) : data'[i] = data[i]
  BY <1>3, <1>7, <1>8, SMTT(30)
<1> QED
  BY <1>7, <1>8, <1>9, Zenon DEF m

LEMMA GrowCoherent ==
    ASSUME Basics, Coherent, NEW p \in Procs, Grow(p)
    PROVE  Coherent'
<1> DEFINE m == inst[p]
<1>1. pc[p] = "grow" /\ op[p] \in WriteCalls
  BY DEF Grow, Basics, InCall, OpenSteps
<1>2. /\ m \in Instance /\ m.size \in Nat /\ m.actualSize \in Nat
      /\ m.info.sequence \in Nat /\ meta.actualSize \in Nat
      /\ data \in Seq(Slot) /\ Len(data) \in Nat /\ HeaderSize \in Nat
      /\ Len(buf[p]) \in Nat /\ TypeOK
  BY FieldTypes, SMTT(30) DEF Basics
<1>3. /\ Quiet /\ Current(m) /\ SameRegion(m) /\ Decoded(m)
      /\ m.info.version = meta.version
  BY <1>1, InBody, SMTT(30)
<1>4. Len(buf[p]) > 0 /\ m.size = FileSize
  BY <1>1, <1>3 DEF Coherent, InstInv, Current
<1>5. /\ data' \in Seq(Slot) /\ Len(data') \in Nat /\ Len(data') >= Len(data)
      /\ inst'[p].size = FileSize' /\ HeaderSize + Len(buf[p]) <= FileSize'
      /\ \A i \in 1..Len(data) : data'[i] = data[i]
      /\ inst'[p].info = m.info /\ inst'[p].dict = m.dict
      /\ inst'[p].actualSize = m.actualSize
      /\ inst'[p].crcDigest = m.crcDigest /\ inst'[p].needLoad = m.needLoad
  BY <1>2, <1>4, GrowResult, Zenon
<1> HIDE DEF m
<1>6. /\ UNCHANGED <<meta, op, buf>> /\ pc'[p] = "region"
      /\ \A q \in Procs \ {p} : pc'[q] = pc[q] /\ inst'[q] = inst[q]
  BY DEF Grow, Basics, TypeOK
<1>7. FileInv'
  <2>1. meta.actualSize <= Len(data) /\ meta.crcDigest = Stored
    BY <1>2, <1>3 DEF Coherent, FileInv, FileSize
  <2>2. Region(data, meta.actualSize) = Region(data', meta.actualSize)
    BY <1>2, <1>5, <2>1, SameFront, SMTT(30)
  <2>3. meta.crcDigest = Stored' /\ HeaderSize + meta.actualSize <= FileSize'
    BY <1>2, <1>5, <1>6, <2>1, <2>2, SMTT(30) DEF Stored, FileSize
  <2> QED
    BY <1>6, <2>3 DEF Coherent, FileInv
<1>8. ~Unresized'
  BY <1>6 DEF Unresized
<1>9. ASSUME NEW q \in Procs \ {p} PROVE InstInv(q)'
  <2>1. Behind(inst[q])'
    BY <1>6, <1>8, SMTT(30) DEF Coherent, InstInv, Behind
  <2> QED
    BY <1>1, <1>6, <2>1, OthersIdle, SMTT(30)
<1>10. InstInv(p)'
  <2>1. Behind(inst[p])'
    BY <1>5, <1>6, <1>8, SMTT(30) DEF Coherent, InstInv, Behind, m
  <2>2. Current(inst[p])' /\ SameRegion(inst[p])' /\ Decoded(inst[p])'
    BY <1>3, <1>5, <1>6, Zenon DEF Current, SameRegion, Decoded
  <2>3. HeaderSize + Len(buf'[p]) <= FileSize'
    BY <1>5, <1>6
  <2> QED
    BY <1>6, <2>1, <2>2, <2>3, SMTT(30) DEF InstInv, Loaded, Torn, Current, SameRegion
<1> QED
  BY <1>7, <1>9, <1>10, SMTT(30) DEF Coherent

\* Steps to "meta": the region to confirm lies in the file.
LEMMA ToMeta ==
    ASSUME Basics, Coherent, NEW p \in Procs, op[p] \in WriteCalls,
           pc[p] \in {"body", "region"}, UNCHANGED meta,
           pc' = [pc EXCEPT ![p] = "meta"],
           \A q \in Procs \ {p} : inst'[q] = inst[q],
           inst'[p].info = inst[p].info, inst'[p].needLoad = inst[p].needLoad,
           inst'[p].size = FileSize',
           inst'[p].crcDigest = buf'[p], inst'[p].actualSize = Len(buf'[p]),
           InFile(buf[p])'
    PROVE  Coherent'
<1>1. pc'[p] = "meta" /\ \A q \in Procs \ {p} : pc'[q] = pc[q]
  BY DEF Basics, TypeOK
<1>2. ~Quiet' /\ ~Unresized'
  BY <1>1, SMTT(30) DEF Quiet, Torn, Unresized
<1>3. FileInv'
  BY <1>2, SMTT(30) DEF Coherent, FileInv
<1>4. ASSUME NEW q \in Procs PROVE Behind(inst[q])'
  BY <1>2 DEF Coherent, InstInv, Behind
<1>5. ASSUME NEW q \in Procs \ {p} PROVE InstInv(q)'
  BY <1>1, <1>4, OthersIdle, SMTT(30)
<1>6. InstInv(p)'
  <2>1. Current(inst[p])'
    BY InBody DEF Current
  <2> QED
    BY <1>1, <1>4, <2>1, SMTT(30) DEF InstInv, Loaded, Torn, Current
<1> QED
  BY <1>3, <1>5, <1>6, SMTT(30) DEF Coherent

\* The region of a write-back lies in the file once it is stored.
LEMMA StoreRegionResult ==
    ASSUME TypeOK, TypeOK', NEW p \in Procs, inst[p].size = FileSize,
           HeaderSize + Len(buf[p]) <= FileSize, StoreRegion(p)
    PROVE  /\ inst'[p].info = inst[p].info /\ inst'[p].needLoad = inst[p].needLoad
           /\ inst'[p].recover = inst[p].recover
           /\ inst'[p].size = FileSize' /\ inst'[p].crcDigest = buf'[p]
           /\ inst'[p].actualSize = Len(buf'[p]) /\ InFile(buf[p])'
<1> DEFINE m == inst[p]
           b == buf[p]
<1>1. /\ buf'[p] = b /\ m.size = FileSize /\ HeaderSize + Len(b) <= FileSize
      /\ data' = [i \in DOMAIN data |-> IF i <= Len(b) THEN b[i] ELSE data[i]]
  BY DEF StoreRegion
<1>2. /\ m \in Instance /\ data \in Seq(Slot) /\ Len(data) \in Nat
      /\ HeaderSize \in Nat /\ b \in Seq(Slot) /\ Len(b) \in Nat
  BY FieldTypes, SMTT(30)
<1>3. inst'[p] = [m EXCEPT !.actualSize = Len(b), !.crcDigest = b]
  BY DEF StoreRegion, TypeOK
<1> HIDE DEF m, b
<1>4. /\ inst'[p].info = m.info /\ inst'[p].needLoad = m.needLoad
      /\ inst'[p].recover = m.recover
      /\ inst'[p].size = m.size /\ inst'[p].crcDigest = b
      /\ inst'[p].actualSize = Len(b)
  BY <1>2, <1>3 DEF Instance
<1>5. Len(data') = Len(data) /\ DOMAIN data' = 1..Len(data) /\ DOMAIN data = 1..Len(data)
  <2>1. data' \in Seq(Slot)
    BY DEF TypeOK
  <2> QED
    BY <1>1, <1>2, <2>1
<1>6. Len(b) <= Len(data)
  BY <1>1, <1>2 DEF FileSize
<1>7. Region(data', Len(b)) = b
  <2>1. \A i \in 1..Len(b) : i \in DOMAIN data' /\ data'[i] = b[i]
    BY <1>1, <1>2, <1>5, <1>6
  <2>2. Region(data', Len(b)) = [i \in 1..Len(b) |-> b[i]]
    BY <2>1 DEF Region
  <2> QED
    BY <1>2, <2>2
<1>8. InFile(buf[p])'
  BY <1>1, <1>2, <1>5, <1>6, <1>7 DEF InFile, FileSize
<1>9. inst'[p].size = FileSize'
  BY <1>1, <1>4, <1>5 DEF FileSize
<1> QED
  BY <1>1, <1>4, <1>8, <1>9, Zenon DEF m

LEMMA StoreRegionCoherent ==
    ASSUME Basics, Basics', Coherent, NEW p \in Procs, StoreRegion(p)
    PROVE  Coherent'
<1>1. /\ pc[p] = "region" /\ op[p] \in WriteCalls /\ UNCHANGED meta
      /\ pc' = [pc EXCEPT ![p] = "meta"] /\ TypeOK /\ TypeOK'
      /\ \A q \in Procs \ {p} : inst'[q] = inst[q]
  BY DEF StoreRegion, Basics, InCall, OpenSteps, TypeOK
<1>2. inst[p].size = FileSize /\ HeaderSize + Len(buf[p]) <= FileSize
  BY <1>1, InBody DEF Coherent, InstInv, Current
<1>3. /\ inst'[p].info = inst[p].info /\ inst'[p].needLoad = inst[p].needLoad
      /\ inst'[p].size = FileSize' /\ inst'[p].crcDigest = buf'[p]
      /\ inst'[p].actualSize = Len(buf'[p]) /\ InFile(buf[p])'
  BY <1>1, <1>2, StoreRegionResult, Zenon
<1> QED
  BY <1>1, <1>3, ToMeta, Zenon

LEMMA ClearAllCoherent ==
    ASSUME Basics, Coherent, NEW p \in Procs, op[p] \in WriteCalls, ClearAll(p)
    PROVE  Coherent'
<1> DEFINE m == inst[p]
           t == truncated(m, 0)
<1>1. /\ pc[p] = "body" /\ UNCHANGED meta /\ pc' = [pc EXCEPT ![p] = "meta"]
      /\ data' = truncatedFile(m, 0) /\ buf'[p] = <<>>
  BY DEF ClearAll, In, Basics, TypeOK
<1>2. m \in Instance /\ HeaderSize \in Nat /\ TypeOK
  BY FieldTypes DEF Basics
<1>3. m.size = FileSize
  BY <1>1, InBody, SMTT(30) DEF Current
<1>4. /\ data' \in Seq(Slot) /\ Len(data') \in Nat
      /\ t.size = HeaderSize + Len(truncatedFile(m, 0))
      /\ t.info = m.info /\ t.needLoad = m.needLoad
  BY <1>1, <1>2, <1>3, Truncate, SMTT(30)
<1>5. t \in Instance
  BY <1>2, TruncatedType DEF TypeOK
<1>6. /\ inst'[p] = [t EXCEPT !.dict = EmptyDict, !.actualSize = 0, !.crcDigest = <<>>]
      /\ \A q \in Procs \ {p} : inst'[q] = inst[q]
  BY DEF ClearAll, Basics, TypeOK
<1> HIDE DEF t
<1>7. /\ inst'[p].info = t.info /\ inst'[p].needLoad = t.needLoad
      /\ inst'[p].size = t.size /\ inst'[p].crcDigest = <<>>
      /\ inst'[p].actualSize = 0
  BY <1>5, <1>6 DEF Instance
<1>8. inst'[p].size = FileSize'
  BY <1>1, <1>4, <1>7 DEF FileSize
<1>9. InFile(buf[p])'
  <2>1. Region(data', 0) = <<>>
    BY DEF Region
  <2> QED
    BY <1>1, <1>2, <1>4, <2>1 DEF InFile, FileSize
<1>10. inst'[p].crcDigest = buf'[p] /\ inst'[p].actualSize = Len(buf'[p])
  BY <1>1, <1>7
<1> QED
  BY <1>1, <1>4, <1>6, <1>7, <1>8, <1>9, <1>10, ToMeta, Zenon

LEMMA StoreMetaCoherent ==
    ASSUME Basics, Coherent, NEW p \in Procs, StoreMeta(p)
    PROVE  Coherent'
<1> DEFINE m == inst[p]
           b == buf[p]
           info == NextInfo(m)
<1>1. /\ pc[p] = "meta" /\ op[p] \in WriteCalls /\ UNCHANGED <<data, op, buf>>
      /\ pc'[p] \in {"shrink", "unlock"} /\ meta' = info
      /\ \A q \in Procs \ {p} : pc'[q] = pc[q] /\ inst'[q] = inst[q]
  BY DEF StoreMeta, Basics, InCall, OpenSteps, TypeOK
<1>2. /\ m \in Instance /\ m.info \in MetaInfo /\ m.info.sequence \in Nat
      /\ b \in Seq(Slot) /\ Len(b) \in Nat
  BY FieldTypes, SMTT(30) DEF Basics
<1>3. /\ m.actualSize = Len(b) /\ m.crcDigest = b /\ InFile(b) /\ Current(m)
  BY <1>1 DEF Coherent, InstInv, Torn
<1>4. /\ info.sequence = m.info.sequence + 1 /\ info.version = 4
      /\ info.actualSize = m.actualSize /\ info.crcDigest = m.crcDigest
  BY <1>2 DEF NextInfo, versionFlag, MetaInfo
<1>5. inst'[p] = [m EXCEPT !.info = info, !.dict = parseDict(b),
                           !.needFullWriteback = FALSE, !.dangling = FALSE]
  BY DEF StoreMeta, Basics, TypeOK
<1> HIDE DEF m, b, info
<1>6. /\ inst'[p].info = info /\ inst'[p].dict = parseDict(b)
      /\ inst'[p].actualSize = m.actualSize /\ inst'[p].crcDigest = m.crcDigest
      /\ inst'[p].needLoad = m.needLoad /\ inst'[p].size = m.size
      /\ ~inst'[p].dangling
  BY <1>2, <1>5 DEF Instance
<1>7. m.info.sequence = meta.sequence /\ m.size = FileSize /\ ~m.needLoad
  BY <1>3 DEF Current
<1>8. FileInv'
  BY <1>1, <1>3, <1>4 DEF InFile, FileInv, Stored, FileSize
<1>9. ASSUME NEW q \in Procs \ {p}
      PROVE  InstInv(q)' /\ inst'[q].info.sequence < meta'.sequence
  <2>1. inst[q].info.sequence <= meta.sequence /\ inst[q].info.sequence \in Nat
    BY FieldTypes DEF Coherent, InstInv, Behind, Basics
  <2>2. inst'[q].info.sequence < meta'.sequence
    BY <1>1, <1>2, <1>4, <1>7, <2>1, SMTT(30)
  <2>3. Behind(inst[q])'
    BY <1>1, <1>2, <1>4, <1>7, <2>1, <2>2 DEF Behind
  <2> QED
    BY <1>1, <2>2, <2>3, OthersIdle, SMTT(30)
<1>10. InstInv(p)'
  <2>1. Current(inst[p])' /\ SameRegion(inst[p])' /\ Decoded(inst[p])'
    BY <1>1, <1>3, <1>4, <1>6, <1>7, SMTT(30) DEF Current, SameRegion, Decoded, FileSize
  <2>2. Behind(inst[p])'
    BY <1>1, <1>2, <1>4, <1>6, <2>1, SMTT(30) DEF Behind, Current
  <2> QED
    BY <1>1, <1>6, <1>9, <2>1, <2>2, ZenonT(30)
       DEF InstInv, Loaded, Torn, Others, Current, SameRegion
<1> QED
  BY <1>8, <1>9, <1>10 DEF Coherent

\* Shrinking the file keeps the region of the instance.
LEMMA ShrinkResult ==
    ASSUME TypeOK, NEW p \in Procs, inst[p].size = FileSize,
           Decoded(inst[p]), InFile(inst[p].crcDigest), Shrink(p)
    PROVE  /\ Len(data') \in Nat /\ inst'[p].size = FileSize'
           /\ Region(data', inst[p].actualSize) = inst[p].crcDigest
           /\ HeaderSize + inst[p].actualSize <= FileSize'
           /\ inst'[p].info = inst[p].info /\ inst'[p].dict = inst[p].dict
           /\ inst'[p].actualSize = inst[p].actualSize
           /\ inst'[p].crcDigest = inst[p].crcDigest
           /\ inst'[p].needLoad = inst[p].needLoad
           /\ inst'[p].dangling => inst[p].dangling
           /\ inst'[p].recover = inst[p].recover
           /\ inst'[p].needFullWriteback = inst[p].needFullWriteback
<1> DEFINE m == inst[p]
<1>1. /\ m \in Instance /\ m.size \in Nat /\ m.actualSize \in Nat
      /\ m.crcDigest \in Seq(Slot)
      /\ HeaderSize \in Nat /\ data \in Seq(Slot) /\ Len(data) \in Nat
  BY FieldTypes
<1>2. /\ m.size = FileSize /\ m.actualSize = Len(m.crcDigest)
      /\ Region(data, m.actualSize) = m.crcDigest
      /\ HeaderSize + m.actualSize <= FileSize /\ m.actualSize <= Len(data)
  BY <1>1, SMTT(30) DEF Decoded, InFile, FileSize
<1>3. PICK t \in HalvedTo(m.size, m.actualSize + HeaderSize) :
        LET target == IF t < PageSize THEN PageSize ELSE t
            file == truncatedFile(m, target)
        IN  IF target >= m.size
            THEN UNCHANGED <<data, inst>>
            ELSE /\ data' = file
                 /\ inst' = [inst EXCEPT ![p] =
                      [truncated(m, target) EXCEPT
                          !.dict = parseDict(Region(file, m.actualSize)),
                          !.dangling = FALSE]]
  BY Zenon DEF Shrink
<1> DEFINE target == IF t < PageSize THEN PageSize ELSE t
           file == truncatedFile(m, target)
           tr == truncated(m, target)
<1>4. t \in Nat /\ t >= m.actualSize + HeaderSize
  <2> DEFINE need == m.actualSize + HeaderSize
  <2>1. need \in Nat /\ need <= m.size /\ t \in HalvedTo(m.size, need)
    BY <1>1, <1>2
  <2> HIDE DEF need
  <2>2. t \in Nat /\ t >= need
    BY <1>1, <2>1, HalvedFits, SMTT(30)
  <2> QED
    BY <2>2 DEF need
<1>5. target \in Nat /\ target >= m.actualSize + HeaderSize
  BY <1>1, <1>4, StoreAssumption, SMTT(30)
<1>6. CASE target >= m.size
  <2>1. UNCHANGED <<data, inst>>
    BY <1>3, <1>6, SMTT(30)
  <2> QED
    BY <1>1, <1>2, <2>1 DEF FileSize
<1>7. CASE ~(target >= m.size)
  <2>1. /\ data' = file
        /\ inst' = [inst EXCEPT ![p] =
              [tr EXCEPT !.dict = parseDict(Region(file, m.actualSize)),
                         !.dangling = FALSE]]
    BY <1>3, <1>7
  <2> HIDE DEF target
  <2>2. /\ file \in Seq(Slot) /\ Len(file) \in Nat
        /\ tr.size = HeaderSize + Len(file) /\ tr.size >= target
        /\ \A i \in 1..Len(file) : i <= Len(data) => file[i] = data[i]
        /\ tr.info = m.info /\ tr.actualSize = m.actualSize
        /\ tr.crcDigest = m.crcDigest /\ tr.needLoad = m.needLoad
        /\ tr.recover = m.recover
        /\ tr.needFullWriteback = m.needFullWriteback
    BY <1>1, <1>2, <1>5, Truncate, Zenon
  <2>3. tr \in Instance
    BY <1>1, <1>5, TruncatedType, Zenon
  <2> HIDE DEF file, tr
  <2>4. m.actualSize <= Len(file)
    BY <1>1, <1>5, <2>2, SMTT(30)
  <2>5. Region(data, m.actualSize) = Region(file, m.actualSize)
    <3>1. \A i \in 1..m.actualSize : data[i] = file[i]
      BY <1>1, <2>2, <2>4, <1>2, SMTT(30)
    <3> QED
      BY <1>1, <1>2, <2>2, <2>4, <3>1, SameFront, Zenon
  <2>6. parseDict(Region(file, m.actualSize)) = m.dict
    BY <1>2, <2>5 DEF Decoded
  <2> HIDE DEF m
  <2>7. inst'[p] = [tr EXCEPT !.dict = m.dict, !.dangling = FALSE]
    BY <2>1, <2>6 DEF TypeOK
  <2>8. /\ inst'[p].info = tr.info /\ inst'[p].dict = m.dict
        /\ inst'[p].actualSize = tr.actualSize
        /\ inst'[p].crcDigest = tr.crcDigest /\ inst'[p].size = tr.size
        /\ inst'[p].needLoad = tr.needLoad /\ ~inst'[p].dangling
        /\ inst'[p].recover = tr.recover
        /\ inst'[p].needFullWriteback = tr.needFullWriteback
    BY <2>3, <2>7 DEF Instance
  <2>9. inst'[p].size = FileSize' /\ HeaderSize + m.actualSize <= FileSize'
    BY <1>1, <2>1, <2>2, <2>4, <2>8 DEF FileSize
  <2> QED
    BY <1>2, <2>1, <2>2, <2>5, <2>8, <2>9 DEF m
<1> QED
  BY <1>6, <1>7

LEMMA ShrinkCoherent ==
    ASSUME Basics, Coherent, NEW p \in Procs, Shrink(p)
    PROVE  Coherent'
<1> DEFINE m == inst[p]
<1>1. /\ pc[p] = "shrink" /\ op[p] \in WriteCalls /\ UNCHANGED <<meta, op, buf>>
      /\ pc'[p] = "unlock" /\ \A q \in Procs \ {p} : pc'[q] = pc[q]
  BY SMTT(30) DEF Shrink, Basics, InCall, OpenSteps, TypeOK
<1>2. m.info.sequence \in Nat /\ TypeOK /\ inst \in [Procs -> Instance]
  BY FieldTypes DEF Basics, TypeOK
<1>3. /\ Quiet /\ Current(m) /\ SameRegion(m) /\ Decoded(m) /\ ~m.dangling
      /\ InFile(m.crcDigest) /\ m.info.version = meta.version /\ m.size = FileSize
  BY <1>1, InBody DEF Coherent, InstInv, Current
<1>4. /\ Len(data') \in Nat /\ inst'[p].size = FileSize'
      /\ Region(data', m.actualSize) = m.crcDigest
      /\ HeaderSize + m.actualSize <= FileSize'
      /\ inst'[p].info = m.info /\ inst'[p].dict = m.dict
      /\ inst'[p].actualSize = m.actualSize
      /\ inst'[p].crcDigest = m.crcDigest
      /\ inst'[p].needLoad = m.needLoad /\ ~inst'[p].dangling
  BY <1>2, <1>3, ShrinkResult, Zenon
<1>5. \A q \in Procs \ {p} : inst'[q] = inst[q]
  BY <1>2 DEF Shrink
<1> HIDE DEF m
<1>6. FileInv'
  BY <1>1, <1>3, <1>4, SMTT(30) DEF Coherent, FileInv, Stored, SameRegion
<1>7. ASSUME NEW q \in Procs \ {p} PROVE InstInv(q)'
  <2>1. inst[q].info.sequence < meta.sequence /\ inst[q].info.sequence \in Nat
        /\ meta.sequence \in Nat
    BY <1>1, <1>2, FieldTypes, ZenonT(30) DEF Coherent, InstInv, Others
  <2>2. Behind(inst[q])'
    BY <1>1, <1>5, <2>1, SMTT(30) DEF Behind
  <2> QED
    BY <1>1, <1>5, <2>2, OthersIdle, SMTT(30)
<1>8. Current(inst[p])' /\ SameRegion(inst[p])' /\ Decoded(inst[p])'
  BY <1>1, <1>3, <1>4, SMTT(30) DEF Current, SameRegion, Decoded
<1>9. Behind(inst[p])'
  BY <1>1, <1>2, <1>3, <1>4, <1>8, SMTT(30) DEF Behind, Current
<1>10. InstInv(p)'
  BY <1>1, <1>4, <1>8, <1>9, SMTT(30) DEF InstInv, Loaded, Torn, Current, SameRegion
<1> QED
  BY <1>6, <1>7, <1>10, SMTT(30) DEF Coherent

-----------------------------------------------------------------------------
(***************************************************************************)
(* The invariant is inductive.                                             *)
(***************************************************************************)
LEMMA InitCoherent == Init => Coherent
<1>1. ASSUME NEW version \in {0, 3, 4}, NEW region \in Seq(Slot),
             version = 0 => region = <<>>, InitWith(version, region)
      PROVE  Coherent
  <2>1. /\ Len(region) \in Nat /\ HeaderSize \in Nat /\ PageSize \in Nat
        /\ HeaderSize + Len(region) <= PageSize
    BY <1>1, StoreAssumption DEF InitWith
  <2>2. PageSize - HeaderSize \in Nat /\ Len(region) <= PageSize - HeaderSize
    BY <2>1
  <2>3. /\ data \in Seq(Slot) /\ Len(data) = PageSize - HeaderSize
        /\ \A i \in 1..Len(region) : data[i] = region[i]
    <3> DEFINE n == PageSize - HeaderSize
    <3>1. n \in Nat /\ data = Resize(region, n) /\ Len(region) <= n
      BY <1>1, <2>2 DEF InitWith
    <3> HIDE DEF n
    <3>2. /\ data \in Seq(Slot) /\ Len(data) = n
          /\ \A i \in 1..Len(region) : data[i] = region[i]
      <4>1. /\ data \in Seq(Slot) /\ Len(data) = n
            /\ \A i \in 1..n : i <= Len(region) => data[i] = region[i]
        BY <3>1, ResizeType, Zenon
      <4> QED
        BY <2>1, <3>1, <4>1
    <3> QED
      BY <3>2 DEF n
  <2>4. FileSize = PageSize
    BY <2>1, <2>2, <2>3 DEF FileSize
  <2>5. /\ meta.crcDigest = region /\ meta.actualSize = Len(region)
        /\ meta.version = version /\ meta.sequence \in Nat
    BY <1>1 DEF InitWith, StoredInfo
  <2>6. Region(data, Len(region)) = region
    <3>1. Region(data, Len(region)) = Region(region, Len(region))
      BY <2>1, <2>2, <2>3, SameFront, SMTT(30)
    <3> QED
      BY <3>1 DEF Region
  <2>7. FileInv
    BY <1>1, <2>1, <2>4, <2>5, <2>6, SMTT(30) DEF FileInv, Stored
  <2>8. ASSUME NEW p \in Procs PROVE InstInv(p)
    <3>1. pc[p] = "idle" /\ inst[p] = Opened(meta, region, p \in Recovering)
      BY <1>1 DEF InitWith
    <3>2. /\ inst[p].info = meta /\ inst[p].dict = parseDict(region)
          /\ inst[p].actualSize = Len(region) /\ inst[p].crcDigest = region
          /\ inst[p].size = PageSize /\ ~inst[p].dangling
      BY <3>1 DEF Opened
    <3>3. Behind(inst[p]) /\ Decoded(inst[p]) /\ SameRegion(inst[p])
      BY <2>4, <2>5, <3>2 DEF Behind, Decoded, SameRegion
    <3> QED
      BY <3>1, <3>2, <3>3 DEF InstInv, Loaded, Torn
  <2> QED
    BY <2>7, <2>8 DEF Coherent
<1>2. <<>> \in Seq(Slot)
  OBVIOUS
<1>3. InitWith(0, <<>>) => Coherent
  BY <1>1, <1>2, Zenon
<1>4. ASSUME NEW version \in {3, 4}, NEW map \in InitMaps,
             InitWith(version, encodeRegion(map))
      PROVE  Coherent
  <2>1. encodeRegion(map) \in Seq(Slot)
    BY EncodeType, CoreAssumption
  <2> QED
    BY <1>1, <1>4, <2>1
<1> QED
  BY <1>3, <1>4 DEF Init

\* The start of a write-back moves from the body to the growth of the file.
LEMMA WritebackCoherent ==
    ASSUME Basics, Coherent, NEW p \in Procs, pc[p] = "body",
           NEW map \in Maps, StartWriteback(p, map)
    PROVE  Coherent'
<1>1. /\ UNCHANGED <<data, meta, inst, op>> /\ pc' = [pc EXCEPT ![p] = "grow"]
      /\ buf'[p] = encodeRegion(map) /\ \A q \in Procs \ {p} : buf'[q] = buf[q]
  BY DEF StartWriteback, Basics, TypeOK
<1>2. Len(buf'[p]) > 0
  BY <1>1, EncodeType
<1>3. Loaded(p)
  BY DEF Loaded
<1> QED
  BY <1>1, <1>2, <1>3, Moves, Zenon

LEMMA StepCoherent ==
    ASSUME Basics, Basics', Coherent, NEW p \in Procs, Step(p)
    PROVE  Coherent'
<1> DEFINE m == inst[p]
           c == op[p]
<1>1. /\ Visible(p) \in Maps /\ Len(buf[p]) \in Nat /\ m.size \in Nat
      /\ HeaderSize \in Nat /\ pc \in [Procs -> Steps]
      /\ c \in ReadCalls \cup WriteCalls \cup {RepairCall, NoCall}
  BY VisibleType, FieldTypes, ZenonT(30) DEF Basics, TypeOK
<1>2. /\ \A kind \in {"set", "remove", "removeMany", "clear", "trim"} :
            In(p, kind) => pc[p] = "body" /\ c \in WriteCalls
      /\ In(p, "set") => c.key \in Keys /\ c.val \in Vals
      /\ In(p, "remove") => c.key \in Keys
  BY CallKinds DEF In, Basics, InCall, OpenSteps
<1>3. ASSUME NEW next \in {"idle", "unlock", "region"},
             pc[p] \in {"check", "body", "grow", "unlock"},
             pc' = [pc EXCEPT ![p] = next], UNCHANGED <<data, meta, inst>>,
             \A q \in Procs \ {p} : op'[q] = op[q] /\ buf'[q] = buf[q],
             Loaded(p)' => Loaded(p),
             next = "region" => HeaderSize + Len(buf'[p]) <= FileSize
      PROVE  Coherent'
  BY <1>3, Moves, ZenonT(30)
<1>4. CASE RejectReadOnly(p)
  <2>1. /\ pc[p] = "check" /\ pc' = [pc EXCEPT ![p] = "unlock"]
        /\ pc'[p] = "unlock" /\ p \in ReadOnly /\ op[p] \notin ReadCalls
        /\ UNCHANGED <<data, meta, inst, op, buf>>
    BY <1>1, <1>4 DEF RejectReadOnly
  <2>2. ~Loaded(p)'
    BY <2>1 DEF Loaded
  <2> QED
    BY <1>3, <2>1, <2>2, SMTT(30)
<1>5. CASE checkLoadData(p)
  BY <1>5, CheckLoadCoherent, SMTT(30)
<1>6. CASE Get(p) \/ SkipSet(p) \/ RemoveNothing(p)
  <2>1. /\ pc[p] = "body" /\ pc' = [pc EXCEPT ![p] = "unlock"]
        /\ UNCHANGED <<data, meta, inst, op, buf>>
    BY <1>6 DEF Get, SkipSet, RemoveNothing, In
  <2>2. Loaded(p)
    BY <2>1, SMTT(30) DEF Loaded
  <2> QED
    BY <1>3, <2>1, <2>2, SMTT(30)
<1>7. CASE SetByOverride(p)
  BY <1>2, <1>7, OverrideCoherent, SMTT(30) DEF SetByOverride
<1>8. CASE SetByAppend(p)
  <2>1. /\ pc[p] = "body" /\ c \in WriteCalls /\ c.key \in Keys /\ c.val \in Vals
        /\ fastOK(m) /\ 1 <= spaceLeft(m) /\ DictKeys(m) # {}
        /\ appendRaw(p, Pair(c.key, c.val), [m.dict EXCEPT ![c.key] = m.actualSize + 1])
    BY <1>2, <1>8, ZenonT(30) DEF SetByAppend, CanAppend
  <2>2. m.actualSize > 0
    <3>1. m.dict = parseDict(m.crcDigest) /\ m.actualSize = Len(m.crcDigest)
      BY <2>1, InBody, SMTT(30) DEF Decoded
    <3>2. m.crcDigest \in Seq(Slot) /\ Len(m.crcDigest) \in Nat
      BY FieldTypes DEF Basics
    <3>3. PICK k \in Keys : m.dict[k] # 0
      BY <2>1 DEF DictKeys
    <3>4. parseDict(m.crcDigest)[k] = 0 \/ parseDict(m.crcDigest)[k] \in 2..Len(m.crcDigest)
      BY <3>2, ParseDictRange, SMTT(30)
    <3> QED
      BY <3>1, <3>2, <3>3, <3>4, SMTT(30)
  <2>3. c.val # NoVal
    BY <2>1, StoreAssumption, SMTT(30)
  <2>4. appendRaw(p, Pair(c.key, c.val),
                  [m.dict EXCEPT ![c.key] = IF c.val = NoVal THEN 0
                                            ELSE m.actualSize + 1])
    BY <2>1, <2>3, SMTT(30)
  <2> QED
    BY <2>1, <2>2, <2>4, AppendCoherent, SMTT(30)
<1>9. CASE RemoveByTombstone(p)
  <2>1. /\ pc[p] = "body" /\ c \in WriteCalls /\ c.key \in Keys
        /\ fastOK(m) /\ 1 <= spaceLeft(m) /\ m.actualSize > 0
        /\ appendRaw(p, Pair(c.key, NoVal), [m.dict EXCEPT ![c.key] = 0])
    BY <1>2, <1>9, SMTT(30) DEF RemoveByTombstone, CanBury, Tombstone
  <2>2. appendRaw(p, Pair(c.key, NoVal),
                  [m.dict EXCEPT ![c.key] = IF NoVal = NoVal THEN 0
                                            ELSE m.actualSize + 1])
    BY <2>1, SMTT(30)
  <2> QED
    BY <2>1, <2>2, AppendCoherent, SMTT(30)
<1>10. CASE SetByWriteback(p)
  <2>1. [Visible(p) EXCEPT ![c.key] = c.val] \in Maps
    BY <1>1, <1>2, <1>10, SMTT(30) DEF SetByWriteback, Maps
  <2> QED
    BY <1>2, <1>10, <2>1, WritebackCoherent, SMTT(30) DEF SetByWriteback
<1>11. CASE RemoveByWriteback(p)
  <2>1. [Visible(p) EXCEPT ![c.key] = NoVal] \in Maps
    BY <1>1, <1>2, <1>11, SMTT(30) DEF RemoveByWriteback, Maps
  <2> QED
    BY <1>2, <1>11, <2>1, WritebackCoherent, SMTT(30) DEF RemoveByWriteback
<1>12. CASE RemoveMany(p)
  <2>1. [k \in Keys |-> IF k \in c.keys THEN NoVal ELSE Visible(p)[k]] \in Maps
    BY <1>1 DEF Maps
  <2> QED
    BY <1>2, <1>12, <2>1, WritebackCoherent, SMTT(30) DEF RemoveMany
<1>13. CASE ClearAll(p)
  <2>1. op[p] \in WriteCalls
    BY <1>2, <1>13 DEF ClearAll
  <2> QED
    BY <1>13, <2>1, ClearAllCoherent
<1>14. CASE TrimCompact(p)
  BY <1>1, <1>2, <1>14, WritebackCoherent, SMTT(30) DEF TrimCompact
<1>15. CASE KeepSize(p)
  <2>1. /\ pc[p] = "grow" /\ pc' = [pc EXCEPT ![p] = "region"] /\ ~Growing(p)
        /\ UNCHANGED <<data, meta, inst, op, buf>>
    BY <1>15 DEF KeepSize
  <2>2. Loaded(p)
    BY <2>1, SMTT(30) DEF Loaded
  <2>3. m.size = FileSize
    BY <2>1, InBody DEF Current, Basics, InCall, OpenSteps
  <2>4. HeaderSize + Len(buf[p]) <= FileSize
    <3>1. ~(LenNeeded(Len(buf[p]), Incoming(p)) >= m.size)
      BY <2>1 DEF Growing, MustGrow
    <3>2. Incoming(p) \in Nat
      BY SMTT(30) DEF Incoming
    <3> QED
      BY <1>1, <2>3, <3>1, <3>2, SMTT(30) DEF LenNeeded
  <2> QED
    BY <1>3, <2>1, <2>2, <2>4, SMTT(30)
<1>16. CASE End(p)
  <2>1. /\ pc[p] = "unlock" /\ pc' = [pc EXCEPT ![p] = "idle"] /\ pc'[p] = "idle"
        /\ UNCHANGED <<data, meta, inst>>
        /\ \A q \in Procs \ {p} : op'[q] = op[q] /\ buf'[q] = buf[q]
    BY <1>1, <1>16, ZenonT(30) DEF End, Basics, TypeOK
  <2>2. ~Loaded(p)'
    BY <2>1, Zenon DEF Loaded
  <2> QED
    BY <1>3, <2>1, <2>2, ZenonT(30)
<1>17. CASE StoreCRC(p) \/ StoreActualSize(p) \/ Grow(p) \/ StoreRegion(p)
              \/ StoreMeta(p) \/ Shrink(p)
  BY <1>17, StoreCRCCoherent, StoreActualSizeCoherent, GrowCoherent,
     StoreRegionCoherent, StoreMetaCoherent, ShrinkCoherent
<1> QED
  BY <1>4, <1>5, <1>6, <1>7, <1>8, <1>9, <1>10, <1>11, <1>12, <1>13, <1>14, SMTT(30),
     <1>15, <1>16, <1>17 DEF Step

LEMMA NextCoherent == Basics /\ Basics' /\ Coherent /\ [Next]_vars => Coherent'
<1> SUFFICES ASSUME Basics, Basics', Coherent, [Next]_vars PROVE Coherent'
  OBVIOUS
<1>1. CASE UNCHANGED vars
  <2>1. FileInv'
    BY <1>1, SMTT(30) DEF vars, Coherent, FileInv, Quiet, Torn, Stored, Region, FileSize
  <2>2. ASSUME NEW q \in Procs PROVE InstInv(q)'
    <3>1. InstInv(q)
      BY SMTT(30) DEF Coherent
    <3>2. Behind(inst[q])'
      BY <1>1, <3>1, ZenonT(30) DEF vars, InstInv, Behind, Unresized, FileSize
    <3> QED
      BY <1>1, <3>1, <3>2, Zenon DEF vars, InstInv, Decoded, Loaded, Torn, Current,
                              SameRegion, InFile, FileSize, Region, Others
  <2> QED
    BY <2>1, <2>2, SMTT(30) DEF Coherent
<1>2. ASSUME NEW p \in Procs, Lock(p) \/ Unlock(p) PROVE Coherent'
  <2>1. pc[p] = "idle" /\ UNCHANGED <<data, meta, inst, pc, op, buf>>
    BY <1>2, SMTT(30) DEF Lock, Unlock
  <2>2. pc' = [pc EXCEPT ![p] = "idle"]
    BY <2>1 DEF Basics, TypeOK
  <2>3. ~Loaded(p)'
    BY <2>1 DEF Loaded
  <2> QED
    BY <2>1, <2>2, <2>3, Moves, ZenonT(30)
<1>3. ASSUME NEW p \in Procs, NEW c \in Calls, BeginRead(p, c) \/ BeginWrite(p, c)
      PROVE  Coherent'
  <2>1. /\ pc[p] = "idle" /\ UNCHANGED <<data, meta, inst, buf>>
        /\ pc' = [pc EXCEPT ![p] = "check"] /\ pc'[p] = "check"
        /\ \A q \in Procs \ {p} : op'[q] = op[q]
    BY <1>3 DEF BeginRead, BeginWrite, Basics, TypeOK
  <2>2. ~Loaded(p)'
    BY <2>1 DEF Loaded
  <2> QED
    BY <2>1, <2>2, Moves, ZenonT(30)
<1> QED
  BY <1>1, <1>2, <1>3, ClearCacheCoherent, StepCoherent DEF Next

\* The process that is writing is the only one.
LEMMA OneWriter ==
    ASSUME Basics, NEW p \in Procs, Writing(p), NEW q \in Procs, Writing(q)
    PROVE  p = q
<1>1. op[p] \in WriteCalls
  BY DEF Basics, InCall, Writing
<1> QED
  BY <1>1, WriterAlone DEF Writing

LEMMA MapWhileWriting ==
    ASSUME NEW p \in Procs, Writing(p), \A q \in Procs : Writing(q) => q = p
    PROVE  kv = Contents(Pending(p))
<1>1. (CHOOSE q \in Procs : Writing(q)) = p
  OBVIOUS
<1> QED
  BY <1>1 DEF kv

LEMMA CoherentHolds == Spec => [](Basics /\ Coherent)
<1>1. Init => Basics /\ Coherent
  BY InitBasics, InitCoherent
<1>2. Basics /\ Coherent /\ [Next]_vars => (Basics /\ Coherent)'
  BY NextBasics, NextCoherent
<1> QED
  BY <1>1, <1>2, PTL DEF Spec

-----------------------------------------------------------------------------
(***************************************************************************)
(* What follows.                                                           *)
(***************************************************************************)
\* In every state of any number of processes the meta describes the stored
\* region unless a store is under way, and every instance agrees with the files
\* as far as its place in its call demands (the inductive invariant, which run
\* shared checks too).
THEOREM StaysCoherent == Spec => []Coherent
  BY CoherentHolds, PTL

\* The digest in the meta file is that of the stored region whenever no store
\* is under way, however many processes appended to it (appendRaw).
THEOREM DigestIsRight == Spec => []DigestMatchesRegion
<1>1. Basics /\ Coherent => DigestMatchesRegion
  BY SMTT(30) DEF Coherent, FileInv, DigestMatchesRegion
<1> QED
  BY <1>1, CoherentHolds, PTL

\* Past checkLoadData an instance shows exactly the stored map: its probe of
\* sequence, digest and size misses no write of any other process.
THEOREM Freshness == Spec => []ViewsAreFresh
<1>1. ASSUME Basics, Coherent, NEW p \in Procs, pc[p] = "body"
      PROVE  /\ Visible(p) = Contents(Stored)
             /\ inst[p].actualSize = meta.actualSize
             /\ inst[p].crcDigest = meta.crcDigest
  <2>1. Quiet
    BY <1>1, NobodyElseWrites, SMTT(30) DEF Quiet, Torn
  <2>2. SameRegion(inst[p]) /\ Decoded(inst[p])
    BY <1>1, Zenon DEF Coherent, InstInv, Loaded
  <2>3. meta.crcDigest = Stored /\ HeaderSize + meta.actualSize <= FileSize
    BY <1>1, <2>1, SMTT(30) DEF Coherent, FileInv
  <2>4. /\ data \in Seq(Slot) /\ meta.actualSize \in Nat /\ Len(data) \in Nat
        /\ HeaderSize \in Nat
    BY <1>1, FieldTypes DEF Basics
  <2>5. Deref(data, parseDict(Stored)) = Contents(Stored)
    BY <2>3, <2>4, DerefRegion, SMTT(30) DEF FileSize, Stored
  <2> QED
    BY <2>2, <2>3, <2>5 DEF SameRegion, Decoded, Visible
<1>2. Basics /\ Coherent => ViewsAreFresh
  BY <1>1, SMTT(30) DEF ViewsAreFresh
<1> QED
  BY <1>2, CoherentHolds, PTL

\* Inside a call the mapping has the size of the file, although any process
\* may have grown or shrunk it since the last call (remap, truncate).
THEOREM MappingsAreRight == Spec => []MappingIsFile
<1>1. ASSUME Basics, Coherent, NEW p \in Procs, pc[p] \notin {"idle", "check", "unlock"}
      PROVE  inst[p].size = FileSize
  <2>1. Loaded(p) \/ Torn(p)
    BY <1>1 DEF Basics, InCall, OpenSteps, TypeOK, Steps, Loaded, Torn
  <2> QED
    BY <1>1, <2>1 DEF Coherent, InstInv, Current
<1>2. Basics /\ Coherent => MappingIsFile
  BY <1>1, SMTT(30) DEF MappingIsFile
<1> QED
  BY <1>2, CoherentHolds, PTL

\* No call reads a view into a mapping that truncate or remap replaced.
THEOREM ViewsAreMapped == Spec => []NoDanglingViews
<1>1. Basics /\ Coherent => NoDanglingViews
  BY DEF Coherent, InstInv, NoDanglingViews
<1> QED
  BY <1>1, CoherentHolds, PTL

\* As long as no process dies, loadData accepts the current region, and no
\* process rolls back, salvages or discards the writes of another.
THEOREM NeverRecovers == Spec => []NoSpuriousRecovery
<1>1. ASSUME Basics, Coherent, NEW p \in Procs, pc[p] = "check"
      PROVE  /\ CurrentOK([remap(inst[p]) EXCEPT !.info = meta])
             /\ NewAppend(p) /\ ~NewSequence(p) =>
                    CurrentOK([inst[p] EXCEPT !.info = meta])
  <2>1. Quiet /\ Unresized
    BY <1>1, NobodyElseWrites DEF Quiet, Unresized, Torn
  <2>2. inst[p] \in Instance /\ meta \in MetaInfo /\ TypeOK /\ FileInv
    BY <1>1 DEF Basics, TypeOK, Coherent
  <2>3. ASSUME NEW m \in Instance, m.size = FileSize
        PROVE  CurrentOK([m EXCEPT !.info = meta])
    <3> DEFINE l == [m EXCEPT !.info = meta]
    <3>1. l \in Instance /\ l.size = FileSize /\ l.info = meta
      BY <2>2, <2>3, Zenon DEF Instance
    <3> HIDE DEF l
    <3>2. CurrentOK(l)
      BY <2>1, <2>2, <3>1, Accepted
    <3> QED
      BY <3>2 DEF l
  <2>4. remap(inst[p]) \in Instance /\ remap(inst[p]).size = FileSize
    BY <2>2, RemapResult, SMTT(30)
  <2>5. NewAppend(p) /\ ~NewSequence(p) => inst[p].size = FileSize
    BY <1>1, <2>1 DEF NewAppend, NewSequence, Coherent, InstInv, Behind
  <2> QED
    BY <2>2, <2>3, <2>4, <2>5, SMTT(30)
<1>2. Basics /\ Coherent => NoSpuriousRecovery
  BY <1>1, SMTT(30) DEF NoSpuriousRecovery
<1> QED
  BY <1>2, CoherentHolds, PTL

\* A write-back or an append never stores behind the end of the mapping: the
\* growth computed from estimates leaves room for the region it precedes.
THEOREM WritesFit == Spec => []RegionFits
<1>1. ASSUME Basics, Coherent, NEW p \in Procs
      PROVE  /\ pc[p] = "region" => HeaderSize + Len(buf[p]) <= inst[p].size
             /\ pc[p] \in {"crc", "size", "unlock"} /\ op[p] \in WriteCalls
                   /\ p \notin ReadOnly
                   => HeaderSize + inst[p].actualSize <= inst[p].size
  <2>1. InstInv(p) /\ FileInv
    BY <1>1, Zenon DEF Coherent
  <2>2. /\ Loaded(p) \/ Torn(p) => Current(inst[p])
        /\ Loaded(p) => SameRegion(inst[p])
        /\ pc[p] # "meta" => Decoded(inst[p])
        /\ pc[p] \in {"crc", "size"} => InFile(inst[p].crcDigest)
        /\ pc[p] = "region" => HeaderSize + Len(buf[p]) <= FileSize
    BY <2>1, Zenon DEF InstInv
  <2>3. CASE pc[p] = "region"
    <3>1. inst[p].size = FileSize
      BY <2>3, <2>2 DEF Loaded, Current
    <3> QED
      BY <2>3, <2>2, <3>1
  <2>4. CASE pc[p] \in {"crc", "size"}
    <3>1. inst[p].size = FileSize
      BY <2>4, <2>2 DEF Torn, Current
    <3>2. HeaderSize + inst[p].actualSize <= FileSize
      BY <2>4, <2>2 DEF InFile, Decoded
    <3> QED
      BY <2>4, <3>1, <3>2
  <2>5. CASE pc[p] = "unlock" /\ op[p] \in WriteCalls /\ p \notin ReadOnly
    <3>1. Quiet
      BY <1>1, <2>5, WriterAlone, SMTT(30) DEF Quiet, Torn
    <3>2. HeaderSize + meta.actualSize <= FileSize
      BY <2>1, <3>1 DEF FileInv
    <3>3. inst[p].size = FileSize /\ inst[p].actualSize = meta.actualSize
      BY <2>5, <2>2 DEF Loaded, Current, SameRegion
    <3> QED
      BY <2>5, <3>2, <3>3
  <2> QED
    BY <2>3, <2>4, <2>5
<1>2. Basics /\ Coherent => RegionFits
  BY <1>1 DEF RegionFits
<1> QED
  BY <1>2, CoherentHolds, PTL
=============================================================================
