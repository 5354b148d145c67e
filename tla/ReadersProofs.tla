---------------------------- MODULE ReadersProofs ----------------------------
(***************************************************************************)
(* Proofs about Readers, for any writers, goroutines, keys and values.     *)
(*                                                                         *)
(* Sound holds whoever has died: the flock of the Reader and of the backup *)
(* freezes the two files, and what is published or copied under it is what *)
(* they hold.  Timely adds, while nobody has died, that the loads of a     *)
(* lockless probe are contents the store has had since the read began.     *)
(***************************************************************************)
EXTENDS Readers, MMKVCoherence

Reading == {"probe", "compare", "mutex", "load"}
Canaried == {"actualSize", "sequence", "unlock"}
Published == {"crcDigest"} \cup Canaried
Built == {"snap"} \cup Published
Flocked == {"meta", "data"} \cup Built
Reloading == {"flock"} \cup Flocked

Loads == Seq(Slot) \cup Nat

ReaderTypes ==
    /\ state \in {"closed", "opening", "open"}
    /\ step \in [Goroutines -> {"idle"} \cup Reading \cup Reloading \cup Backing]
    /\ seen \in [Goroutines -> Seq(Loads)]
    /\ since = [g \in Goroutines |-> since[g]]
    /\ loaded \in [crcDigest : Seq(Slot), actualSize : Nat, sequence : Nat]
    /\ build = [info |-> build.info, map |-> build.map]
    /\ copy = [data |-> copy.data, info |-> copy.info]

\* How many loads a probe has made and not compared.
Counted ==
    \A g \in Goroutines :
        /\ step[g] = "probe" => Len(seen[g]) <= 2
        /\ step[g] = "compare" => Len(seen[g]) \in 1..3
        /\ step[g] \notin {"probe", "compare"} => seen[g] = <<>>

\* Neither file is ever used for a call.
NoCalls == \A f \in {Reader, Backup} : pc[f] = "idle" /\ ex[f] = 0

Mutex ==
    \A g \in Goroutines :
        /\ step[g] \in Reloading => reloadMu = g /\ state # "closed"
        /\ step[g] \in Reading => state = "open"
        /\ step[g] \in Flocked => sh[Reader] > 0
        /\ step[g] \in Backing =>
              sh[Backup] > 0 /\ \A h \in Goroutines : step[h] \in Backing => h = g

\* What a goroutine has read under the flock is still what the files hold.
Frozen ==
    \A g \in Goroutines :
        /\ step[g] \in Flocked \ {"meta"} => build.info = meta
        /\ step[g] \in Built => build.map = <<Contents(meta.crcDigest)>>
        /\ step[g] \in Published => snap = <<Contents(meta.crcDigest)>>
        /\ step[g] \in Canaried => loaded.crcDigest = meta.crcDigest
        /\ step[g] \in {"copyMeta", "copied"} => copy.data = data
        /\ step[g] = "copied" => copy.info = meta

Stable == \A g \in Goroutines : step[g] # "crcDigest"
Publication ==
    state = "open" => snap # <<>> /\ (Stable => snap = <<Contents(loaded.crcDigest)>>)

NoneSizing == \A p \in Writers : pc[p] # "size"

\* The digest in the meta file is that of a completed write, but for a write
\* between its last two stores.
Commits ==
    /\ \A p \in Writers : pc[p] = "size" => meta.crcDigest = inst[p].crcDigest
    /\ \A p \in Writers : pc[p] = "meta" => inst[p].crcDigest = buf[p]
    /\ NoneSizing => Contents(meta.crcDigest) \in ever
    /\ snap # <<>> => snap[1] \in ever

Sound == /\ Locked /\ NoCalls /\ ReaderTypes /\ Counted /\ Mutex /\ Frozen
         /\ Publication /\ Commits

\* The history knows what the store holds.
Known == NoneSizing => now = Contents(meta.crcDigest)

Since(g) ==
    /\ since[g] # {} => {now, kv} \subseteq since[g]
    /\ step[g] \in Reading \cup Backing => since[g] # {}
    /\ step[g] \in Reloading /\ state = "open" => since[g] # {}

Probed(g) ==
    /\ step[g] = "probe" /\ seen[g] # <<>> => Contents(seen[g][1]) \in since[g]
    /\ step[g] = "compare" =>
          /\ Len(seen[g]) = 3 => Contents(seen[g][1]) \in since[g]
          /\ Len(seen[g]) < 3 => snap[1] \in since[g]
    /\ step[g] = "load" => snap[1] \in since[g]

Timely == ~died => /\ Basics /\ Coherent /\ Known
                   /\ \A g \in Goroutines : Since(g) /\ Probed(g)

-----------------------------------------------------------------------------
(***************************************************************************)
(* What a step of a writer changes.                                        *)
(***************************************************************************)
CallStep(p) == Step(p) \/ \E c \in Calls : BeginRead(p, c) \/ BeginWrite(p, c)

LEMMA OnePositive == 1 > 0
  OBVIOUS

LEMMA Touches ==
    ASSUME NEW p \in Procs, CallStep(p)
    PROVE  /\ \E next \in {"idle", "check", "body", "unlock", "crc", "size", "grow",
                           "region", "meta", "shrink"} : pc' = [pc EXCEPT ![p] = next]
           /\ inst' = inst \/ \E m : inst' = [inst EXCEPT ![p] = m]
           /\ buf' = buf \/ \E b : buf' = [buf EXCEPT ![p] = b]
  BY Zenon DEF CallStep, BeginRead, BeginWrite, Step, RejectReadOnly, checkLoadData,
     Get, SkipSet, SetByOverride, SetByAppend, SetByWriteback, RemoveByTombstone,
     RemoveByWriteback, RemoveMany, RemoveNothing, ClearAll, TrimCompact, Shrink,
     StoreCRC, StoreActualSize, Grow, KeepSize, StoreRegion, StoreMeta, overrideRaw,
     appendRaw, StartWriteback, End

LEMMA TouchesLocks ==
    ASSUME NEW p \in Procs, CallStep(p)
    PROVE  /\ ex' = ex \/ \E n : ex' = [ex EXCEPT ![p] = n]
           /\ sh' = sh \/ \E n : sh' = [sh EXCEPT ![p] = n]
<1>1. CASE End(p)
  BY <1>1, Zenon DEF End
<1>2. CASE \E c \in Calls : BeginRead(p, c) \/ BeginWrite(p, c)
  BY <1>2, Zenon DEF BeginRead, BeginWrite
<1>3. CASE Step(p) /\ ~End(p)
  BY <1>3, Zenon DEF Step, RejectReadOnly, checkLoadData,
     Get, SkipSet, SetByOverride, SetByAppend, SetByWriteback, RemoveByTombstone,
     RemoveByWriteback, RemoveMany, RemoveNothing, ClearAll, TrimCompact, Shrink,
     StoreCRC, StoreActualSize, Grow, KeepSize, StoreRegion, StoreMeta, overrideRaw,
     appendRaw, StartWriteback
<1> QED
  BY <1>1, <1>2, <1>3 DEF CallStep

LEMMA OthersStay ==
    ASSUME TypeOK, NEW p \in Procs, CallStep(p), NEW q \in Procs \ {p}
    PROVE  /\ pc'[q] = pc[q] /\ inst'[q] = inst[q] /\ buf'[q] = buf[q]
           /\ ex'[q] = ex[q] /\ sh'[q] = sh[q]
<1>1. /\ pc \in [Procs -> Steps] /\ inst \in [Procs -> Instance]
      /\ buf \in [Procs -> Seq(Slot)] /\ ex \in [Procs -> Nat] /\ sh \in [Procs -> Nat]
  BY DEF TypeOK
<1>2. pc'[q] = pc[q] /\ inst'[q] = inst[q] /\ buf'[q] = buf[q]
  BY <1>1, Touches, ZenonT(30)
<1>3. ex'[q] = ex[q] /\ sh'[q] = sh[q]
  BY <1>1, TouchesLocks, Zenon
<1> QED
  BY <1>2, <1>3

\* Which steps change the meta file.
LEMMA MetaStores ==
    ASSUME TypeOK, NEW p \in Procs, CallStep(p)
    PROVE  \/ meta' = meta /\ pc[p] # "size" /\ pc'[p] # "size"
           \/ /\ pc[p] = "crc" /\ pc'[p] = "size" /\ inst' = inst
              /\ meta' = [meta EXCEPT !.crcDigest = inst[p].crcDigest]
           \/ /\ pc[p] = "size" /\ pc'[p] = "unlock"
              /\ meta' = [meta EXCEPT !.actualSize = inst[p].actualSize]
           \/ /\ pc[p] = "meta" /\ pc'[p] \in {"shrink", "unlock"}
              /\ meta' = NextInfo(inst[p])
<1>1. \A next : pc' = [pc EXCEPT ![p] = next] => pc'[p] = next
  BY DEF TypeOK
<1>2. CASE StoreCRC(p)
  BY <1>1, <1>2, Zenon DEF StoreCRC
<1>3. CASE StoreActualSize(p)
  BY <1>1, <1>3, Zenon DEF StoreActualSize
<1>4. CASE StoreMeta(p)
  <2>1. /\ pc[p] = "meta" /\ meta' = NextInfo(inst[p])
        /\ \E next \in {"shrink", "unlock"} : pc' = [pc EXCEPT ![p] = next]
    BY <1>4, Zenon DEF StoreMeta
  <2> QED
    BY <1>1, <2>1, Zenon
<1>5. CASE ~StoreCRC(p) /\ ~StoreActualSize(p) /\ ~StoreMeta(p)
  <2>1. /\ meta' = meta /\ pc[p] # "size"
        /\ \E next \in {"idle", "check", "body", "unlock", "crc", "grow", "region",
                        "meta", "shrink"} : pc' = [pc EXCEPT ![p] = next]
    BY <1>5, Zenon DEF CallStep, BeginRead, BeginWrite, Step, RejectReadOnly,
       checkLoadData, In, Get, SkipSet, SetByOverride, SetByAppend, SetByWriteback,
       RemoveByTombstone, RemoveByWriteback, RemoveMany, RemoveNothing, ClearAll,
       TrimCompact, Shrink, Grow, KeepSize, StoreRegion, overrideRaw, appendRaw,
       StartWriteback, End
  <2> QED
    BY <1>1, <2>1
<1> QED
  BY <1>2, <1>3, <1>4, <1>5

\* A rewrite is stored with the digest of what it has encoded.
LEMMA ToMetaStore ==
    ASSUME TypeOK, NEW p \in Procs, CallStep(p), pc'[p] = "meta"
    PROVE  inst'[p].crcDigest = buf'[p]
<1>1. \A next : pc' = [pc EXCEPT ![p] = next] => pc'[p] = next
  BY DEF TypeOK
<1>2. CASE ClearAll(p)
  <2>1. inst'[p] = [truncated(inst[p], 0) EXCEPT
                       !.dict = EmptyDict, !.actualSize = 0, !.crcDigest = <<>>]
    BY <1>2 DEF ClearAll, TypeOK
  <2>2. truncated(inst[p], 0) \in Instance
    BY TruncatedType DEF TypeOK
  <2>3. buf'[p] = <<>>
    BY <1>2 DEF ClearAll, TypeOK
  <2> QED
    BY <2>1, <2>2, <2>3 DEF Instance
<1>3. CASE StoreRegion(p)
  <2>1. inst[p] \in Instance /\ buf'[p] = buf[p]
        /\ inst'[p] = [inst[p] EXCEPT !.actualSize = Len(buf[p]), !.crcDigest = buf[p]]
    BY <1>3 DEF StoreRegion, TypeOK
  <2> QED
    BY <2>1 DEF Instance
<1>4. CASE ~ClearAll(p) /\ ~StoreRegion(p)
  <2>1. \E next \in {"idle", "check", "body", "unlock", "crc", "size", "grow",
                     "region", "shrink"} : pc' = [pc EXCEPT ![p] = next]
    BY <1>4, Zenon DEF CallStep, BeginRead, BeginWrite, Step, RejectReadOnly,
       checkLoadData, Get, SkipSet, SetByOverride, SetByAppend, SetByWriteback,
       RemoveByTombstone, RemoveByWriteback, RemoveMany, RemoveNothing,
       TrimCompact, Shrink, StoreCRC, StoreActualSize, Grow, KeepSize, StoreMeta,
       overrideRaw, appendRaw, StartWriteback, End
  <2> QED
    BY <1>1, <2>1, Zenon
<1> QED
  BY <1>2, <1>3, <1>4

-----------------------------------------------------------------------------
(***************************************************************************)
(* What the flock gives.                                                   *)
(***************************************************************************)
Storing == {"crc", "size", "grow", "region", "meta", "shrink"}

LEMMA StoresLocked ==
    ASSUME Locked, NEW p \in Procs, pc[p] \in Storing
    PROVE  ex[p] > 0 /\ op[p] \in WriteCalls \cup {RepairCall}
<1>1. Held(p)
  BY DEF Locked
<1> QED
  BY <1>1, ReadersAssumption DEF Held, Storing, OpenSteps

LEMMA OneStores ==
    ASSUME Locked, NEW p \in Procs, pc[p] \in Storing, NEW q \in Procs \ {p}
    PROVE  pc[q] \notin Storing
<1>1. ex[p] > 0
  BY StoresLocked
<1>2. ex[q] = 0
  BY <1>1 DEF Locked, Exclusive
<1> QED
  BY <1>2, StoresLocked

\* While a file holds its shared flock, no writer stores anything.
LEMMA FlockFreezes ==
    ASSUME Locked, NEW f \in {Reader, Backup}, sh[f] > 0, NEW p \in Writers
    PROVE  pc[p] \notin Storing /\ (CallStep(p) => UNCHANGED <<data, meta>>)
<1>1. f \in Procs /\ p \in Procs /\ p # f /\ MultiProcess
  BY ReadersAssumption DEF Writers
<1>2. ~(ex[p] > 0)
  BY <1>1, StoreAssumption DEF Locked, Exclusive
<1>3. pc[p] \notin Storing
  BY <1>1, <1>2, StoresLocked
<1>4. op[p] \in ReadCalls \cup {NoCall}
  BY <1>1, <1>2 DEF Locked, Held
<1>5. op[p].kind \notin {"set", "remove", "removeMany", "clear", "trim"}
  BY <1>4, CallKinds DEF NoCall
<1>6. ASSUME CallStep(p) PROVE UNCHANGED <<data, meta>>
  <2>1. pc[p] \notin {"crc", "size", "grow", "region", "meta", "shrink"}
    BY <1>3 DEF Storing
  <2> QED
    BY <1>5, <1>6, <2>1, ZenonT(30) DEF CallStep, BeginRead, BeginWrite, Step, RejectReadOnly,
       checkLoadData, In, Get, SkipSet, SetByOverride, SetByAppend, SetByWriteback,
       RemoveByTombstone, RemoveByWriteback, RemoveMany, RemoveNothing, ClearAll,
       TrimCompact, Shrink, StoreCRC, StoreActualSize, Grow, KeepSize, StoreRegion,
       StoreMeta, End
<1> QED
  BY <1>3, <1>6

-----------------------------------------------------------------------------
(***************************************************************************)
(* The steps of the writers.                                               *)
(***************************************************************************)
\* The readers do not see a writer that keeps off the files they have locked.
LEMMA ReadersUnmoved ==
    ASSUME Sound, UNCHANGED <<readerVars, copy>>, since' = [g \in Goroutines |-> since'[g]],
           NoCalls', \A f \in {Reader, Backup} : sh'[f] = sh[f],
           (\E f \in {Reader, Backup} : sh[f] > 0) => UNCHANGED <<data, meta>>
    PROVE  ReaderTypes' /\ Counted' /\ Mutex' /\ Frozen' /\ Publication'
<1>1. UNCHANGED <<state, snap, loaded, reloadMu, build, step, seen, copy>>
  BY DEF readerVars
<1>2. ReaderTypes' /\ Counted'
  BY <1>1, Zenon DEF Sound, ReaderTypes, Counted
<1>3. Mutex'
  BY <1>1 DEF Sound, Mutex
<1>4. Publication'
  BY <1>1 DEF Sound, Publication, Stable
<1>5. ASSUME NEW g \in Goroutines, step[g] \in Flocked PROVE UNCHANGED <<data, meta>>
  BY <1>5 DEF Sound, Mutex
<1>6. ASSUME NEW g \in Goroutines, step[g] \in Backing PROVE UNCHANGED <<data, meta>>
  BY <1>6 DEF Sound, Mutex
<1>7. Frozen'
  <2> SUFFICES ASSUME NEW g \in Goroutines
               PROVE  /\ step[g] \in Flocked \ {"meta"} => build.info = meta'
                      /\ step[g] \in Built => build.map = <<Contents(meta'.crcDigest)>>
                      /\ step[g] \in Published => snap = <<Contents(meta'.crcDigest)>>
                      /\ step[g] \in Canaried => loaded.crcDigest = meta'.crcDigest
                      /\ step[g] \in {"copyMeta", "copied"} => copy.data = data'
                      /\ step[g] = "copied" => copy.info = meta'
    BY <1>1, Zenon DEF Frozen
  <2>1. CASE step[g] \in Flocked \cup Backing
    BY <1>5, <1>6, <2>1, Zenon DEF Sound, Frozen
  <2>2. CASE step[g] \notin Flocked \cup Backing
    BY <2>2 DEF Flocked, Built, Published, Canaried, Backing
  <2> QED
    BY <2>1, <2>2
<1> QED
  BY <1>2, <1>3, <1>4, <1>7

LEMMA WriteCommits ==
    ASSUME Sound, NEW p \in Writers, CallStep(p), snap' = snap,
           ever' = ever \cup {Contents(Pending(q)) :
                                 q \in {r \in Writers : Writing(r) /\ ~Writing(r)'}}
    PROVE  Commits'
<1>1. p \in Procs /\ Writers \subseteq Procs /\ TypeOK /\ Locked /\ Commits
  BY DEF Writers, Sound, Locked
<1>2. \A q \in Writers \ {p} : /\ pc'[q] = pc[q] /\ inst'[q] = inst[q] /\ buf'[q] = buf[q]
  BY <1>1, OthersStay
<1>3. /\ inst[p] \in Instance /\ inst[p].info \in MetaInfo /\ meta \in MetaInfo
  BY <1>1 DEF TypeOK, Instance
<1>4. ASSUME NEW q \in Writers, pc[q] \in Storing, q # p PROVE pc[p] \notin Storing
  BY <1>1, <1>4, OneStores
<1>5. ASSUME pc[p] \notin Storing PROVE meta' = meta /\ pc'[p] # "size"
  BY <1>1, <1>5, MetaStores DEF Storing
<1>6. \A q \in Writers : pc'[q] = "size" => meta'.crcDigest = inst'[q].crcDigest
  <2>1. CASE pc'[p] = "size"
    <3>1. /\ pc[p] = "crc" /\ inst' = inst
          /\ meta' = [meta EXCEPT !.crcDigest = inst[p].crcDigest]
      BY <1>1, <2>1, MetaStores, Zenon
    <3>2. meta'.crcDigest = inst'[p].crcDigest
      BY <1>3, <3>1 DEF MetaInfo
    <3>3. \A q \in Writers \ {p} : pc'[q] # "size"
      BY <1>2, <1>4, <3>1 DEF Storing
    <3> QED
      BY <3>2, <3>3
  <2>2. CASE pc'[p] # "size"
    <3> SUFFICES ASSUME NEW q \in Writers \ {p}, pc'[q] = "size"
                 PROVE  meta'.crcDigest = inst'[q].crcDigest
      BY <2>2
    <3>1. pc[q] = "size" /\ inst'[q] = inst[q]
      BY <1>2
    <3>2. meta' = meta
      BY <1>4, <1>5, <3>1 DEF Storing
    <3> QED
      BY <1>1, <3>1, <3>2 DEF Commits
  <2> QED
    BY <2>1, <2>2
<1>7. \A q \in Writers : pc'[q] = "meta" => inst'[q].crcDigest = buf'[q]
  <2>1. pc'[p] = "meta" => inst'[p].crcDigest = buf'[p]
    BY <1>1, ToMetaStore
  <2> QED
    BY <1>1, <1>2, <2>1 DEF Commits
<1>8. ASSUME NoneSizing' PROVE Contents(meta'.crcDigest) \in ever'
  <2>1. CASE meta' = meta /\ pc[p] # "size"
    <3>1. NoneSizing
      BY <1>2, <1>8, <2>1 DEF NoneSizing
    <3> QED
      BY <1>1, <2>1, <3>1 DEF Commits
  <2>2. CASE pc[p] = "size" /\ pc'[p] = "unlock"
             /\ meta' = [meta EXCEPT !.actualSize = inst[p].actualSize]
    <3>1. meta'.crcDigest = inst[p].crcDigest
      BY <1>1, <1>3, <2>2 DEF Commits, MetaInfo
    <3>2. Writing(p) /\ ~Writing(p)' /\ Pending(p) = inst[p].crcDigest
      BY <2>2 DEF Writing, Pending
    <3> QED
      BY <3>1, <3>2
  <2>3. CASE /\ pc[p] = "meta" /\ pc'[p] \in {"shrink", "unlock"}
             /\ meta' = NextInfo(inst[p])
    <3>1. meta'.crcDigest = inst[p].crcDigest
      BY <1>3, <2>3 DEF NextInfo, MetaInfo
    <3>2. inst[p].crcDigest = buf[p]
      BY <1>1, <2>3 DEF Commits
    <3>3. Writing(p) /\ ~Writing(p)' /\ Pending(p) = buf[p]
      BY <2>3 DEF Writing, Pending
    <3> QED
      BY <3>1, <3>2, <3>3
  <2>4. pc'[p] # "size"
    BY <1>8 DEF NoneSizing
  <2> QED
    BY <1>1, <2>1, <2>2, <2>3, <2>4, MetaStores, ZenonT(30)
<1>9. snap' # <<>> => snap'[1] \in ever'
  BY <1>1 DEF Commits
<1> QED
  BY <1>6, <1>7, <1>8, <1>9 DEF Commits

LEMMA WriteSound ==
    ASSUME Sound, NEW p \in Writers, Write(p)
    PROVE  Sound'
<1>1. /\ CallStep(p) /\ p \in Procs /\ TypeOK /\ Locked /\ NoCalls
      /\ UNCHANGED <<readerVars, copy>> /\ Remember
  BY DEF Write, CallStep, Writers, Sound, Locked
<1>2. Locked'
  BY <1>1, NextLocked, Zenon DEF CallStep, Next
<1>3. \A f \in {Reader, Backup} : /\ f \in Procs \ {p}
                                  /\ pc'[f] = pc[f] /\ ex'[f] = ex[f] /\ sh'[f] = sh[f]
  BY <1>1, OthersStay, ReadersAssumption DEF Writers
<1>4. NoCalls'
  BY <1>1, <1>3 DEF NoCalls
<1>5. (\E f \in {Reader, Backup} : sh[f] > 0) => UNCHANGED <<data, meta>>
  BY <1>1, FlockFreezes
<1>6. since' = [g \in Goroutines |-> since'[g]]
  BY <1>1 DEF Remember
<1>7. ReaderTypes' /\ Counted' /\ Mutex' /\ Frozen' /\ Publication'
  BY <1>1, <1>3, <1>4, <1>5, <1>6, ReadersUnmoved, SMTT(30)
<1>8. Commits'
  BY <1>1, WriteCommits, SMTT(30) DEF Remember, readerVars
<1> QED
  BY <1>2, <1>4, <1>7, <1>8 DEF Sound

LEMMA DieSound ==
    ASSUME Sound, NEW p \in Writers, Die(p)
    PROVE  Sound'
<1>1. /\ p \in Procs /\ TypeOK /\ Locked /\ NoCalls /\ Commits
      /\ pc' = [pc EXCEPT ![p] = "closed"] /\ op' = [op EXCEPT ![p] = NoCall]
      /\ ex' = [ex EXCEPT ![p] = 0] /\ sh' = [sh EXCEPT ![p] = 0]
      /\ ever' = IF pc[p] = "size" THEN ever \cup {Contents(Pending(p))} ELSE ever
      /\ UNCHANGED <<data, meta, inst, buf, res, readerVars, copy, now, since>>
  BY DEF Die, Writers, Sound, Locked
<1>2. /\ pc'[p] = "closed" /\ op'[p] = NoCall /\ ex'[p] = 0 /\ sh'[p] = 0
      /\ \A q \in Procs \ {p} : /\ pc'[q] = pc[q] /\ op'[q] = op[q]
                                /\ ex'[q] = ex[q] /\ sh'[q] = sh[q]
  BY <1>1 DEF TypeOK
<1>3. Locked'
  <2>1. TypeOK'
    BY <1>1 DEF TypeOK, Steps, OpenSteps
  <2>2. Exclusive'
    BY <1>1, <1>2 DEF Locked, Exclusive
  <2>3. \A q \in Procs \ {p} : Held(q)'
    BY <1>1, <1>2, Zenon DEF Locked, Held
  <2>4. Held(p)'
    BY <1>2, CallKinds DEF Held, OpenSteps
  <2> QED
    BY <2>1, <2>2, <2>3, <2>4, ZenonT(30) DEF Locked
<1>4. \A f \in {Reader, Backup} : /\ f \in Procs \ {p}
                                  /\ pc'[f] = pc[f] /\ ex'[f] = ex[f] /\ sh'[f] = sh[f]
  BY <1>1, <1>2, ReadersAssumption DEF Writers
<1>5. NoCalls'
  BY <1>1, <1>4 DEF NoCalls
<1>6. since' = [g \in Goroutines |-> since'[g]]
  BY <1>1, Zenon DEF Sound, ReaderTypes
<1>7. ReaderTypes' /\ Counted' /\ Mutex' /\ Frozen' /\ Publication'
  BY <1>1, <1>4, <1>5, <1>6, ReadersUnmoved, SMTT(30)
<1>8. Commits'
  <2>1. Writers \subseteq Procs /\ snap' = snap /\ meta' = meta /\ inst' = inst /\ buf' = buf
    BY <1>1 DEF Writers, readerVars
  <2>2. ever \subseteq ever'
    BY <1>1
  <2>3. ASSUME NoneSizing' PROVE Contents(meta.crcDigest) \in ever'
    <3>1. CASE pc[p] = "size"
      BY <1>1, <3>1 DEF Commits, Pending
    <3>2. CASE pc[p] # "size"
      BY <1>1, <1>2, <2>1, <2>2, <2>3, <3>2, SMTT(30) DEF Commits, NoneSizing
    <3> QED
      BY <3>1, <3>2
  <2>4. \A q \in Writers : pc'[q] \in {"size", "meta"} => pc'[q] = pc[q]
    BY <1>2, <2>1
  <2> QED
    BY <1>1, <2>1, <2>2, <2>3, <2>4, SMTT(30) DEF Commits
<1> QED
  BY <1>3, <1>5, <1>7, <1>8 DEF Sound

\* A meta that describes the stored region is one that a loader accepts.
LEMMA QuietAccepts ==
    ASSUME TypeOK, FileInv, Quiet
    PROVE  Valid(meta) /\ Region(data, readActualSize(meta)) = meta.crcDigest
           /\ readActualSize(meta) = meta.actualSize
<1>1. meta \in MetaInfo /\ data \in Seq(Slot)
  BY DEF TypeOK
<1>2. readActualSize(meta) = meta.actualSize
  BY <1>1 DEF FileInv, readActualSize, versionActualSize, MetaInfo
<1>3. meta.actualSize <= Len(data)
  BY <1>1, StoreAssumption DEF FileInv, FileSize, MetaInfo
<1> QED
  BY <1>2, <1>3 DEF FileInv, Valid, Stored

LEMMA QuietAcceptsNext ==
    ASSUME TypeOK', FileInv', Quiet'
    PROVE  Committed' /\ Stored' = meta'.crcDigest
<1>1. meta' \in MetaInfo
  BY DEF TypeOK
<1>2. readActualSize(meta') = meta'.actualSize
  BY <1>1 DEF FileInv, readActualSize, versionActualSize, MetaInfo
<1> QED
  BY <1>2 DEF FileInv, Committed, Stored

\* A completed write is remembered; one that is under way has not yet touched
\* the digest, unless it is between its last two stores.
LEMMA WriteKnown ==
    ASSUME Sound, Known, NEW p \in Writers, CallStep(p), Locked', FileInv',
           now' = IF Committed' THEN Contents(Stored)' ELSE now
    PROVE  Known'
<1>1. p \in Procs /\ Writers \subseteq Procs /\ TypeOK /\ Locked /\ TypeOK'
  BY DEF Writers, Sound, Locked
<1>2. \A q \in Procs \ {p} : pc'[q] = pc[q]
  BY <1>1, OthersStay
<1> SUFFICES ASSUME NoneSizing' PROVE now' = Contents(meta'.crcDigest)
  BY DEF Known
<1>3. CASE Quiet'
  BY <1>1, <1>3, QuietAcceptsNext
<1>4. CASE ~Quiet'
  <2>1. now' = now
    BY <1>4 DEF Committed
  <2>2. PICK q \in Procs : pc'[q] \in {"crc", "meta", "size"}
    BY <1>4 DEF Quiet, Torn
  <2>3. pc'[p] # "size"
    BY DEF NoneSizing
  <2>4. ~(pc[p] \in {"size", "meta"} /\ pc'[p] \in {"shrink", "unlock"})
    <3>1. SUFFICES ASSUME pc[p] \in {"size", "meta"}, pc'[p] \in {"shrink", "unlock"}
                   PROVE  FALSE
      OBVIOUS
    <3>2. q # p /\ pc[q] \in Storing /\ pc[p] \in Storing
      BY <1>2, <2>2, <3>1 DEF Storing
    <3> QED
      BY <1>1, <3>2, OneStores
  <2>5. meta' = meta /\ pc[p] # "size"
    BY <1>1, <2>3, <2>4, MetaStores, SMTT(30)
  <2>6. NoneSizing
    BY <1>1, <1>2, <2>5 DEF NoneSizing
  <2> QED
    BY <2>1, <2>5, <2>6 DEF Known
<1> QED
  BY <1>3, <1>4

LEMMA WriteTimely ==
    ASSUME Sound, Sound', Timely, NEW p \in Writers, Write(p)
    PROVE  Timely'
<1> SUFFICES ASSUME ~died PROVE Timely'
  BY DEF Write, Timely
<1>1. /\ CallStep(p) /\ p \in Procs /\ Remember
      /\ UNCHANGED <<state, snap, step, seen>>
  BY DEF Write, CallStep, Writers, readerVars
<1>2. /\ Basics /\ Coherent /\ Known /\ \A g \in Goroutines : Since(g) /\ Probed(g)
  BY DEF Timely
<1>3. [Next]_vars
  BY <1>1, Zenon DEF CallStep, Next
<1>4. Basics' /\ Coherent'
  BY <1>2, <1>3, NextBasics, NextCoherent, SMTT(30)
<1>5. Known'
  BY <1>1, <1>2, <1>4, WriteKnown DEF Remember, Coherent, Sound
<1>6. ASSUME NEW g \in Goroutines PROVE Since(g)' /\ Probed(g)'
  <2>1. since'[g] = IF since[g] = {} THEN {} ELSE since[g] \cup {now', kv'}
    BY <1>1, SMTT(30) DEF Remember
  <2>2. Since(g)'
    BY <1>1, <1>2, <2>1 DEF Since
  <2>3. since[g] \subseteq since'[g]
    BY <2>1
  <2>4. Probed(g)'
    BY <1>1, <1>2, <2>3 DEF Probed
  <2> QED
    BY <2>2, <2>4, SMTT(30)
<1> QED
  BY <1>4, <1>5, <1>6 DEF Timely

-----------------------------------------------------------------------------
(***************************************************************************)
(* What the Reader and the backup leave alone.                             *)
(***************************************************************************)
LEMMA CommitsStay ==
    ASSUME Commits, UNCHANGED <<meta, inst, pc, buf, ever>>,
           snap' # <<>> => snap'[1] \in ever
    PROVE  Commits'
  BY DEF Commits, NoneSizing

LEMMA StoreStays ==
    ASSUME Sound, UNCHANGED vars
    PROVE  /\ Locked' /\ NoCalls'
           /\ (Basics => Basics') /\ (Basics /\ Coherent => Coherent') /\ kv' = kv
<1>1. Locked' /\ (Basics => Basics')
  BY NextLocked, NextBasics DEF Sound
<1>2. NoCalls'
  BY DEF Sound, NoCalls, vars
<1>3. Basics /\ Coherent => Coherent'
  BY <1>1, NextCoherent
<1>4. kv' = kv
  BY Zenon DEF vars, kv, Writing, Pending, Stored
<1> QED
  BY <1>1, <1>2, <1>3, <1>4

\* The flock of the Reader or of the backup is all that a flockShared or a
\* flockUnlock of it changes.
LEMMA FlockStays ==
    ASSUME Sound, NEW f \in {Reader, Backup}, flockShared(f) \/ flockUnlock(f)
    PROVE  /\ Locked' /\ NoCalls' /\ UNCHANGED <<data, meta, inst, pc, buf>>
           /\ sh'[f] = IF flockShared(f) THEN 1 ELSE 0
           /\ \A h \in {Reader, Backup} \ {f} : sh'[h] = sh[h]
           /\ (Basics => Basics') /\ (Basics /\ Coherent => Coherent') /\ kv' = kv
<1>1. /\ f \in Procs /\ TypeOK /\ Locked /\ NoCalls
      /\ UNCHANGED <<data, meta, inst, ex, pc, op, buf, res>>
      /\ sh' = [sh EXCEPT ![f] = 1] \/ sh' = [sh EXCEPT ![f] = 0]
  BY ReadersAssumption DEF flockShared, flockUnlock, Sound, Locked
<1>2. /\ \A q \in Procs \ {f} : sh'[q] = sh[q]
      /\ sh'[f] = IF flockShared(f) THEN 1 ELSE 0
  BY <1>1 DEF TypeOK, flockShared, flockUnlock
<1>3. NoCalls'
  BY <1>1 DEF NoCalls
<1>4. TypeOK'
  <2>1. sh \in [Procs -> Nat] /\ (sh' = [sh EXCEPT ![f] = 1] \/ sh' = [sh EXCEPT ![f] = 0])
    BY <1>1, Zenon DEF TypeOK
  <2>2. sh' \in [Procs -> Nat]
    BY <2>1
  <2> QED
    BY <1>1, <2>2, Zenon DEF TypeOK
<1>5. Exclusive'
  BY <1>1, <1>2 DEF Locked, Exclusive, NoCalls, Others, flockShared
<1>6. \A q \in Procs : Held(q)'
  <2>1. op[f] = NoCall
    BY <1>1, SMTT(30) DEF Locked, Held, NoCalls
  <2>2. Held(f)'
    BY <1>1, <2>1, CallKinds DEF Locked, Held, NoCalls
  <2>3. \A q \in Procs \ {f} : Held(q)'
    BY <1>1, <1>2, Zenon DEF Locked, Held
  <2> QED
    BY <2>2, <2>3, SMTT(30)
<1>7. Locked'
  BY <1>4, <1>5, <1>6, Zenon DEF Locked
<1>8. Basics => Basics'
  <2>1. op[f] = NoCall
    BY <1>1 DEF Locked, Held, NoCalls
  <2>2. ASSUME Basics PROVE InCall(f)'
    BY <1>1, <2>1, <2>2, CallKinds, SMTT(30) DEF Basics, InCall, NoCalls
  <2>3. ASSUME Basics PROVE \A q \in Procs \ {f} : InCall(q)'
    BY <1>1, <1>2, <2>3, ZenonT(30) DEF Basics, InCall
  <2> QED
    BY <1>4, <1>5, <2>2, <2>3, ZenonT(30) DEF Basics
<1>9. Basics /\ Coherent => Coherent'
  <2>1. pc[f] = "idle" /\ pc' = [pc EXCEPT ![f] = "idle"]
    BY <1>1 DEF NoCalls, TypeOK
  <2>2. ~Loaded(f)'
    BY <1>1, <2>1 DEF Loaded
  <2> QED
    BY <1>1, <2>1, <2>2, Moves, ZenonT(30)
<1>10. kv' = kv
  BY <1>1, Zenon DEF kv, Writing, Pending, Stored
<1>11. \A h \in {Reader, Backup} \ {f} : sh'[h] = sh[h]
  BY <1>2, ReadersAssumption
<1> QED
  BY <1>1, <1>2, <1>3, <1>7, <1>8, <1>9, <1>10, <1>11, ZenonT(30)

-----------------------------------------------------------------------------
(***************************************************************************)
(* The steps of a goroutine keep Sound.                                    *)
(***************************************************************************)
LEMMA Walks ==
    ASSUME ReaderTypes, NEW g \in Goroutines, NEW s, Goto(g, s)
    PROVE  step'[g] = s /\ \A h \in Goroutines \ {g} : step'[h] = step[h]
  BY DEF ReaderTypes, Goto

LEMMA Counts ==
    ASSUME ReaderTypes, Counted, NEW g \in Goroutines, NEW s, Goto(g, s),
           \A h \in Goroutines \ {g} : seen'[h] = seen[h],
           s = "probe" => Len(seen'[g]) <= 2, s = "compare" => Len(seen'[g]) \in 1..3,
           s \notin {"probe", "compare"} => seen'[g] = <<>>
    PROVE  Counted'
<1>1. step'[g] = s /\ \A h \in Goroutines \ {g} : step'[h] = step[h]
  BY Walks
<1> SUFFICES ASSUME NEW h \in Goroutines
             PROVE  /\ step'[h] = "probe" => Len(seen'[h]) <= 2
                    /\ step'[h] = "compare" => Len(seen'[h]) \in 1..3
                    /\ step'[h] \notin {"probe", "compare"} => seen'[h] = <<>>
  BY Zenon DEF Counted
<1> QED
  BY <1>1 DEF Counted

\* The three fields a probe loads.
LEMMA CanaryFields ==
    Canary[1] = "crcDigest" /\ Canary[2] = "actualSize" /\ Canary[3] = "sequence"
  BY DEF Canary

LEMMA TailOf ==
    ASSUME NEW loads \in Seq(Loads), Len(loads) \in 1..3
    PROVE  /\ Tail(loads) \in Seq(Loads) /\ Len(Tail(loads)) = Len(loads) - 1
           /\ Len(loads) = 1 => Tail(loads) = <<>>
<1>1. loads # <<>>
  OBVIOUS
<1>2. Tail(loads) \in Seq(Loads) /\ Len(Tail(loads)) = Len(loads) - 1
  BY <1>1
<1>3. \A t \in Seq(Loads) : Len(t) = 0 => t = <<>>
  OBVIOUS
<1> QED
  BY <1>2, <1>3

LEMMA OneMore == \A m \in Nat : m <= 2 /\ m # 2 => m + 1 <= 2
  OBVIOUS

LEMMA UpToThree == ~(3 < 3) /\ \A m \in 1..3 : (m = 3 \/ m < 3) /\ m - 1 # 3
  OBVIOUS

LEMMA LiveType ==
    ASSUME TypeOK, NEW n \in 1..3, NEW x \in LiveField(Canary[n])
    PROVE  x \in Loads
<1>1. \A info \in MetaInfo : /\ info["crcDigest"] \in Loads
                             /\ info["actualSize"] \in Loads /\ info["sequence"] \in Loads
  BY DEF MetaInfo, Loads
<1>2. \A info \in MetaInfo : info[Canary[n]] \in Loads
  BY <1>1, CanaryFields
<1>3. meta \in MetaInfo /\ \A p \in Writers : NextInfo(inst[p]) \in MetaInfo
  BY NextInfoType DEF TypeOK, Writers
<1> QED
  BY <1>2, <1>3 DEF LiveField

\* Places outside the flock: a read, the wait for it, or nothing.
Outside == {"idle", "flock"} \cup Reading

LEMMA Places ==
    /\ Reloading \cap Reading = {} /\ Reloading \cap Backing = {} /\ Reading \cap Backing = {}
    /\ Flocked = Reloading \ {"flock"} /\ Built \subseteq Flocked
    /\ Published \subseteq Built /\ Canaried \subseteq Published
    /\ "idle" \notin Reading \cup Reloading \cup Backing
    /\ "flock" \in Reloading /\ "crcDigest" \in Published \ Canaried
    /\ {"copyMeta", "copied"} \subseteq Backing /\ "meta" \in Flocked \ Built
    /\ Outside \cap (Flocked \cup Backing) = {}
  BY SMTT(30) DEF Outside, Reading, Canaried, Published, Built, Flocked, Reloading, Backing

LEMMA OutsideFrozen ==
    ASSUME Frozen, NEW g \in Goroutines, step'[g] \in Outside,
           \A h \in Goroutines \ {g} : step'[h] = step[h],
           UNCHANGED <<data, meta, snap, loaded, build, copy>>
    PROVE  Frozen'
<1> SUFFICES ASSUME NEW h \in Goroutines
             PROVE  /\ step'[h] \in Flocked \ {"meta"} => build.info = meta
                    /\ step'[h] \in Built => build.map = <<Contents(meta.crcDigest)>>
                    /\ step'[h] \in Published => snap = <<Contents(meta.crcDigest)>>
                    /\ step'[h] \in Canaried => loaded.crcDigest = meta.crcDigest
                    /\ step'[h] \in {"copyMeta", "copied"} => copy.data = data
                    /\ step'[h] = "copied" => copy.info = meta
  BY ZenonT(30) DEF Frozen
<1>1. CASE h = g
  BY <1>1, Places
<1>2. CASE h # g
  BY <1>2, Zenon DEF Frozen
<1> QED
  BY <1>1, <1>2

LEMMA OutsideSound ==
    ASSUME Sound, NEW g \in Goroutines, NEW s \in Outside, Goto(g, s),
           step[g] \in Outside \ {"flock"},
           UNCHANGED <<vars, snap, loaded, build, copy, ever>>,
           s \in Reading => state' = "open", s = "flock" => reloadMu' = g,
           state' = state \/ (state = "closed" /\ state' = "opening"),
           s = "flock" => state' # "closed",
           \A h \in Goroutines \ {g} : step[h] \in Reloading => reloadMu' = h,
           Counted', seen' \in [Goroutines -> Seq(Loads)],
           since' = [h \in Goroutines |-> since'[h]]
    PROVE  Sound'
<1>1. /\ step'[g] = s /\ \A h \in Goroutines \ {g} : step'[h] = step[h]
  BY Walks DEF Sound
<1>2. Locked' /\ NoCalls' /\ UNCHANGED <<data, meta, inst, pc, buf, sh>>
  BY StoreStays DEF vars
<1>3. ReaderTypes'
  <2>1. step' \in [Goroutines -> {"idle"} \cup Reading \cup Reloading \cup Backing]
    BY Places DEF Sound, ReaderTypes, Goto, Outside
  <2> QED
    BY <2>1, ZenonT(30) DEF Sound, ReaderTypes
<1>4. Mutex'
  <2> SUFFICES ASSUME NEW h \in Goroutines
               PROVE  /\ step'[h] \in Reloading => reloadMu' = h /\ state' # "closed"
                      /\ step'[h] \in Reading => state' = "open"
                      /\ step'[h] \in Flocked => sh[Reader] > 0
                      /\ step'[h] \in Backing =>
                            sh[Backup] > 0 /\ \A i \in Goroutines : step'[i] \in Backing => i = h
    BY <1>2, ZenonT(30) DEF Mutex
  <2>1. CASE h = g
    BY <1>1, <2>1, Places DEF Outside
  <2>2. CASE h # g
    <3>1. s \notin Backing
      BY Places
    <3> QED
      BY <1>1, <2>2, <3>1, ZenonT(30) DEF Sound, Mutex
  <2> QED
    BY <2>1, <2>2
<1>5. Frozen'
  BY <1>1, <1>2, OutsideFrozen, SMTT(30) DEF Sound
<1>6. Publication'
  <2>1. step[g] # "crcDigest" /\ s # "crcDigest"
    BY DEF Outside, Reading
  <2>2. Stable' => Stable
    BY <1>1, <2>1, SMTT(30) DEF Stable
  <2> QED
    BY <2>2 DEF Sound, Publication
<1>7. Commits'
  BY <1>2, CommitsStay DEF Sound, Commits
<1> QED
  BY <1>2, <1>3, <1>4, <1>5, <1>6, <1>7, SMTT(30) DEF Sound

LEMMA ReadSound ==
    ASSUME Sound, NEW g \in Goroutines,
           Open(g) \/ Begin(g) \/ Probe(g) \/ Fresh(g) \/ Stale(g) \/ LockReload(g) \/ Return(g)
    PROVE  Sound'
<1>1. /\ seen \in [Goroutines -> Seq(Loads)] /\ since = [h \in Goroutines |-> since[h]]
      /\ ReaderTypes /\ Counted /\ "nobody" \notin Goroutines
      /\ step[g] \in Reading => state = "open"
      /\ \A h \in Goroutines \ {g} : step[h] \in Reloading => reloadMu = h /\ state # "closed"
  BY ReadersAssumption DEF Sound, ReaderTypes, Mutex
<1>2. /\ step[g] = "probe" => Len(seen[g]) <= 2
      /\ step[g] = "compare" => Len(seen[g]) \in 1..3
      /\ step[g] \notin {"probe", "compare"} => seen[g] = <<>>
      /\ Len(<<>>) = 0 /\ seen[g] \in Seq(Loads)
  BY <1>1 DEF Counted
<1>3. /\ {"idle", "flock", "probe", "compare", "mutex", "load"} \subseteq Outside
      /\ Reading = {"probe", "compare", "mutex", "load"}
  BY DEF Outside, Reading
<1>4. CASE Open(g)
  <2>1. /\ state = "closed" /\ state' = "opening" /\ step[g] = "idle" /\ reloadMu' = g
        /\ Goto(g, "flock") /\ UNCHANGED <<vars, snap, loaded, build, seen, copy, ever, since>>
    BY <1>4, ZenonT(30) DEF Open, historyVars
  <2>2. Counted'
    BY <1>1, <1>2, <2>1, Counts, SMTT(30)
  <2> QED
    BY <1>1, <1>3, <2>1, <2>2, OutsideSound, SMTT(30)
<1>5. CASE Begin(g)
  <2>1. /\ state = "open" /\ step[g] = "idle" /\ Goto(g, "probe")
        /\ since' = [since EXCEPT ![g] = {now, kv}]
        /\ UNCHANGED <<vars, state, snap, loaded, reloadMu, build, seen, copy, ever>>
    BY <1>5, Zenon DEF Begin, BeginSince
  <2>2. Counted'
    BY <1>1, <1>2, <2>1, Counts, SMTT(30)
  <2>3. since' = [h \in Goroutines |-> since'[h]]
    BY <1>1, <2>1, Zenon
  <2> QED
    BY <1>1, <1>3, <2>1, <2>2, <2>3, OutsideSound, SMTT(30)
<1>6. CASE Probe(g)
  <2>1. PICK x \in LiveField(Canary[Len(seen[g]) + 1]) :
                seen' = [seen EXCEPT ![g] = Append(@, x)]
    BY <1>6, Zenon DEF Probe
  <2>2. /\ step[g] = "probe" /\ Goto(g, IF Len(seen[g]) = 2 THEN "compare" ELSE "probe")
        /\ UNCHANGED <<vars, state, snap, loaded, reloadMu, build, copy, ever, since>>
    BY <1>6, ZenonT(30) DEF Probe, historyVars
  <2>3. x \in Loads
    BY <1>2, <2>2, LiveType, SMTT(30) DEF Sound, Locked
  <2>4. /\ seen' \in [Goroutines -> Seq(Loads)] /\ Len(seen'[g]) = Len(seen[g]) + 1
        /\ \A h \in Goroutines \ {g} : seen'[h] = seen[h]
    BY <1>1, <1>2, <2>1, <2>3, SMTT(30)
  <2>5. Counted'
    <3>1. CASE Len(seen[g]) = 2
      BY <1>1, <2>2, <2>4, <3>1, Counts, SMTT(30)
    <3>2. CASE Len(seen[g]) # 2
      <4>1. Goto(g, "probe")
        BY <2>2, <3>2, SMTT(30)
      <4>2. Len(seen[g]) \in Nat /\ Len(seen[g]) <= 2
        BY <1>2, <2>2
      <4>3. Len(seen'[g]) = Len(seen[g]) + 1
        BY <2>4, Zenon
      <4>4. Len(seen'[g]) <= 2
        BY <3>2, <4>2, <4>3, OneMore, ZenonT(30)
      <4> QED
        BY <1>1, <2>4, <4>1, <4>4, Counts, ZenonT(30)
    <3> QED
      BY <3>1, <3>2
  <2> QED
    BY <1>1, <1>3, <2>2, <2>4, <2>5, OutsideSound, ZenonT(30)
<1>7. CASE Fresh(g)
  <2>1. /\ step[g] = "compare" /\ Goto(g, IF Len(seen[g]) > 1 THEN "compare" ELSE "load")
        /\ seen' = [seen EXCEPT ![g] = Tail(@)]
        /\ reloadMu' = IF Len(seen[g]) = 1 /\ reloadMu = g THEN "nobody" ELSE reloadMu
        /\ UNCHANGED <<vars, state, snap, loaded, build, copy, ever, since>>
    BY <1>7, ZenonT(30) DEF Fresh, historyVars
  <2>2. /\ seen' \in [Goroutines -> Seq(Loads)]
        /\ Len(seen'[g]) = Len(seen[g]) - 1 /\ (Len(seen[g]) = 1 => seen'[g] = <<>>)
        /\ \A h \in Goroutines \ {g} : seen'[h] = seen[h]
    <3>1. /\ Tail(seen[g]) \in Seq(Loads) /\ Len(Tail(seen[g])) = Len(seen[g]) - 1
          /\ Len(seen[g]) = 1 => Tail(seen[g]) = <<>>
      BY <1>2, <2>1, TailOf, SMTT(30)
    <3>2. seen'[g] = Tail(seen[g]) /\ \A h \in Goroutines \ {g} : seen'[h] = seen[h]
      BY <1>1, <2>1
    <3>3. seen' \in [Goroutines -> Seq(Loads)]
      BY <1>1, <2>1, <3>1, SMTT(30)
    <3> QED
      BY <3>1, <3>2, <3>3, SMTT(30)
  <2>4. Counted'
    <3>1. CASE Len(seen[g]) > 1
      <4>1. Goto(g, "compare") /\ Len(seen'[g]) \in 1..3
        BY <1>2, <2>1, <2>2, <3>1, SMTT(30)
      <4> QED
        BY <1>1, <2>2, <4>1, Counts, ZenonT(30)
    <3>2. CASE ~(Len(seen[g]) > 1)
      <4>1. Goto(g, "load") /\ seen'[g] = <<>>
        BY <1>2, <2>1, <2>2, <3>2, SMTT(30)
      <4> QED
        BY <1>1, <2>2, <4>1, Counts, SMTT(30)
    <3> QED
      BY <3>1, <3>2
  <2> QED
    BY <1>1, <1>3, <2>1, <2>2, <2>4, OutsideSound, SMTT(30)
<1>8. CASE Stale(g)
  <2>1. /\ step[g] = "compare" /\ Goto(g, IF reloadMu = g THEN "flock" ELSE "mutex")
        /\ seen' = [seen EXCEPT ![g] = <<>>]
        /\ UNCHANGED <<vars, state, snap, loaded, reloadMu, build, copy, ever, since>>
    BY <1>8, Zenon DEF Stale, historyVars
  <2>2. /\ seen' \in [Goroutines -> Seq(Loads)] /\ seen'[g] = <<>>
        /\ \A h \in Goroutines \ {g} : seen'[h] = seen[h]
    BY <1>1, <2>1, SMTT(30)
  <2>3. Counted'
    BY <1>1, <2>1, <2>2, Counts, SMTT(30)
  <2> QED
    BY <1>1, <1>3, <2>1, <2>2, <2>3, OutsideSound, SMTT(30)
<1>9. CASE LockReload(g)
  <2>1. /\ step[g] = "mutex" /\ reloadMu = "nobody" /\ reloadMu' = g /\ Goto(g, "probe")
        /\ UNCHANGED <<vars, state, snap, loaded, build, seen, copy, ever, since>>
    BY <1>9, Zenon DEF LockReload, historyVars
  <2>2. Counted'
    BY <1>1, <1>2, <2>1, Counts, SMTT(30)
  <2> QED
    BY <1>1, <1>3, <2>1, <2>2, OutsideSound, SMTT(30)
<1>10. CASE Return(g)
  <2>1. /\ step[g] = "load" /\ Goto(g, "idle") /\ since' = [since EXCEPT ![g] = {}]
        /\ UNCHANGED <<vars, state, snap, loaded, reloadMu, build, seen, copy, ever>>
    BY <1>10, Zenon DEF Return, EndSince
  <2>2. Counted'
    BY <1>1, <1>2, <2>1, Counts, SMTT(30)
  <2>3. since' = [h \in Goroutines |-> since'[h]]
    BY <1>1, <2>1, ZenonT(30)
  <2> QED
    BY <1>1, <1>3, <2>1, <2>2, <2>3, OutsideSound, SMTT(30)
<1> QED
  BY <1>4, <1>5, <1>6, <1>7, <1>8, <1>9, <1>10, SMTT(30)

\* Only the goroutine that holds reloadMu is in a reload.
LEMMA ReloadsAlone ==
    ASSUME Mutex, NEW g \in Goroutines, step[g] \in Reloading, NEW h \in Goroutines \ {g}
    PROVE  step[h] \notin Reloading
  BY DEF Mutex

LEMMA ReloadSound ==
    ASSUME Sound, NEW g \in Goroutines, step[g] \in Reloading,
           NEW s \in Flocked \cup {"idle", "load"}, Goto(g, s), Locked', NoCalls',
           UNCHANGED <<data, meta, inst, pc, buf, copy, seen, since, ever>>,
           sh'[Backup] = sh[Backup],
           s \in Flocked => sh'[Reader] > 0 /\ reloadMu' = g /\ state' = state,
           state = "open" => state' = "open", state' \in {"closed", "opening", "open"},
           s = "load" => state' = "open",
           s \in Flocked \ {"meta"} => build'.info = meta,
           s \in Built => build'.map = <<Contents(meta.crcDigest)>>,
           s \in Published => snap' = <<Contents(meta.crcDigest)>>,
           s \in Canaried => loaded'.crcDigest = meta.crcDigest,
           state' = "open" => /\ snap' # <<>>
                              /\ s # "crcDigest" => snap' = <<Contents(loaded'.crcDigest)>>,
           snap' # <<>> => snap'[1] \in ever,
           loaded' \in [crcDigest : Seq(Slot), actualSize : Nat, sequence : Nat],
           build' = [info |-> build'.info, map |-> build'.map]
    PROVE  Sound'
<1>1. step'[g] = s /\ \A h \in Goroutines \ {g} : step'[h] = step[h]
  BY Walks DEF Sound
<1>2. \A h \in Goroutines \ {g} : step[h] \notin Reloading
  BY ReloadsAlone, SMTT(30) DEF Sound
<1>3. s \notin Backing
  BY Places DEF Backing
<1>4. ReaderTypes'
  <2>1. step' \in [Goroutines -> {"idle"} \cup Reading \cup Reloading \cup Backing]
    BY Places, SMTT(30) DEF Sound, ReaderTypes, Goto, Reading
  <2> QED
    BY <2>1, ZenonT(30) DEF Sound, ReaderTypes
<1>5. Counted'
  <2>1. seen[g] = <<>>
    BY DEF Sound, Counted, Reloading, Flocked, Built, Published, Canaried
  <2>2. s \notin {"probe", "compare"}
    BY DEF Flocked, Built, Published, Canaried
  <2> QED
    BY <2>1, <2>2, Counts, SMTT(30) DEF Sound
<1>6. Mutex'
  <2> SUFFICES ASSUME NEW h \in Goroutines
               PROVE  /\ step'[h] \in Reloading => reloadMu' = h /\ state' # "closed"
                      /\ step'[h] \in Reading => state' = "open"
                      /\ step'[h] \in Flocked => sh'[Reader] > 0
                      /\ step'[h] \in Backing =>
                            sh[Backup] > 0 /\ \A i \in Goroutines : step'[i] \in Backing => i = h
    BY ZenonT(30) DEF Mutex
  <2>1. CASE h = g
    <3>1. step[g] \in Reloading => state # "closed"
      BY DEF Sound, Mutex
    <3>2. s \in Reading => s = "load"
      BY Places
    <3>3. s \in Reloading => s \in Flocked
      BY Places
    <3> QED
      BY <1>1, <1>3, <2>1, <3>1, <3>2, <3>3, SMTT(30)
  <2>2. CASE h # g
    <3>1. step'[h] = step[h] /\ step[h] \notin Reloading /\ step[h] \notin Flocked
      BY <1>1, <1>2, <2>2, Places, SMTT(30)
    <3>2. step[h] \in Reading => state' = "open"
      BY DEF Sound, Mutex
    <3>3. step[h] \in Backing =>
             sh[Backup] > 0 /\ \A i \in Goroutines : step[i] \in Backing => i = h
      BY SMTT(30) DEF Sound, Mutex
    <3> QED
      BY <1>1, <1>3, <3>1, <3>2, <3>3, ZenonT(30)
  <2> QED
    BY <2>1, <2>2
<1>7. Frozen'
  <2> SUFFICES ASSUME NEW h \in Goroutines
               PROVE  /\ step'[h] \in Flocked \ {"meta"} => build'.info = meta
                      /\ step'[h] \in Built => build'.map = <<Contents(meta.crcDigest)>>
                      /\ step'[h] \in Published => snap' = <<Contents(meta.crcDigest)>>
                      /\ step'[h] \in Canaried => loaded'.crcDigest = meta.crcDigest
                      /\ step'[h] \in {"copyMeta", "copied"} => copy.data = data
                      /\ step'[h] = "copied" => copy.info = meta
    BY Zenon DEF Frozen
  <2>1. CASE h = g
    <3>1. s \notin {"copyMeta", "copied"}
      BY <1>3 DEF Backing
    <3> QED
      BY <1>1, <2>1, <3>1, ZenonT(30)
  <2>2. CASE h # g
    <3>1. step'[h] = step[h] /\ step[h] \notin Flocked
      BY <1>1, <1>2, <2>2, Places, SMTT(30)
    <3>2. /\ step[h] \notin Built /\ step[h] \notin Published /\ step[h] \notin Canaried
      BY <3>1, Places
    <3> QED
      BY <3>1, <3>2, ZenonT(30) DEF Sound, Frozen
  <2> QED
    BY <2>1, <2>2
<1>8. Publication'
  <2>1. Stable' => s # "crcDigest"
    BY <1>1 DEF Stable
  <2> QED
    BY <2>1, ZenonT(30) DEF Publication
<1>9. Commits'
  BY CommitsStay DEF Sound
<1> QED
  BY <1>4, <1>5, <1>6, <1>7, <1>8, <1>9, ZenonT(30) DEF Sound

LEMMA BackupSound ==
    ASSUME Sound, NEW g \in Goroutines, step[g] \in {"idle"} \cup Backing,
           \A h \in Goroutines \ {g} : step[h] \notin Backing,
           NEW s \in {"idle"} \cup Backing, Goto(g, s), Locked', NoCalls',
           UNCHANGED <<data, meta, inst, pc, buf, state, snap, loaded, reloadMu, build,
                       seen, ever>>,
           sh'[Reader] = sh[Reader], s \in Backing => sh'[Backup] > 0,
           s \in {"copyMeta", "copied"} => copy'.data = data,
           s = "copied" => copy'.info = meta,
           copy' = [data |-> copy'.data, info |-> copy'.info],
           since' = [h \in Goroutines |-> since'[h]]
    PROVE  Sound'
<1>1. step'[g] = s /\ \A h \in Goroutines \ {g} : step'[h] = step[h]
  BY Walks, SMTT(30) DEF Sound
<1>2. /\ s \notin Reloading /\ s \notin Reading /\ s \notin Flocked
      /\ s \notin {"probe", "compare"} /\ step[g] \notin {"probe", "compare"}
      /\ s # "crcDigest" /\ step[g] # "crcDigest"
      /\ s \notin Built /\ s \notin Published /\ s \notin Canaried
  BY Places DEF Backing
<1>3. ReaderTypes'
  <2>1. step' \in [Goroutines -> {"idle"} \cup Reading \cup Reloading \cup Backing]
    BY DEF Sound, ReaderTypes, Goto
  <2> QED
    BY <2>1, ZenonT(30) DEF Sound, ReaderTypes
<1>4. Counted'
  <2>1. seen[g] = <<>>
    BY <1>2, SMTT(30) DEF Sound, Counted
  <2> QED
    BY <1>2, <2>1, Counts, SMTT(30) DEF Sound
<1>5. Mutex'
  <2> SUFFICES ASSUME NEW h \in Goroutines
               PROVE  /\ step'[h] \in Reloading => reloadMu = h /\ state # "closed"
                      /\ step'[h] \in Reading => state = "open"
                      /\ step'[h] \in Flocked => sh[Reader] > 0
                      /\ step'[h] \in Backing =>
                            sh'[Backup] > 0 /\ \A i \in Goroutines : step'[i] \in Backing => i = h
    BY Zenon DEF Mutex
  <2>1. CASE h = g
    BY <1>1, <1>2, <2>1, ZenonT(30)
  <2>2. CASE h # g
    BY <1>1, <2>2, ZenonT(30) DEF Sound, Mutex
  <2> QED
    BY <2>1, <2>2
<1>6. Frozen'
  <2> SUFFICES ASSUME NEW h \in Goroutines
               PROVE  /\ step'[h] \in Flocked \ {"meta"} => build.info = meta
                      /\ step'[h] \in Built => build.map = <<Contents(meta.crcDigest)>>
                      /\ step'[h] \in Published => snap = <<Contents(meta.crcDigest)>>
                      /\ step'[h] \in Canaried => loaded.crcDigest = meta.crcDigest
                      /\ step'[h] \in {"copyMeta", "copied"} => copy'.data = data
                      /\ step'[h] = "copied" => copy'.info = meta
    BY Zenon DEF Frozen
  <2>1. CASE h = g
    BY <1>1, <1>2, <2>1, ZenonT(30)
  <2>2. CASE h # g
    <3>1. step'[h] = step[h] /\ step[h] \notin {"copyMeta", "copied"}
      BY <1>1, <2>2, SMTT(30) DEF Backing
    <3> QED
      BY <3>1, ZenonT(30) DEF Sound, Frozen
  <2> QED
    BY <2>1, <2>2
<1>7. Publication'
  <2>1. Stable' => Stable
    BY <1>1, <1>2, SMTT(30) DEF Stable
  <2> QED
    BY <2>1 DEF Sound, Publication
<1>8. Commits'
  BY CommitsStay DEF Sound, Commits
<1> QED
  BY <1>3, <1>4, <1>5, <1>6, <1>7, <1>8, ZenonT(30) DEF Sound

\* Under the flock of the Reader or the backup no writer is storing.
LEMMA FlockQuiet ==
    ASSUME Sound, NEW f \in {Reader, Backup}, sh[f] > 0
    PROVE  NoneSizing /\ Quiet /\ \A p \in Procs : ~Writing(p)
<1>1. \A p \in Writers : pc[p] \notin Storing
  BY FlockFreezes DEF Sound
<1>2. pc[Reader] = "idle" /\ pc[Backup] = "idle"
  BY DEF Sound, NoCalls
<1>3. \A p \in Procs : pc[p] \notin Storing
  BY <1>1, <1>2 DEF Writers, Storing
<1> QED
  BY <1>1, <1>3 DEF NoneSizing, Quiet, Torn, Writing, Storing

\* What holds inside a reload.
LEMMA InReload ==
    ASSUME Sound, NEW g \in Goroutines, step[g] \in Reloading
    PROVE  /\ reloadMu = g /\ state \in {"opening", "open"}
           /\ step[g] \in Flocked => sh[Reader] > 0 /\ Contents(meta.crcDigest) \in ever
           /\ step[g] # "crcDigest" /\ state = "open" =>
                 snap # <<>> /\ snap = <<Contents(loaded.crcDigest)>>
           /\ snap # <<>> => snap[1] \in ever
           /\ build = [info |-> build.info, map |-> build.map]
           /\ loaded \in [crcDigest : Seq(Slot), actualSize : Nat, sequence : Nat]
<1>1. reloadMu = g /\ state \in {"opening", "open"}
  BY SMTT(30) DEF Sound, Mutex, ReaderTypes
<1>2. ASSUME step[g] \in Flocked PROVE sh[Reader] > 0 /\ Contents(meta.crcDigest) \in ever
  <2>1. sh[Reader] > 0
    BY <1>2 DEF Sound, Mutex
  <2> QED
    BY <2>1, FlockQuiet DEF Sound, Commits
<1>3. ASSUME step[g] # "crcDigest", state = "open"
      PROVE  snap # <<>> /\ snap = <<Contents(loaded.crcDigest)>>
  <2>1. \A h \in Goroutines \ {g} : step[h] # "crcDigest"
    BY ReloadsAlone, Places DEF Sound
  <2>2. Stable
    BY <1>3, <2>1, SMTT(30) DEF Stable
  <2> QED
    BY <1>3, <2>2, SMTT(30) DEF Sound, Publication
<1> QED
  BY <1>1, <1>2, <1>3, ZenonT(30) DEF Sound, Commits, ReaderTypes

LEMMA ReloadStepsSound ==
    ASSUME Sound, NEW g \in Goroutines,
           LockFile(g) \/ ReadMeta(g) \/ ReadData(g) \/ ReloadFails(g)
    PROVE  Sound'
<1>1. Reader \in Procs /\ Backup \in {Reader, Backup} \ {Reader}
  BY ReadersAssumption
<1>2. /\ "meta" \in Flocked \ Built /\ "data" \in Flocked \ Built /\ "flock" \in Reloading
      /\ "snap" \in Built \ Published /\ "snap" # "crcDigest" /\ NextPublished("data") = "snap"
      /\ \A s \in {"idle", "load"} : s \notin Flocked /\ s # "crcDigest"
      /\ Canaried \subseteq Published /\ Published \subseteq Built
      /\ Built \subseteq Flocked /\ Flocked \subseteq Reloading
  BY SMTT(30) DEF Canaried, Published, Built, Flocked, Reloading, NextPublished
<1>3. CASE LockFile(g)
  <2>1. /\ step[g] = "flock" /\ flockShared(Reader) /\ Goto(g, "meta")
        /\ UNCHANGED <<state, snap, loaded, reloadMu, build, seen, copy, since, ever>>
    BY <1>3, ZenonT(30) DEF LockFile, historyVars
  <2>2. /\ Locked' /\ NoCalls' /\ UNCHANGED <<data, meta, inst, pc, buf>>
        /\ sh'[Reader] = 1 /\ sh'[Backup] = sh[Backup]
    BY <1>1, <2>1, FlockStays, ZenonT(30)
  <2>3. sh'[Reader] > 0 /\ step[g] \in Reloading /\ step[g] # "crcDigest"
    BY <1>2, <2>1, <2>2, OnePositive, ZenonT(30)
  <2> QED
    BY <1>2, <2>1, <2>2, <2>3, InReload, ReloadSound, SMTT(30)
<1>4. CASE ReadMeta(g)
  <2>1. /\ step[g] = "meta" /\ build' = [build EXCEPT !.info = meta] /\ Goto(g, "data")
        /\ UNCHANGED <<vars, state, snap, loaded, reloadMu, seen, copy, since, ever>>
    BY <1>4, Zenon DEF ReadMeta, historyVars
  <2>2. Locked' /\ NoCalls' /\ UNCHANGED <<data, meta, inst, pc, buf, sh>>
    BY <2>1, StoreStays, SMTT(30) DEF vars
  <2>3. step[g] \in Reloading /\ step[g] \in Flocked /\ step[g] # "crcDigest"
    BY <1>2, <2>1
  <2>4. build' = [info |-> build'.info, map |-> build'.map] /\ build'.info = meta
    BY <2>1, <2>3, InReload, SMTT(30)
  <2> QED
    BY <1>2, <2>1, <2>2, <2>3, <2>4, InReload, ReloadSound, SMTT(30)
<1>5. CASE ReadData(g)
  <2>1. /\ step[g] = "data" /\ Valid(build.info) /\ Goto(g, "snap")
        /\ build' = [build EXCEPT
                       !.map = <<Contents(Region(data, readActualSize(build.info)))>>]
        /\ UNCHANGED <<vars, state, snap, loaded, reloadMu, seen, copy, since, ever>>
    BY <1>2, <1>5, ZenonT(30) DEF ReadData, historyVars
  <2>2. Locked' /\ NoCalls' /\ UNCHANGED <<data, meta, inst, pc, buf, sh>>
    BY <2>1, StoreStays DEF vars
  <2>3. step[g] \in Reloading /\ step[g] \in Flocked \ {"meta"} /\ step[g] # "crcDigest"
    BY <1>2, <2>1, SMTT(30)
  <2>4. build.info = meta
    BY <2>3 DEF Sound, Frozen
  <2>5. Region(data, readActualSize(build.info)) = meta.crcDigest
    BY <2>1, <2>4 DEF Valid
  <2>6. /\ build' = [info |-> build'.info, map |-> build'.map] /\ build'.info = meta
        /\ build'.map = <<Contents(meta.crcDigest)>>
    BY <2>1, <2>3, <2>4, <2>5, InReload, SMTT(30)
  <2> QED
    BY <1>2, <2>1, <2>2, <2>3, <2>6, InReload, ReloadSound, SMTT(30)
<1>6. CASE ReloadFails(g)
  <2>1. /\ step[g] = "data" /\ flockUnlock(Reader) /\ reloadMu' = "nobody"
        /\ build' = NoBuild /\ state' = (IF state = "opening" THEN "closed" ELSE state)
        /\ Goto(g, IF state = "opening" THEN "idle" ELSE "load")
        /\ UNCHANGED <<snap, loaded, seen, copy, since, ever>>
    BY <1>6, ZenonT(30) DEF ReloadFails, historyVars
  <2>2. Locked' /\ NoCalls' /\ UNCHANGED <<data, meta, inst, pc, buf>> /\ sh'[Backup] = sh[Backup]
    BY <1>1, <2>1, FlockStays, ZenonT(30)
  <2>3. step[g] \in Reloading /\ step[g] # "crcDigest"
    BY <1>2, <2>1, SMTT(30)
  <2>4. build' = [info |-> build'.info, map |-> build'.map]
    BY <2>1, SMTT(30) DEF NoBuild
  <2>5. CASE state = "opening"
    BY <1>2, <2>1, <2>2, <2>3, <2>4, <2>5, InReload, ReloadSound, SMTT(30)
  <2>6. CASE state = "open"
    BY <1>2, <2>1, <2>2, <2>3, <2>4, <2>6, InReload, ReloadSound, SMTT(30)
  <2> QED
    BY <2>3, <2>5, <2>6, InReload, SMTT(30)
<1> QED
  BY <1>3, <1>4, <1>5, <1>6, SMTT(30)

LEMMA PublishSound ==
    ASSUME Sound, NEW g \in Goroutines,
           PublishSnapshot(g) \/ PublishCanary(g) \/ Reloaded(g)
    PROVE  Sound'
<1>1. Reader \in Procs /\ Backup \in {Reader, Backup} \ {Reader}
  BY ReadersAssumption
<1>2. /\ "snap" \in Built \ Published /\ "unlock" \in Canaried
      /\ "crcDigest" \in Published \ Canaried
      /\ {"actualSize", "sequence"} \subseteq Canaried
      /\ NextPublished("snap") = "crcDigest" /\ NextPublished("crcDigest") = "actualSize"
      /\ NextPublished("actualSize") = "sequence" /\ NextPublished("sequence") = "unlock"
      /\ \A s \in {"idle", "load"} : s \notin Flocked /\ s # "crcDigest"
      /\ Canaried \subseteq Published /\ Published \subseteq Built /\ "meta" \notin Built
      /\ Built \subseteq Flocked /\ Flocked \subseteq Reloading /\ "crcDigest" \notin Canaried
  BY DEF Canaried, Published, Built, Flocked, Reloading, NextPublished
<1>3. \A a : <<a>> # <<>> /\ <<a>>[1] = a
  BY SMTT(30)
<1>4. /\ step[g] \in Built => build.info = meta /\ build.map = <<Contents(meta.crcDigest)>>
      /\ step[g] \in Published => snap = <<Contents(meta.crcDigest)>>
      /\ step[g] \in Canaried => loaded.crcDigest = meta.crcDigest
  BY <1>2, SMTT(30) DEF Sound, Frozen
<1>5. CASE PublishSnapshot(g)
  <2>1. /\ step[g] = "snap" /\ snap' = build.map /\ Goto(g, "crcDigest")
        /\ UNCHANGED <<vars, state, loaded, reloadMu, build, seen, copy, since, ever>>
    BY <1>2, <1>5, ZenonT(30) DEF PublishSnapshot, historyVars
  <2>2. Locked' /\ NoCalls' /\ UNCHANGED <<data, meta, inst, pc, buf, sh>>
    BY <2>1, StoreStays, SMTT(30) DEF vars
  <2>3. step[g] \in Reloading /\ step[g] \in Flocked /\ step[g] \in Built
    BY <1>2, <2>1
  <2>4. snap' = <<Contents(meta.crcDigest)>> /\ snap' # <<>> /\ snap'[1] \in ever
    BY <1>3, <1>4, <2>1, <2>3, InReload, ZenonT(30)
  <2> QED
    BY <1>2, <1>4, <2>1, <2>2, <2>3, <2>4, InReload, ReloadSound, SMTT(30)
<1>6. CASE PublishCanary(g)
  <2>1. /\ step[g] \in {"crcDigest", "actualSize", "sequence"}
        /\ loaded' = [loaded EXCEPT ![step[g]] = build.info[step[g]]]
        /\ Goto(g, NextPublished(step[g]))
        /\ UNCHANGED <<vars, state, snap, reloadMu, build, seen, copy, since, ever>>
    BY <1>6, ZenonT(30) DEF PublishCanary, historyVars
  <2>2. Locked' /\ NoCalls' /\ UNCHANGED <<data, meta, inst, pc, buf, sh>>
    BY <2>1, StoreStays, ZenonT(30) DEF vars
  <2>3. step[g] \in Reloading /\ step[g] \in Flocked /\ step[g] \in Published /\ step[g] \in Built
    BY <1>2, <2>1, SMTT(30)
  <2>4. /\ loaded' \in [crcDigest : Seq(Slot), actualSize : Nat, sequence : Nat]
        /\ loaded'.crcDigest = meta.crcDigest
    <3>1. /\ build.info = meta /\ meta \in MetaInfo
          /\ loaded \in [crcDigest : Seq(Slot), actualSize : Nat, sequence : Nat]
      BY <1>4, <2>3, InReload, SMTT(30) DEF Sound, Locked, TypeOK
    <3>2. CASE step[g] = "crcDigest"
      <4>1. loaded' = [loaded EXCEPT !.crcDigest = meta.crcDigest]
        BY <2>1, <3>1, <3>2, ZenonT(30)
      <4> QED
        BY <3>1, <4>1 DEF MetaInfo
    <3>3. CASE step[g] = "actualSize"
      <4>1. loaded' = [loaded EXCEPT !.actualSize = meta.actualSize]
        BY <2>1, <3>1, <3>3, ZenonT(30)
      <4> QED
        BY <1>2, <1>4, <3>1, <3>3, <4>1, SMTT(30) DEF MetaInfo
    <3>4. CASE step[g] = "sequence"
      <4>1. loaded' = [loaded EXCEPT !.sequence = meta.sequence]
        BY <2>1, <3>1, <3>4, ZenonT(30)
      <4> QED
        BY <1>2, <1>4, <3>1, <3>4, <4>1, SMTT(30) DEF MetaInfo
    <3> QED
      BY <2>1, <3>2, <3>3, <3>4, ZenonT(30)
  <2>5. /\ snap' = <<Contents(meta.crcDigest)>> /\ snap' # <<>> /\ snap'[1] \in ever
    BY <1>3, <1>4, <2>1, <2>3, InReload, SMTT(30)
  <2>6. PICK s \in Canaried : Goto(g, s)
    BY <1>2, <2>1, ZenonT(30)
  <2>7. /\ s \in Published /\ s \in Built /\ s \in Flocked /\ s # "crcDigest"
    BY <1>2, <2>6, SMTT(30)
  <2> QED
    BY <1>2, <1>4, <2>1, <2>2, <2>3, <2>4, <2>5, <2>6, <2>7, InReload, ReloadSound, SMTT(30)
<1>7. CASE Reloaded(g)
  <2>1. /\ step[g] = "unlock" /\ flockUnlock(Reader) /\ reloadMu' = "nobody"
        /\ build' = NoBuild /\ state' = "open"
        /\ Goto(g, IF state = "opening" THEN "idle" ELSE "load")
        /\ UNCHANGED <<snap, loaded, seen, copy, since, ever>>
    BY <1>7, ZenonT(30) DEF Reloaded, historyVars
  <2>2. Locked' /\ NoCalls' /\ UNCHANGED <<data, meta, inst, pc, buf>> /\ sh'[Backup] = sh[Backup]
    BY <1>1, <2>1, FlockStays, ZenonT(30)
  <2>3. step[g] \in Reloading /\ step[g] \in Flocked /\ step[g] \in Canaried /\ step[g] \in Published
    BY <1>2, <2>1, ZenonT(30)
  <2>4. build' = [info |-> build'.info, map |-> build'.map]
    BY <2>1, SMTT(30) DEF NoBuild
  <2>5. /\ snap' = <<Contents(loaded'.crcDigest)>> /\ snap' # <<>> /\ snap'[1] \in ever
    BY <1>3, <1>4, <2>1, <2>3, InReload, SMTT(30)
  <2>6. PICK s \in {"idle", "load"} : Goto(g, s)
    BY <2>1, SMTT(30)
  <2> QED
    BY <1>2, <2>1, <2>2, <2>3, <2>4, <2>5, <2>6, InReload, ReloadSound, SMTT(30)
<1> QED
  BY <1>5, <1>6, <1>7, SMTT(30)

LEMMA BackupStepsSound ==
    ASSUME Sound, NEW g \in Goroutines,
           BackupLock(g) \/ CopyData(g) \/ CopyMeta(g) \/ BackupEnd(g)
    PROVE  Sound'
<1>1. Backup \in Procs /\ Reader \in {Reader, Backup} \ {Backup}
  BY ReadersAssumption
<1>2. /\ copy = [data |-> copy.data, info |-> copy.info]
      /\ since = [h \in Goroutines |-> since[h]]
  BY DEF Sound, ReaderTypes
<1>3. step[g] \in Backing =>
         sh[Backup] > 0 /\ \A h \in Goroutines \ {g} : step[h] \notin Backing
  BY DEF Sound, Mutex
<1>4. Backing = {"copyData", "copyMeta", "copied"} /\ "idle" \notin Backing
  BY SMTT(30) DEF Backing
<1>5. CASE BackupLock(g)
  <2>1. /\ step[g] = "idle" /\ NoBackup /\ flockShared(Backup) /\ Goto(g, "copyData")
        /\ since' = [since EXCEPT ![g] = {now, kv}]
        /\ UNCHANGED <<state, snap, loaded, reloadMu, build, seen, copy, ever>>
    BY <1>5, ZenonT(30) DEF BackupLock, BeginSince
  <2>2. /\ Locked' /\ NoCalls' /\ UNCHANGED <<data, meta, inst, pc, buf>>
        /\ sh'[Backup] = 1 /\ sh'[Reader] = sh[Reader]
    BY <1>1, <2>1, FlockStays, ZenonT(30)
  <2>3. /\ sh'[Backup] > 0 /\ \A h \in Goroutines \ {g} : step[h] \notin Backing
    BY <2>1, <2>2, OnePositive, ZenonT(30) DEF NoBackup
  <2>4. since' = [h \in Goroutines |-> since'[h]]
    BY <1>2, <2>1, ZenonT(30)
  <2> QED
    BY <1>2, <1>4, <2>1, <2>2, <2>3, <2>4, BackupSound, SMTT(30)
<1>6. CASE CopyData(g)
  <2>1. /\ step[g] = "copyData" /\ copy' = [copy EXCEPT !.data = data] /\ Goto(g, "copyMeta")
        /\ UNCHANGED <<vars, state, snap, loaded, reloadMu, build, seen, since, ever>>
    BY <1>6, Zenon DEF CopyData, historyVars
  <2>2. Locked' /\ NoCalls' /\ UNCHANGED <<data, meta, inst, pc, buf, sh>>
    BY <2>1, StoreStays DEF vars
  <2>3. copy' = [data |-> copy'.data, info |-> copy'.info] /\ copy'.data = data
    BY <1>2, <2>1
  <2> QED
    BY <1>2, <1>3, <1>4, <2>1, <2>2, <2>3, BackupSound, SMTT(30)
<1>7. CASE CopyMeta(g)
  <2>1. /\ step[g] = "copyMeta" /\ copy' = [copy EXCEPT !.info = meta] /\ Goto(g, "copied")
        /\ UNCHANGED <<vars, state, snap, loaded, reloadMu, build, seen, since, ever>>
    BY <1>7, Zenon DEF CopyMeta, historyVars
  <2>2. Locked' /\ NoCalls' /\ UNCHANGED <<data, meta, inst, pc, buf, sh>>
    BY <2>1, StoreStays DEF vars
  <2>3. /\ copy' = [data |-> copy'.data, info |-> copy'.info] /\ copy'.info = meta
        /\ copy'.data = copy.data
    BY <1>2, <2>1
  <2>4. copy'.data = data
    BY <2>1, <2>3 DEF Sound, Frozen
  <2> QED
    BY <1>2, <1>3, <1>4, <2>1, <2>2, <2>3, <2>4, BackupSound, SMTT(30)
<1>8. CASE BackupEnd(g)
  <2>1. /\ step[g] \in Backing /\ flockUnlock(Backup) /\ copy' = NoCopy /\ Goto(g, "idle")
        /\ since' = [since EXCEPT ![g] = {}]
        /\ UNCHANGED <<state, snap, loaded, reloadMu, build, seen, ever>>
    BY <1>8, ZenonT(30) DEF BackupEnd, EndSince
  <2>2. /\ Locked' /\ NoCalls' /\ UNCHANGED <<data, meta, inst, pc, buf>>
        /\ sh'[Reader] = sh[Reader]
    BY <1>1, <2>1, FlockStays, SMTT(30)
  <2>3. copy' = [data |-> copy'.data, info |-> copy'.info]
    BY <2>1 DEF NoCopy
  <2>4. since' = [h \in Goroutines |-> since'[h]]
    BY <1>2, <2>1, ZenonT(30)
  <2> QED
    BY <1>3, <1>4, <2>1, <2>2, <2>3, <2>4, BackupSound, ZenonT(30)
<1> QED
  BY <1>5, <1>6, <1>7, <1>8

LEMMA CloseSound ==
    ASSUME Sound, Close
    PROVE  Sound'
<1>1. /\ \A g \in Goroutines : step[g] = "idle"
      /\ state' = "closed" /\ snap' = <<>> /\ loaded' = NoCanary
      /\ UNCHANGED <<vars, reloadMu, build, step, seen, copy, since, ever>>
  BY Zenon DEF Close, historyVars
<1>2. Locked' /\ NoCalls' /\ UNCHANGED <<data, meta, inst, pc, buf, sh>>
  BY <1>1, StoreStays, SMTT(30) DEF vars
<1>3. loaded' \in [crcDigest : Seq(Slot), actualSize : Nat, sequence : Nat]
  BY <1>1 DEF NoCanary
<1>4. ReaderTypes'
  BY <1>1, <1>3, ZenonT(30) DEF Sound, ReaderTypes
<1>5. Counted'
  BY <1>1, ZenonT(30) DEF Sound, Counted
<1>6. "idle" \notin Reading \cup Reloading \cup Backing /\ "idle" \notin Flocked
  BY Places
<1>7. Mutex'
  BY <1>1, <1>6, SMTT(30) DEF Mutex
<1>8. Frozen'
  BY <1>1, <1>6, Places, SMTT(30) DEF Frozen
<1>9. Publication'
  BY <1>1 DEF Publication
<1>10. Commits'
  BY <1>1, <1>2, CommitsStay, SMTT(30) DEF Sound
<1> QED
  BY <1>2, <1>4, <1>5, <1>7, <1>8, <1>9, <1>10, SMTT(30) DEF Sound

-----------------------------------------------------------------------------
(***************************************************************************)
(* The steps of a goroutine keep Timely.                                   *)
(***************************************************************************)
\* A load of the digest returns that of the last completed write or of the one
\* under way.
LEMMA LiveDigest ==
    ASSUME Sound, Basics, Known, NEW x \in LiveField("crcDigest")
    PROVE  Contents(x) \in {now, kv}
<1>1. Writers \subseteq Procs /\ Commits /\ TypeOK
  BY DEF Writers, Sound, Locked
<1>2. \A p \in Writers : Writing(p) => kv = Contents(Pending(p))
  BY <1>1, OneWriter, MapWhileWriting, SMTT(30)
<1>3. CASE x = meta.crcDigest
  <2>1. CASE NoneSizing
    BY <1>3, <2>1, SMTT(30) DEF Known
  <2>2. CASE ~NoneSizing
    <3>1. PICK p \in Writers : pc[p] = "size"
      BY <2>2 DEF NoneSizing
    <3>2. meta.crcDigest = inst[p].crcDigest
      BY <1>1, <3>1, SMTT(30) DEF Commits
    <3>3. Writing(p) /\ Pending(p) = inst[p].crcDigest
      BY <3>1 DEF Writing, Pending
    <3> QED
      BY <1>2, <1>3, <3>2, <3>3, SMTT(30)
  <2> QED
    BY <2>1, <2>2
<1>4. ASSUME NEW p \in Writers, pc[p] = "meta", x = NextInfo(inst[p]).crcDigest
      PROVE  Contents(x) \in {now, kv}
  <2>1. inst[p] \in Instance /\ inst[p].info \in MetaInfo
    BY <1>1 DEF TypeOK, Instance
  <2>2. x = inst[p].crcDigest
    BY <1>4, <2>1, SMTT(30) DEF NextInfo, MetaInfo
  <2>3. inst[p].crcDigest = buf[p]
    BY <1>1, <1>4, SMTT(30) DEF Commits
  <2>4. Writing(p) /\ Pending(p) = buf[p]
    BY <1>4, SMTT(30) DEF Writing, Pending
  <2> QED
    BY <1>2, <2>2, <2>3, <2>4, SMTT(30)
<1>5. x = meta.crcDigest \/ \E p \in Writers : pc[p] = "meta" /\ x = NextInfo(inst[p]).crcDigest
  BY SMTT(30) DEF LiveField
<1> QED
  BY <1>3, <1>4, <1>5, SMTT(30)

LEMMA SinceStays ==
    ASSUME NEW g \in Goroutines, Since(g), now' = now, kv' = kv, since'[g] = since[g],
           \/ step'[g] \notin Reading \cup Backing \cup Reloading
           \/ step'[g] \in Reloading /\ state' # "open"
           \/ step[g] \in Reading \cup Backing
           \/ step[g] \in Reloading /\ state = "open"
    PROVE  Since(g)'
<1>1. \/ ~(step'[g] \in Reading \cup Backing \/ (step'[g] \in Reloading /\ state' = "open"))
      \/ since[g] # {}
  BY Places DEF Since
<1> QED
  BY <1>1, SMTT(30) DEF Since

LEMMA TimelyStep ==
    ASSUME Timely, ~died, died' = died, Basics', Coherent', kv' = kv, now' = now,
           UNCHANGED <<meta, pc>>, NEW g \in Goroutines, Since(g)', Probed(g)',
           \A h \in Goroutines \ {g} :
              /\ step'[h] = step[h] /\ since'[h] = since[h] /\ seen'[h] = seen[h]
              /\ step[h] \in Reloading /\ state' = "open" => state = "open",
           snap' = snap \/ snap'[1] = now
    PROVE  Timely'
<1>1. Known /\ \A h \in Goroutines : Since(h) /\ Probed(h)
  BY SMTT(30) DEF Timely
<1>2. Known'
  BY <1>1, SMTT(30) DEF Known, NoneSizing
<1>3. ASSUME NEW h \in Goroutines \ {g} PROVE Since(h)' /\ Probed(h)'
  <2>1. Since(h)'
    BY <1>1, SMTT(30) DEF Since
  <2>2. step[h] \in {"probe", "compare", "load"} => now \in since[h]
    BY <1>1, SMTT(30) DEF Since, Reading
  <2>3. Probed(h)'
    BY <1>1, <2>2, ZenonT(30) DEF Probed
  <2> QED
    BY <2>1, <2>3, ZenonT(30)
<1> QED
  BY <1>2, <1>3, ZenonT(30) DEF Timely

\* Under the flock the digest in the meta file is that of the last completed
\* write, and a loader accepts it.
LEMMA FlockKnown ==
    ASSUME Sound, Coherent, Known, NEW f \in {Reader, Backup}, sh[f] > 0
    PROVE  now = Contents(meta.crcDigest) /\ Valid(meta)
           /\ Region(data, readActualSize(meta)) = meta.crcDigest
<1>1. NoneSizing /\ Quiet
  BY FlockQuiet
<1> QED
  BY <1>1, QuietAccepts, SMTT(30) DEF Known, Coherent, Sound, Locked

\* What a reader that starts the comparisons now would return.
LEMMA SnapIsTimely ==
    ASSUME Sound, Coherent, Known, state = "open"
    PROVE  snap = <<Contents(loaded.crcDigest)>> \/ snap = <<now>>
<1>1. CASE Stable
  BY <1>1, SMTT(30) DEF Sound, Publication
<1>2. CASE ~Stable
  <2>1. PICK g \in Goroutines : step[g] = "crcDigest"
    BY <1>2, SMTT(30) DEF Stable
  <2>2. snap = <<Contents(meta.crcDigest)>> /\ sh[Reader] > 0
    BY <2>1, Places, SMTT(30) DEF Sound, Frozen, Mutex
  <2> QED
    BY <2>2, FlockKnown, SMTT(30)
<1> QED
  BY <1>1, <1>2, SMTT(30)

LEMMA ReadTimely ==
    ASSUME Sound, Timely, ~died, NEW g \in Goroutines,
           Open(g) \/ Begin(g) \/ Probe(g) \/ Fresh(g) \/ Stale(g) \/ LockReload(g) \/ Return(g)
    PROVE  Timely'
<1>1. /\ Basics /\ Coherent /\ Known /\ Since(g) /\ Probed(g) /\ ReaderTypes
      /\ seen \in [Goroutines -> Seq(Loads)] /\ since = [h \in Goroutines |-> since[h]]
  BY DEF Timely, Sound, ReaderTypes
<1>2. UNCHANGED vars /\ snap' = snap /\ now' = now /\ died' = died
  BY ZenonT(30) DEF Open, Begin, Probe, Fresh, Stale, LockReload, Return, historyVars
<1>3. Basics' /\ Coherent' /\ kv' = kv /\ UNCHANGED <<meta, pc>>
  BY <1>1, <1>2, StoreStays, SMTT(30) DEF vars
<1>4. /\ step[g] = "probe" => Len(seen[g]) <= 2
      /\ step[g] = "compare" => Len(seen[g]) \in 1..3
      /\ step[g] \notin {"probe", "compare"} => seen[g] = <<>>
      /\ seen[g] \in Seq(Loads) /\ Len(<<>>) = 0
  BY <1>1, SMTT(30) DEF Sound, Counted
<1>5. /\ Reading = {"probe", "compare", "mutex", "load"} /\ "flock" \notin Reading
      /\ "idle" \notin Reading \cup Backing \cup Reloading /\ "flock" \notin Backing
  BY Places, SMTT(30) DEF Reading
<1>6. step[g] \in Reading => state = "open" /\ since[g] # {} /\ {now, kv} \subseteq since[g]
  BY <1>1, SMTT(30) DEF Sound, Mutex, Since
<1>7. ASSUME NEW s, Goto(g, s), UNCHANGED <<seen, since>>, s \in {"flock", "idle"},
             state' # "open" \/ step[g] \in Reading, state' = "open" => state = "open"
      PROVE  Timely'
  <2>1. step'[g] = s /\ \A h \in Goroutines \ {g} : step'[h] = step[h]
    BY <1>1, <1>7, Walks, SMTT(30)
  <2>2. Probed(g)'
    BY <1>7, <2>1, ZenonT(30) DEF Probed
  <2>3. Since(g)'
    BY <1>1, <1>2, <1>3, <1>5, <1>7, <2>1, SinceStays, SMTT(30)
  <2> QED
    BY <1>2, <1>3, <1>7, <2>1, <2>2, <2>3, TimelyStep, SMTT(30)
<1>8. CASE Open(g)
  BY <1>7, <1>8, SMTT(30) DEF Open, historyVars
<1>9. CASE Begin(g)
  <2>1. /\ step[g] = "idle" /\ Goto(g, "probe") /\ since' = [since EXCEPT ![g] = {now, kv}]
        /\ UNCHANGED <<state, seen>>
    BY <1>9, ZenonT(30) DEF Begin, BeginSince
  <2>2. step'[g] = "probe" /\ \A h \in Goroutines \ {g} : step'[h] = step[h]
    BY <1>1, <2>1, Walks, SMTT(30)
  <2>3. since'[g] = {now, kv} /\ \A h \in Goroutines \ {g} : since'[h] = since[h]
    BY <1>1, <2>1, SMTT(30)
  <2>4. Since(g)'
    BY <1>2, <1>3, <2>3, ZenonT(30) DEF Since
  <2>5. Probed(g)'
    BY <1>4, <2>1, <2>2, ZenonT(30) DEF Probed
  <2> QED
    BY <1>2, <1>3, <2>1, <2>2, <2>3, <2>4, <2>5, TimelyStep, ZenonT(30)
<1>10. CASE Probe(g)
  <2>1. PICK x \in LiveField(Canary[Len(seen[g]) + 1]) :
                seen' = [seen EXCEPT ![g] = Append(@, x)]
    BY <1>10, ZenonT(30) DEF Probe
  <2>2. /\ step[g] = "probe" /\ UNCHANGED <<state, since>>
        /\ Goto(g, IF Len(seen[g]) = 2 THEN "compare" ELSE "probe")
    BY <1>10, ZenonT(30) DEF Probe, historyVars
  <2>3. /\ step'[g] = (IF Len(seen[g]) = 2 THEN "compare" ELSE "probe")
        /\ \A h \in Goroutines \ {g} : step'[h] = step[h]
    BY <1>1, <2>2, Walks, SMTT(30)
  <2>4. seen'[g] = Append(seen[g], x) /\ \A h \in Goroutines \ {g} : seen'[h] = seen[h]
    BY <1>1, <2>1, SMTT(30)
  <2>5. Since(g)'
    BY <1>1, <1>2, <1>3, <1>5, <2>2, SinceStays, SMTT(30)
  <2>6. Contents(seen'[g][1]) \in since'[g]
    <3>1. CASE seen[g] = <<>>
      <4>1. x \in LiveField("crcDigest") /\ seen'[g][1] = x
        BY <1>4, <2>1, <2>4, <3>1, CanaryFields, SMTT(30)
      <4>2. Contents(x) \in {now, kv}
        BY <1>1, <4>1, LiveDigest, SMTT(30)
      <4> QED
        BY <1>5, <1>6, <2>2, <4>1, <4>2, ZenonT(30)
    <3>2. CASE seen[g] # <<>>
      <4>1. seen'[g][1] = seen[g][1]
        BY <1>4, <2>4, <3>2, SMTT(30)
      <4> QED
        BY <1>1, <2>2, <3>2, <4>1, SMTT(30) DEF Probed
    <3> QED
      BY <3>1, <3>2, ZenonT(30)
  <2>7. step'[g] = "compare" => Len(seen'[g]) = 3
    BY <1>4, <2>3, <2>4, SMTT(30)
  <2>8. step'[g] # "load"
    BY <2>3, ZenonT(30)
  <2>9. Probed(g)'
    BY <2>6, <2>7, <2>8, UpToThree, ZenonT(30) DEF Probed
  <2> QED
    BY <1>2, <1>3, <2>2, <2>3, <2>4, <2>5, <2>9, TimelyStep, ZenonT(30)
<1>11. CASE Fresh(g)
  <2>1. /\ step[g] = "compare" /\ Matches(g) /\ seen' = [seen EXCEPT ![g] = Tail(@)]
        /\ UNCHANGED <<state, since>>
        /\ Goto(g, IF Len(seen[g]) > 1 THEN "compare" ELSE "load")
    BY <1>11, ZenonT(30) DEF Fresh, historyVars
  <2>2. /\ step'[g] = (IF Len(seen[g]) > 1 THEN "compare" ELSE "load")
        /\ \A h \in Goroutines \ {g} : step'[h] = step[h]
    BY <1>1, <2>1, Walks, SMTT(30)
  <2>3. seen'[g] = Tail(seen[g]) /\ \A h \in Goroutines \ {g} : seen'[h] = seen[h]
    BY <1>1, <2>1, SMTT(30)
  <2>4. Since(g)'
    BY <1>1, <1>2, <1>3, <1>5, <2>1, SinceStays, SMTT(30)
  <2>5. snap[1] \in since[g]
    <3>1. CASE Len(seen[g]) = 3
      <4>1. Head(seen[g]) = seen[g][1] /\ Canary[4 - Len(seen[g])] = "crcDigest"
        BY <1>4, <3>1, CanaryFields, SMTT(30)
      <4>2. seen[g][1] = loaded.crcDigest
        BY <2>1, <4>1, ZenonT(30) DEF Matches
      <4>3. Contents(loaded.crcDigest) \in since[g]
        BY <1>1, <2>1, <3>1, <4>2, SMTT(30) DEF Probed
      <4>4. snap[1] = Contents(loaded.crcDigest) \/ snap[1] = now
        BY <1>1, <1>5, <1>6, <2>1, SnapIsTimely, SMTT(30)
      <4> QED
        BY <1>5, <1>6, <2>1, <4>3, <4>4, ZenonT(30)
    <3>2. CASE Len(seen[g]) < 3
      BY <1>1, <2>1, <3>2, SMTT(30) DEF Probed
    <3> QED
      BY <1>4, <2>1, <3>1, <3>2, UpToThree, ZenonT(30)
  <2>6. Len(seen'[g]) # 3
    <3>1. Len(seen[g]) \in 1..3
      BY <1>4, <2>1, ZenonT(30)
    <3>2. Len(Tail(seen[g])) = Len(seen[g]) - 1
      BY <1>4, <3>1, TailOf, ZenonT(30)
    <3> QED
      BY <2>3, <3>1, <3>2, UpToThree, ZenonT(30)
  <2>7. Probed(g)'
    BY <1>2, <2>1, <2>2, <2>5, <2>6, SMTT(30) DEF Probed
  <2> QED
    BY <1>2, <1>3, <2>1, <2>2, <2>3, <2>4, <2>7, TimelyStep, ZenonT(30)
<1>12. CASE Stale(g)
  <2>1. /\ step[g] = "compare" /\ seen' = [seen EXCEPT ![g] = <<>>] /\ UNCHANGED <<state, since>>
        /\ Goto(g, IF reloadMu = g THEN "flock" ELSE "mutex")
    BY <1>12, ZenonT(30) DEF Stale, historyVars
  <2>2. /\ step'[g] \in {"flock", "mutex"} /\ \A h \in Goroutines \ {g} : step'[h] = step[h]
    BY <1>1, <2>1, Walks, SMTT(30)
  <2>3. \A h \in Goroutines \ {g} : seen'[h] = seen[h]
    BY <1>1, <2>1, SMTT(30)
  <2>4. Since(g)'
    BY <1>1, <1>2, <1>3, <1>5, <2>1, SinceStays, SMTT(30)
  <2>5. Probed(g)'
    BY <2>2, SMTT(30) DEF Probed
  <2> QED
    BY <1>2, <1>3, <2>1, <2>2, <2>3, <2>4, <2>5, TimelyStep, SMTT(30)
<1>13. CASE LockReload(g)
  <2>1. /\ step[g] = "mutex" /\ UNCHANGED <<state, since, seen>> /\ Goto(g, "probe")
    BY <1>13, ZenonT(30) DEF LockReload, historyVars
  <2>2. /\ step'[g] = "probe" /\ \A h \in Goroutines \ {g} : step'[h] = step[h]
    BY <1>1, <2>1, Walks, SMTT(30)
  <2>3. Since(g)'
    BY <1>1, <1>2, <1>3, <1>5, <2>1, SinceStays, SMTT(30)
  <2>4. Probed(g)'
    BY <1>4, <2>1, <2>2, ZenonT(30) DEF Probed
  <2> QED
    BY <1>2, <1>3, <2>1, <2>2, <2>3, <2>4, TimelyStep, ZenonT(30)
<1>14. CASE Return(g)
  <2>1. /\ step[g] = "load" /\ Goto(g, "idle") /\ since' = [since EXCEPT ![g] = {}]
        /\ UNCHANGED <<state, seen>>
    BY <1>14, ZenonT(30) DEF Return, EndSince
  <2>2. /\ step'[g] = "idle" /\ \A h \in Goroutines \ {g} : step'[h] = step[h]
    BY <1>1, <2>1, Walks, SMTT(30)
  <2>3. since'[g] = {} /\ \A h \in Goroutines \ {g} : since'[h] = since[h]
    BY <1>1, <2>1, SMTT(30)
  <2>4. Since(g)' /\ Probed(g)'
    BY <1>5, <2>2, <2>3, ZenonT(30) DEF Since, Probed
  <2> QED
    BY <1>2, <1>3, <2>1, <2>2, <2>3, <2>4, TimelyStep, ZenonT(30)
<1> QED
  BY <1>8, <1>9, <1>10, <1>11, <1>12, <1>13, <1>14, SMTT(30)

LEMMA ReloadTimely ==
    ASSUME Sound, Timely, ~died, NEW g \in Goroutines,
           \/ LockFile(g) \/ ReadMeta(g) \/ ReadData(g) \/ ReloadFails(g)
           \/ PublishSnapshot(g) \/ PublishCanary(g) \/ Reloaded(g)
    PROVE  Timely'
<1>1. /\ Basics /\ Coherent /\ Known /\ Since(g) /\ ReaderTypes
      /\ Reader \in {Reader, Backup}
  BY DEF Timely, Sound
<1>2. UNCHANGED <<seen, since, now, died>> /\ step[g] \in Reloading
  BY Zenon DEF LockFile, ReadMeta, ReadData, ReloadFails, PublishSnapshot, PublishCanary,
     Reloaded, historyVars, Reloading, Flocked, Built, Published, Canaried
<1>3. Basics' /\ Coherent' /\ kv' = kv /\ UNCHANGED <<meta, pc>>
  <2>1. CASE UNCHANGED vars
    BY <1>1, <2>1, StoreStays, SMTT(30) DEF vars
  <2>2. CASE flockShared(Reader) \/ flockUnlock(Reader)
    BY <1>1, <2>2, FlockStays, SMTT(30)
  <2> QED
    BY <2>1, <2>2, ZenonT(30) DEF LockFile, ReadMeta, ReadData, ReloadFails, PublishSnapshot,
       PublishCanary, Reloaded
<1>4. \A h \in Goroutines \ {g} : step[h] \notin Reloading
  BY <1>2, ReloadsAlone, SMTT(30) DEF Sound
<1>5. /\ {"meta", "data", "snap", "crcDigest", "actualSize", "sequence", "unlock"} = Flocked
      /\ "crcDigest" \in Published /\ "unlock" \in Published /\ "snap" \in Built
      /\ "data" \in Flocked \ {"meta"} /\ Flocked \subseteq Reloading
      /\ \A s \in Flocked : s \notin {"probe", "compare", "load"}
      /\ "idle" \notin Reading \cup Backing \cup Reloading
  BY Places, SMTT(30) DEF Canaried, Published, Built, Flocked, Reloading
<1>6. step[g] \in Flocked => now = Contents(meta.crcDigest) /\ Valid(meta)
  BY <1>1, FlockKnown, SMTT(30) DEF Sound, Mutex
<1>7. ASSUME NEW s, Goto(g, s), s \in Flocked, state' = state, snap' = snap \/ snap'[1] = now
      PROVE  Timely'
  <2>1. step'[g] = s /\ \A h \in Goroutines \ {g} : step'[h] = step[h]
    BY <1>1, <1>7, Walks, ZenonT(30)
  <2>2. Probed(g)'
    BY <1>5, <1>7, <2>1, ZenonT(30) DEF Probed
  <2>3. Since(g)'
    <3>1. s \in Reloading
      BY <1>5, <1>7
    <3> QED
      BY <1>1, <1>2, <1>3, <1>7, <2>1, <3>1, SinceStays, ZenonT(30)
  <2> QED
    BY <1>2, <1>3, <1>4, <1>7, <2>1, <2>2, <2>3, TimelyStep, ZenonT(30)
<1>8. CASE LockFile(g)
  BY <1>5, <1>7, <1>8, ZenonT(30) DEF LockFile
<1>9. CASE ReadMeta(g)
  BY <1>5, <1>7, <1>9, ZenonT(30) DEF ReadMeta
<1>10. CASE ReadData(g)
  <2>1. Goto(g, "snap") /\ UNCHANGED <<state, snap>>
    BY <1>10, SMTT(30) DEF ReadData, NextPublished
  <2> QED
    BY <1>5, <1>7, <2>1, ZenonT(30)
<1>11. CASE ReloadFails(g)
  <2>1. step[g] = "data" /\ ~Valid(build.info)
    BY <1>11, ZenonT(30) DEF ReloadFails
  <2>2. build.info = meta
    BY <1>5, <2>1 DEF Sound, Frozen
  <2> QED
    BY <1>5, <1>6, <2>1, <2>2, SMTT(30)
<1>12. CASE PublishSnapshot(g)
  <2>1. step[g] = "snap" /\ Goto(g, "crcDigest") /\ snap' = build.map /\ state' = state
    BY <1>12, SMTT(30) DEF PublishSnapshot, NextPublished
  <2>2. build.map = <<Contents(meta.crcDigest)>>
    BY <1>5, <2>1, SMTT(30) DEF Sound, Frozen
  <2>3. snap'[1] = now
    BY <1>5, <1>6, <2>1, <2>2, SMTT(30)
  <2> QED
    BY <1>5, <1>7, <2>1, <2>3, ZenonT(30)
<1>13. CASE PublishCanary(g)
  <2>1. /\ step[g] \in {"crcDigest", "actualSize", "sequence"} /\ Goto(g, NextPublished(step[g]))
        /\ UNCHANGED <<state, snap>>
    BY <1>13, ZenonT(30) DEF PublishCanary
  <2>2. NextPublished(step[g]) \in Flocked
    BY <1>5, <2>1, SMTT(30) DEF NextPublished
  <2> QED
    BY <1>7, <2>1, <2>2, ZenonT(30)
<1>14. CASE Reloaded(g)
  <2>1. /\ step[g] = "unlock" /\ state' = "open" /\ snap' = snap
        /\ Goto(g, IF state = "opening" THEN "idle" ELSE "load")
    BY <1>14, ZenonT(30) DEF Reloaded
  <2>2. /\ step'[g] = (IF state = "opening" THEN "idle" ELSE "load")
        /\ \A h \in Goroutines \ {g} : step'[h] = step[h]
    BY <1>1, <2>1, Walks, ZenonT(30)
  <2>3. snap[1] = now
    <3>1. snap = <<Contents(meta.crcDigest)>>
      BY <1>5, <2>1, SMTT(30) DEF Sound, Frozen
    <3> QED
      BY <1>5, <1>6, <2>1, <3>1, SMTT(30)
  <2>4. state \in {"opening", "open"}
    BY <1>2, InReload, SMTT(30)
  <2>5. state = "open" => now \in since[g]
    BY <1>1, <1>2, ZenonT(30) DEF Since
  <2>6. Since(g)'
    BY <1>1, <1>2, <1>3, <1>5, <2>2, <2>4, SinceStays, ZenonT(30)
  <2>7. Probed(g)'
    BY <1>2, <2>1, <2>2, <2>3, <2>4, <2>5, ZenonT(30) DEF Probed
  <2> QED
    BY <1>2, <1>3, <1>4, <2>1, <2>2, <2>6, <2>7, TimelyStep, SMTT(30)
<1> QED
  BY <1>8, <1>9, <1>10, <1>11, <1>12, <1>13, <1>14, SMTT(30)

LEMMA BackupTimely ==
    ASSUME Sound, Timely, ~died, NEW g \in Goroutines,
           BackupLock(g) \/ CopyData(g) \/ CopyMeta(g) \/ BackupEnd(g)
    PROVE  Timely'
<1>1. /\ Basics /\ Coherent /\ Known /\ Since(g) /\ ReaderTypes
      /\ Backup \in {Reader, Backup} /\ since = [h \in Goroutines |-> since[h]]
  BY DEF Timely, Sound, ReaderTypes
<1>2. UNCHANGED <<seen, now, died, snap, state>>
  BY Zenon DEF BackupLock, CopyData, CopyMeta, BackupEnd, historyVars
<1>3. Basics' /\ Coherent' /\ kv' = kv /\ UNCHANGED <<meta, pc>>
  <2>1. CASE UNCHANGED vars
    BY <1>1, <2>1, StoreStays, SMTT(30) DEF vars
  <2>2. CASE flockShared(Backup) \/ flockUnlock(Backup)
    BY <1>1, <2>2, FlockStays, SMTT(30)
  <2> QED
    BY <2>1, <2>2, ZenonT(30) DEF BackupLock, CopyData, CopyMeta, BackupEnd
<1>4. Backing = {"copyData", "copyMeta", "copied"}
  BY SMTT(30) DEF Backing
<1>5. ASSUME NEW s \in {"idle"} \cup Backing, Goto(g, s),
             /\ since'[g] # {} => {now, kv} \subseteq since'[g]
             /\ s \in Backing => since'[g] # {}
             /\ \A h \in Goroutines \ {g} : since'[h] = since[h]
      PROVE  Timely'
  <2>1. step'[g] = s /\ \A h \in Goroutines \ {g} : step'[h] = step[h]
    BY <1>1, <1>5, Walks, SMTT(30)
  <2>2. /\ s \notin Reading /\ s \notin Reloading /\ s \notin {"probe", "compare", "load"}
    BY <1>4, Places, SMTT(30)
  <2>3. Since(g)'
    BY <1>2, <1>3, <1>5, <2>1, <2>2, SMTT(30) DEF Since
  <2>4. Probed(g)'
    BY <2>1, <2>2, SMTT(30) DEF Probed
  <2> QED
    BY <1>2, <1>3, <1>5, <2>1, <2>3, <2>4, TimelyStep, ZenonT(30)
<1>6. CASE BackupLock(g)
  <2>1. Goto(g, "copyData") /\ since' = [since EXCEPT ![g] = {now, kv}]
    BY <1>6, ZenonT(30) DEF BackupLock, BeginSince
  <2>2. since'[g] = {now, kv} /\ \A h \in Goroutines \ {g} : since'[h] = since[h]
    BY <1>1, <2>1, SMTT(30)
  <2> QED
    BY <1>4, <1>5, <2>1, <2>2, SMTT(30)
<1>7. CASE CopyData(g) \/ CopyMeta(g)
  <2>1. /\ step[g] \in Backing /\ since' = since
        /\ Goto(g, "copyMeta") \/ Goto(g, "copied")
    BY <1>4, <1>7, ZenonT(30) DEF CopyData, CopyMeta, historyVars
  <2>2. since[g] # {} /\ {now, kv} \subseteq since[g]
    BY <1>1, <2>1, SMTT(30) DEF Since
  <2> QED
    BY <1>4, <1>5, <2>1, <2>2, ZenonT(30)
<1>8. CASE BackupEnd(g)
  <2>1. Goto(g, "idle") /\ since' = [since EXCEPT ![g] = {}]
    BY <1>8, ZenonT(30) DEF BackupEnd, EndSince
  <2>2. since'[g] = {} /\ \A h \in Goroutines \ {g} : since'[h] = since[h]
    BY <1>1, <2>1, SMTT(30)
  <2> QED
    BY <1>4, <1>5, <2>1, <2>2, SMTT(30)
<1> QED
  BY <1>6, <1>7, <1>8, SMTT(30)

LEMMA CloseTimely ==
    ASSUME Sound, Timely, ~died, Close
    PROVE  Timely'
<1>1. /\ \A g \in Goroutines : step[g] = "idle"
      /\ UNCHANGED <<vars, step, seen, now, since, died>>
  BY Zenon DEF Close, historyVars
<1>2. /\ Basics /\ Coherent /\ Known /\ \A g \in Goroutines : Since(g) /\ Probed(g)
  BY DEF Timely
<1>3. Basics' /\ Coherent' /\ kv' = kv /\ UNCHANGED <<meta, pc>>
  BY <1>1, <1>2, StoreStays, SMTT(30) DEF vars
<1>4. Known'
  BY <1>1, <1>2, <1>3, SMTT(30) DEF Known, NoneSizing
<1>5. "idle" \notin Reading \cup Backing \cup Reloading
  BY Places, SMTT(30)
<1>6. \A g \in Goroutines : Since(g)'
  BY <1>1, <1>2, <1>3, <1>5, SMTT(30) DEF Since
<1>7. \A g \in Goroutines : Probed(g)'
  BY <1>1 DEF Probed
<1> QED
  BY <1>3, <1>4, <1>6, <1>7, SMTT(30) DEF Timely

-----------------------------------------------------------------------------
(***************************************************************************)
(* The two invariants hold.                                                *)
(***************************************************************************)
LEMMA ReadersInitHolds == ReadersInit => Sound /\ Timely
<1> SUFFICES ASSUME ReadersInit PROVE Sound /\ Timely
  OBVIOUS
<1>1. Init
  BY DEF ReadersInit, Init, versionFlag
<1>2. Basics /\ Coherent /\ Locked
  BY <1>1, InitBasics, InitCoherent, BasicsAre, SMTT(30)
<1>3. \A p \in Procs : pc[p] = "idle" /\ ex[p] = 0
  BY <1>1 DEF Init, InitWith
<1>4. Quiet /\ NoneSizing
  BY <1>3, SMTT(30) DEF Quiet, Torn, NoneSizing, Writers
<1>5. now = Contents(meta.crcDigest) /\ now \in ever
  BY <1>2, <1>4, SMTT(30) DEF ReadersInit, Coherent, FileInv
<1>6. NoCalls
  BY <1>3, ReadersAssumption, SMTT(30) DEF NoCalls
<1>7. /\ state = "closed" /\ snap = <<>> /\ loaded = NoCanary /\ build = NoBuild
      /\ step = [g \in Goroutines |-> "idle"] /\ seen = [g \in Goroutines |-> <<>>]
      /\ copy = NoCopy /\ since = [g \in Goroutines |-> {}]
  BY SMTT(30) DEF ReadersInit
<1>8. ReaderTypes
  BY <1>7 DEF ReaderTypes, NoCanary, NoBuild, NoCopy
<1>9. \A g \in Goroutines : step[g] = "idle" /\ seen[g] = <<>> /\ since[g] = {}
  BY <1>7, SMTT(30)
<1>10. /\ "idle" \notin Reading \cup Backing \cup Reloading /\ "idle" \notin Flocked
       /\ "idle" \notin Built /\ "idle" \notin Published /\ "idle" \notin Canaried
  BY Places, SMTT(30)
<1>11. Counted /\ Mutex
  BY <1>9, <1>10, SMTT(30) DEF Counted, Mutex
<1>12. Frozen /\ Publication
  BY <1>7, <1>9, <1>10, SMTT(30) DEF Frozen, Publication
<1>13. Commits
  BY <1>3, <1>5, <1>7, SMTT(30) DEF Commits, Writers
<1>14. Sound
  BY <1>2, <1>6, <1>8, <1>11, <1>12, <1>13, SMTT(30) DEF Sound
<1>15. \A g \in Goroutines : Since(g) /\ Probed(g)
  BY <1>9, <1>10, SMTT(30) DEF Since, Probed
<1>16. Timely
  BY <1>2, <1>5, <1>15, SMTT(30) DEF Timely, Known
<1> QED
  BY <1>14, <1>16

LEMMA ReadersNextHolds == Sound /\ Timely /\ [ReadersNext]_allVars => Sound' /\ Timely'
<1> SUFFICES ASSUME Sound, Timely, [ReadersNext]_allVars PROVE Sound' /\ Timely'
  OBVIOUS
<1>1. CASE UNCHANGED allVars
  <2>1. UNCHANGED <<vars, readerVars, copy, now, ever, since, died>>
    BY <1>1, SMTT(30) DEF allVars, historyVars
  <2>2. UNCHANGED <<data, meta, inst, ex, sh, pc, op, buf, res, state, snap, loaded, reloadMu,
                    build, step, seen>>
    BY <2>1 DEF vars, readerVars
  <2>3. /\ Locked' /\ NoCalls' /\ (Basics => Basics') /\ (Basics /\ Coherent => Coherent')
        /\ kv' = kv
    BY <2>1, StoreStays, SMTT(30)
  <2>4. ReaderTypes' /\ Counted' /\ Mutex' /\ Frozen' /\ Publication'
    BY <2>1, <2>2, <2>3, ReadersUnmoved, SMTT(30) DEF Sound, ReaderTypes
  <2>5. Commits'
    BY <2>1, <2>2, CommitsStay, ZenonT(30) DEF Sound, Commits
  <2>6. Sound'
    BY <2>3, <2>4, <2>5, SMTT(30) DEF Sound
  <2>7. Known => Known'
    BY <2>1, <2>2, SMTT(30) DEF Known, NoneSizing
  <2>8. ASSUME NEW g \in Goroutines PROVE (Since(g) => Since(g)') /\ (Probed(g) => Probed(g)')
    BY <2>1, <2>2, <2>3, ZenonT(30) DEF Since, Probed
  <2>9. Timely'
    BY <2>1, <2>3, <2>7, <2>8, SMTT(30) DEF Timely
  <2> QED
    BY <2>6, <2>9, SMTT(30)
<1>2. ASSUME NEW p \in Writers, Write(p) PROVE Sound' /\ Timely'
  BY <1>2, WriteSound, WriteTimely, SMTT(30)
<1>3. ASSUME NEW p \in Writers, Die(p) PROVE Sound' /\ Timely'
  BY <1>3, DieSound, ZenonT(30) DEF Die, Timely
<1>4. ASSUME NEW g \in Goroutines, Open(g) \/ Begin(g) \/ BackupLock(g) \/ ReadStep(g)
      PROVE  Sound' /\ Timely'
  <2>1. died' = died
    BY <1>4, ZenonT(30) DEF ReadStep, Open, Begin, BackupLock, Probe, Fresh, Stale, LockReload,
       LockFile, ReadMeta, ReadData, ReloadFails, PublishSnapshot, PublishCanary, Reloaded,
       Return, CopyData, CopyMeta, BackupEnd, historyVars
  <2>2. died => Timely'
    BY <2>1 DEF Timely
  <2>3. CASE Open(g) \/ Begin(g) \/ Probe(g) \/ Fresh(g) \/ Stale(g) \/ LockReload(g) \/ Return(g)
    BY <2>2, <2>3, ReadSound, ReadTimely, SMTT(30)
  <2>4. CASE \/ LockFile(g) \/ ReadMeta(g) \/ ReadData(g) \/ ReloadFails(g)
             \/ PublishSnapshot(g) \/ PublishCanary(g) \/ Reloaded(g)
    BY <2>2, <2>4, ReloadStepsSound, PublishSound, ReloadTimely, SMTT(30)
  <2>5. CASE BackupLock(g) \/ CopyData(g) \/ CopyMeta(g) \/ BackupEnd(g)
    BY <2>2, <2>5, BackupStepsSound, BackupTimely, SMTT(30)
  <2> QED
    BY <1>4, <2>3, <2>4, <2>5, ZenonT(30) DEF ReadStep
<1>5. ASSUME Close PROVE Sound' /\ Timely'
  <2>1. died' = died
    BY <1>5, ZenonT(30) DEF Close, historyVars
  <2> QED
    BY <1>5, <2>1, CloseSound, CloseTimely, SMTT(30) DEF Timely
<1> QED
  BY <1>1, <1>2, <1>3, <1>4, <1>5, ZenonT(30) DEF ReadersNext

LEMMA SoundAndTimely == ReadersSpec => [](Sound /\ Timely)
<1>1. Sound /\ Timely /\ [ReadersNext]_allVars => (Sound /\ Timely)'
  BY ReadersNextHolds
<1> QED
  BY <1>1, ReadersInitHolds, PTL DEF ReadersSpec

-----------------------------------------------------------------------------
(***************************************************************************)
(* What follows.                                                           *)
(***************************************************************************)
\* A read through a Reader, however many goroutines share it and however many
\* processes write, returns contents the store has had since the read began,
\* although its probe of the meta file takes no lock (ensureFresh, metaTuple,
\* reloadFrom).
THEOREM ReadsAreFresh == ReadersSpec => []FreshRead
<1>1. Sound /\ Timely => FreshRead
  <2> SUFFICES ASSUME Sound, Timely, ~died, NEW g \in Goroutines, step[g] = "load"
               PROVE  snap # <<>> /\ snap[1] \in since[g]
    BY DEF FreshRead
  <2>1. state = "open"
    BY DEF Sound, Mutex, Reading
  <2>2. snap # <<>>
    BY <2>1 DEF Sound, Publication
  <2>3. Probed(g)
    BY DEF Timely
  <2> QED
    BY <2>2, <2>3, SMTT(30) DEF Probed
<1> QED
  BY <1>1, SoundAndTimely, PTL

\* Whoever dies between any two stores, the snapshot a Reader publishes is what
\* one write left, whole, and never that of a write still under way
\* (reloadLocked, buildSnapshot).
THEOREM SnapshotsAreCommitted == ReadersSpec => []SnapshotIsCommitted
<1>1. Sound => SnapshotIsCommitted
  BY SMTT(30) DEF Sound, Commits, SnapshotIsCommitted
<1> QED
  BY <1>1, SoundAndTimely, PTL

\* A finished backup is a pair of files that a loader accepts, with contents the
\* store has had since the backup began (BackupOne).
THEOREM BackupsAreConsistent == ReadersSpec => []BackupIsConsistent
<1>1. Sound /\ Timely => BackupIsConsistent
  <2> SUFFICES ASSUME Sound, Timely, ~died, NEW g \in Goroutines, step[g] = "copied"
               PROVE  /\ readActualSize(copy.info) <= Len(copy.data)
                      /\ Region(copy.data, readActualSize(copy.info)) = copy.info.crcDigest
                      /\ Contents(Region(copy.data, readActualSize(copy.info))) \in since[g]
    BY SMTT(30) DEF BackupIsConsistent
  <2>1. copy.data = data /\ copy.info = meta /\ sh[Backup] > 0
    BY ZenonT(30) DEF Sound, Frozen, Mutex, Backing
  <2>2. /\ now = Contents(meta.crcDigest) /\ Valid(meta)
        /\ Region(data, readActualSize(meta)) = meta.crcDigest
    BY <2>1, FlockKnown, SMTT(30) DEF Timely
  <2>3. now \in since[g]
    BY SMTT(30) DEF Timely, Since, Backing
  <2> QED
    BY <2>1, <2>2, <2>3, SMTT(30) DEF Valid
<1> QED
  BY <1>1, SoundAndTimely, PTL

=============================================================================
