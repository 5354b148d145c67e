------------------------------- MODULE MMKVCrash ------------------------------
(***************************************************************************)
(* Processes of MMKVCore that are killed at any point, close the store and *)
(* open it again (mmkv.go: open, Close).                                   *)
(*                                                                         *)
(* A killed process loses its memory and its flock; the stores it has made *)
(* to the two shared mappings stay, whole or in part.  Loading afterwards  *)
(* accepts the stored region, rolls back to the last-confirmed snapshot,   *)
(* salvages, or discards (loadData of MMKVCore).                           *)
(***************************************************************************)
EXTENDS MMKVCore

CONSTANT MaxKills   \* bound on the number of kills and of damaged slots

ASSUME CrashAssumption == MaxKills \in Nat

VARIABLES
    kills,      \* kills and damaged slots so far
    may,        \* history: the last completed map, and what killed calls intended
    confirmed,  \* history: the map of the last completed write-back or clear,
                \* and of write-backs killed while they confirmed theirs
    damage      \* history: the worst kill since the last completed store

crashVars == <<kills, may, confirmed, damage>>
allVars == <<vars, crashVars>>

-----------------------------------------------------------------------------
(***************************************************************************)
(* The calls of MMKVCore, with the history of what they complete.          *)
(***************************************************************************)
Completing(p) == pc[p] \in {"size", "meta"}

\* The repair of a damaged store starts afresh; that of a sound one is no call
\* of anybody and should change nothing.  A completed call leaves a sound store,
\* except for an append to a torn rewrite by a process that survived it.
Track(p) ==
    LET map == Deref(data', inst'[p].dict)
    IN  /\ may' = IF Completing(p) /\ (op[p] # RepairCall \/ damage # "none")
                  THEN {map} ELSE may
        /\ confirmed' = IF pc[p] = "meta" THEN {map} ELSE confirmed
        /\ damage' = IF \/ pc[p] = "meta"
                        \/ pc[p] = "size" /\ (MultiProcess => damage # "rewrite")
                     THEN "none" ELSE damage
        /\ UNCHANGED kills

Call(p) ==
    /\ \/ Lock(p) \/ Unlock(p) \/ ClearMemoryCache(p)
       \/ \E c \in Calls : BeginRead(p, c) \/ BeginWrite(p, c)
       \/ Step(p)
    /\ Track(p)

-----------------------------------------------------------------------------
(***************************************************************************)
(* Death.                                                                  *)
(***************************************************************************)
Gone == [Opened(StoredInfo(0, <<>>), <<>>, FALSE) EXCEPT !.size = 0]

\* What p leaves in the files when it dies in the middle of a copy: slots of
\* the region, one of them half-written, or the half-written item of an append
\* or override.  The copy of the meta image stores 16 bytes at a time: these
\* are the fields of its first three stores.
MetaStores == {{"crcDigest", "version", "sequence"}, {"actualSize"},
               {"lastActualSize", "lastCRCDigest"}}
Changed(p) == {i \in DOMAIN buf[p] \cap DOMAIN data : buf[p][i] # data[i]}
PartOfRegion(p) ==
    {[i \in DOMAIN data |-> IF i \in S THEN buf[p][i]
                            ELSE IF i = torn THEN Junk ELSE data[i]] :
        S \in SUBSET Changed(p), torn \in {0} \cup Changed(p)}
PartOfItem(p) == {data, [data EXCEPT ![inst[p].actualSize] = Junk]}
PartOfMeta(p) ==
    {[f \in DOMAIN meta |-> IF f \in F THEN NextInfo(inst[p])[f] ELSE meta[f]] :
        F \in {UNION stores : stores \in SUBSET MetaStores}}

\* An append that has stored its CRC and not its size; a rewrite in place
\* (write-back, override, clear) that is not complete.
Extends(p) == inst[p].actualSize > meta.actualSize
DamageBy(p) ==
    CASE pc[p] = "size" /\ Extends(p) -> "append"
      [] pc[p] \in {"crc", "size"} /\ ~Extends(p) -> "rewrite"
      [] pc[p] \in {"region", "meta"} -> "rewrite"
      [] OTHER -> "none"

Leave(p) ==
    /\ inst' = [inst EXCEPT ![p] = Gone]
    /\ ex' = [ex EXCEPT ![p] = 0] /\ sh' = [sh EXCEPT ![p] = 0]
    /\ op' = [op EXCEPT ![p] = NoCall]
    /\ buf' = [buf EXCEPT ![p] = <<>>]
    /\ res' = [res EXCEPT ![p] = <<>>]
    /\ pc' = [pc EXCEPT ![p] = "closed"]

Kill(p) ==
    /\ pc[p] # "closed" /\ kills < MaxKills
    /\ Leave(p)
    /\ data' \in CASE pc[p] = "region" -> PartOfRegion(p)
                  [] pc[p] = "crc" -> PartOfItem(p)
                  [] OTHER -> {data}
    /\ meta' \in IF pc[p] = "meta" THEN PartOfMeta(p) ELSE {meta}
    /\ kills' = kills + 1
    /\ may' = IF Writing(p) THEN may \cup {Contents(Pending(p))} ELSE may
    /\ damage' = IF DamageBy(p) = "rewrite" \/ damage = "none"
                 THEN DamageBy(p) ELSE damage
    /\ confirmed' = IF pc[p] = "meta" THEN confirmed \cup {Contents(buf[p])}
                                      ELSE confirmed

\* Damage to the stored bytes while nobody has the store open.
Corrupt(i) ==
    /\ kills < MaxKills
    /\ \A p \in Procs : pc[p] = "closed"
    /\ data[i] # Junk
    /\ data' = [data EXCEPT ![i] = Junk]
    /\ kills' = kills + 1
    /\ damage' = "rewrite"
    /\ UNCHANGED <<meta, inst, ex, sh, pc, op, buf, res, may, confirmed>>

-----------------------------------------------------------------------------
(***************************************************************************)
(* Close and open.  open maps the data file, reads the meta, compares the  *)
(* digests and decodes, all without the flock, so that other processes     *)
(* write in between; only the repair of a salvaged store takes it.         *)
(***************************************************************************)
Close(p) ==
    /\ pc[p] = "idle"
    /\ Leave(p)
    /\ UNCHANGED <<data, meta, crashVars>>

\* A process in Recovering opens with the option or without it.
OpenMap(p) ==
    /\ pc[p] = "closed"
    /\ \E recover \in {r \in BOOLEAN : r => p \in Recovering} :
          inst' = [inst EXCEPT ![p].size = FileSize, ![p].recover = recover]
    /\ pc' = [pc EXCEPT ![p] = "open"]
    /\ UNCHANGED <<data, meta, ex, sh, op, buf, res, crashVars>>

\* The copy races the store of a meta image.
OpenReadMeta(p) ==
    /\ pc[p] = "open"
    /\ \E info \in {meta} \cup
                    UNION {PartOfMeta(q) : q \in {r \in Procs : pc[r] = "meta"}} :
          inst' = [inst EXCEPT ![p].info = info]
    /\ pc' = [pc EXCEPT ![p] = "load"]
    /\ UNCHANGED <<data, meta, ex, sh, op, buf, res, crashVars>>

\* Mutant: the snapshot is preferred to the current region.
OpenCheckSnapshotFirst(p) ==
    /\ pc[p] = "load"
    /\ pc' = [pc EXCEPT ![p] = IF LastConfirmedOK(inst[p]) THEN "rollback"
                               ELSE IF CurrentOK(inst[p]) THEN "accept"
                               ELSE IF inst[p].recover THEN "salvage" ELSE "discard"]
    /\ UNCHANGED <<data, meta, inst, ex, sh, op, buf, res, crashVars>>

\* The decisions of loadData, and what it then decodes.
OpenCheck(p) ==
    /\ pc[p] = "load"
    /\ pc' = [pc EXCEPT ![p] = IF CurrentOK(inst[p]) THEN "accept"
                               ELSE IF LastConfirmedOK(inst[p]) THEN "rollback"
                               ELSE IF inst[p].recover THEN "salvage" ELSE "discard"]
    /\ UNCHANGED <<data, meta, inst, ex, sh, op, buf, res, crashVars>>

Decoding(m, how) ==
    CASE how = "accept" -> decodeRegion(m, readActualSize(m.info), m.info.crcDigest)
      [] how = "rollback" -> rollback(m)
      [] how = "salvage" -> salvage(m)
      [] how = "discard" -> discard(m)

OpenDecode(p) ==
    /\ pc[p] \in {"accept", "rollback", "salvage", "discard"}
    /\ inst' = [inst EXCEPT ![p] = Decoding(@, pc[p])]
    /\ pc' = [pc EXCEPT ![p] =
                IF inst'[p].needFullWriteback /\ p \notin ReadOnly
                THEN "repair" ELSE "idle"]
    /\ UNCHANGED <<data, meta, ex, sh, op, buf, res, crashVars>>

OpenRepair(p) ==
    /\ pc[p] = "repair"
    /\ MultiProcess => \A q \in Others(p) : ex[q] = 0 /\ sh[q] = 0
    /\ ex' = IF MultiProcess THEN [ex EXCEPT ![p] = @ + 1] ELSE ex
    /\ op' = [op EXCEPT ![p] = RepairCall]
    /\ buf' = [buf EXCEPT ![p] = encodeRegion(Visible(p))]
    /\ pc' = [pc EXCEPT ![p] = "grow"]
    /\ UNCHANGED <<data, meta, inst, sh, res, crashVars>>

Open(p) == \/ OpenMap(p) \/ OpenReadMeta(p) \/ OpenCheck(p) \/ OpenDecode(p)
           \/ OpenRepair(p)

-----------------------------------------------------------------------------
CrashInit ==
    /\ Init
    /\ kills = 0
    /\ may = {Contents(Stored)}
    /\ confirmed = {Contents(Region(data, meta.lastActualSize))}
    /\ damage = "none"

\* Processes are killed and the survivors go on.
SurviveNext == \E p \in Procs : Call(p) \/ Kill(p)
SurviveSpec == CrashInit /\ [][SurviveNext]_allVars

\* Processes are killed and come back; the files may also be damaged.
RestartNext == \/ \E p \in Procs : Call(p) \/ Kill(p) \/ Open(p)
               \/ \E i \in DOMAIN data : Corrupt(i)
RestartSpec == CrashInit /\ [][RestartNext]_allVars

\* Nobody is killed; processes close the store and open it again.
ReopenNext == \E p \in Procs : Call(p) \/ Close(p) \/ Open(p)
ReopenSpec == CrashInit /\ [][ReopenNext]_allVars

-----------------------------------------------------------------------------
(***************************************************************************)
(* Properties.                                                             *)
(***************************************************************************)
CrashTypeOK ==
    /\ TypeOK
    /\ kills \in 0..MaxKills
    /\ may \subseteq Maps /\ confirmed \subseteq Maps
    /\ damage \in {"none", "append", "rewrite"}

\* A kill that tears no store loses nothing: whoever loads the store next, by
\* open or by checkLoadData, sees every completed call.
CompletedCallsSurvive ==
    damage = "none" => \A p \in Procs : pc[p] = "body" => Visible(p) \in may

\* A torn append is rolled back to the last-confirmed snapshot at worst
\* (meta.go: "on load a torn append can be rolled back").
TornAppendRollsBack ==
    damage # "rewrite" =>
        \A p \in Procs : pc[p] = "body" => Visible(p) \in may \cup confirmed

\* Whatever is torn, a load never shows a mixture of two states of the store:
\* it shows one of them whole, or nothing; or what WithRecoverOnError has
\* salvaged from a damaged log, which its repair makes the state of the store.
NeverAMixture ==
    \A p \in Procs :
        pc[p] = "body" => Visible(p) \in may \cup confirmed \cup {EmptyMap}

\* Every call that completes its stores leaves a file whose CRC is right,
\* also after a rollback, a discard or a salvage: the running digest of a
\* salvaged store is never extended.
StoresLeaveAGoodDigest ==
    [][\A p \in Procs :
          Completing(p) /\ pc'[p] \in {"unlock", "shrink"} =>
              meta'.crcDigest = Region(data', meta'.actualSize)]_allVars

\* No instance that has passed checkLoadData maps more than the file, so that
\* none of its accesses faults (ClearAll: "bumping the sequence so other
\* processes reload").
MappingInsideFile ==
    \A p \in Procs : pc[p] = "body" => inst[p].size <= FileSize
=============================================================================
