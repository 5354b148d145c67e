------------------------------- MODULE Readers -------------------------------
(***************************************************************************)
(* A Reader (reader.go) shared by goroutines, and BackupOne (backup.go),   *)
(* beside the instances of MMKVCore that write the store.                  *)
(*                                                                         *)
(* A read probes the mapped ".crc" without any lock: three loads, which a  *)
(* writer may overtake, and three comparisons, which the publication of a  *)
(* new snapshot by another goroutine may overtake.  Only when the probe    *)
(* fails does it take reloadMu and the shared flock.                       *)
(*                                                                         *)
(* The Reader and the backup hold their flock as members of Procs that     *)
(* make no calls of their own.  A process that writes may die in a call.   *)
(***************************************************************************)
EXTENDS MMKVCore

CONSTANTS
    Reader, Backup,   \* the open files of the Reader and of BackupOne
    Goroutines        \* they read through the Reader and make backups

ASSUME ReadersAssumption ==
    /\ Reader \in Procs /\ Backup \in Procs /\ Reader # Backup
    /\ MultiProcess
    /\ "nobody" \notin Goroutines

Writers == Procs \ {Reader, Backup}

VARIABLES
    state,      \* of the Reader: "closed", "opening" or "open"
    snap,       \* <<map>> once a snapshot is published
    loaded,     \* loadedCRC, loadedActual and loadedSeq
    reloadMu,   \* the goroutine that holds it
    build,      \* its buildSnapshot: the meta, then also the map
    step,       \* per goroutine: where it is in its read
    seen,       \* per goroutine: what its probe has loaded and not compared
    copy,       \* BackupOne: the two files it has written
    now,        \* the last committed contents
    ever,       \* the contents of all completed writes, and of those whose
                \* process died between its last two stores
    since,      \* per goroutine, in a read or backup: the contents the store
                \* has had since it began, that of a write under way included
    died        \* whether a writer has died in a call

readerVars == <<state, snap, loaded, reloadMu, build, step, seen>>
historyVars == <<now, ever, since, died>>
allVars == <<vars, readerVars, copy, historyVars>>

Canary == <<"crcDigest", "actualSize", "sequence">>
NoCanary == [crcDigest |-> <<>>, actualSize |-> 0, sequence |-> 0]
NoBuild == [info |-> NoCanary, map |-> <<>>]
NoCopy == [data |-> <<>>, info |-> NoCanary]

-----------------------------------------------------------------------------
(***************************************************************************)
(* What has been committed: the contents a loader of the current meta      *)
(* accepts while no live process is in the middle of its stores.           *)
(***************************************************************************)
Committed == Quiet /\ meta.crcDigest = Region(data, readActualSize(meta))

Remember ==
    /\ now' = IF Committed' THEN Contents(Stored)' ELSE now
    /\ ever' = ever \cup {Contents(Pending(p)) :
                              p \in {q \in Writers : Writing(q) /\ ~Writing(q)'}}
    /\ since' = [g \in Goroutines |->
                    IF since[g] = {} THEN {} ELSE since[g] \cup {now', kv'}]

BeginSince(g) == since' = [since EXCEPT ![g] = {now, kv}]
EndSince(g) == since' = [since EXCEPT ![g] = {}]

-----------------------------------------------------------------------------
(***************************************************************************)
(* The writers.                                                            *)
(***************************************************************************)
Write(p) ==
    /\ Step(p) \/ \E c \in Calls : BeginRead(p, c) \/ BeginWrite(p, c)
    /\ Remember
    /\ UNCHANGED <<readerVars, copy, died>>

\* A process dies in a call; the kernel releases its flock.  A digest without
\* its length is of no use to a loader, unless the death of an earlier append
\* has left the very length it needs.
Die(p) ==
    /\ pc[p] \notin {"idle", "closed"}
    /\ pc' = [pc EXCEPT ![p] = "closed"]
    /\ ex' = [ex EXCEPT ![p] = 0] /\ sh' = [sh EXCEPT ![p] = 0]
    /\ op' = [op EXCEPT ![p] = NoCall]
    /\ died' = TRUE
    /\ ever' = IF pc[p] = "size" THEN ever \cup {Contents(Pending(p))} ELSE ever
    /\ UNCHANGED <<data, meta, inst, buf, res, readerVars, copy, now, since>>

-----------------------------------------------------------------------------
(***************************************************************************)
(* The flock of a file that no instance uses.                              *)
(***************************************************************************)
flockShared(f) ==
    /\ \A q \in Others(f) : ex[q] = 0
    /\ sh' = [sh EXCEPT ![f] = 1]
    /\ UNCHANGED <<data, meta, inst, ex, pc, op, buf, res>>

flockUnlock(f) ==
    /\ sh' = [sh EXCEPT ![f] = 0]
    /\ UNCHANGED <<data, meta, inst, ex, pc, op, buf, res>>

-----------------------------------------------------------------------------
(***************************************************************************)
(* Open and Close, and the start of a read.                                *)
(***************************************************************************)
Goto(g, s) == step' = [step EXCEPT ![g] = s]

Open(g) ==
    /\ state = "closed" /\ step[g] = "idle"
    /\ state' = "opening" /\ reloadMu' = g
    /\ Goto(g, "flock")
    /\ UNCHANGED <<vars, snap, loaded, build, seen, copy, historyVars>>

Close ==
    /\ state = "open" /\ \A g \in Goroutines : step[g] = "idle"
    /\ state' = "closed" /\ snap' = <<>> /\ loaded' = NoCanary
    /\ UNCHANGED <<vars, reloadMu, build, step, seen, copy, historyVars>>

Begin(g) ==
    /\ state = "open" /\ step[g] = "idle"
    /\ Goto(g, "probe")
    /\ BeginSince(g)
    /\ UNCHANGED <<vars, state, snap, loaded, reloadMu, build, seen, copy, now, ever, died>>

-----------------------------------------------------------------------------
(***************************************************************************)
(* ensureFresh.                                                            *)
(***************************************************************************)
\* What a load of a field may return: while the meta image is being stored, the
\* old value or the new one.
LiveField(f) ==
    {meta[f]} \cup {NextInfo(inst[p])[f] : p \in {q \in Writers : pc[q] = "meta"}}

\* One load of metaTuple.
Probe(g) ==
    /\ step[g] = "probe"
    /\ \E x \in LiveField(Canary[Len(seen[g]) + 1]) :
          seen' = [seen EXCEPT ![g] = Append(@, x)]
    /\ Goto(g, IF Len(seen[g]) = 2 THEN "compare" ELSE "probe")
    /\ UNCHANGED <<vars, state, snap, loaded, reloadMu, build, copy, historyVars>>

\* One comparison of tupleFresh.
Matches(g) == Head(seen[g]) = loaded[Canary[4 - Len(seen[g])]]

\* The first probe is made without reloadMu, the second with it.
Fresh(g) ==
    /\ step[g] = "compare" /\ Matches(g)
    /\ seen' = [seen EXCEPT ![g] = Tail(@)]
    /\ Goto(g, IF Len(seen[g]) > 1 THEN "compare" ELSE "load")
    /\ reloadMu' = IF Len(seen[g]) = 1 /\ reloadMu = g THEN "nobody" ELSE reloadMu
    /\ UNCHANGED <<vars, state, snap, loaded, build, copy, historyVars>>

Stale(g) ==
    /\ step[g] = "compare" /\ ~Matches(g)
    /\ seen' = [seen EXCEPT ![g] = <<>>]
    /\ Goto(g, IF reloadMu = g THEN "flock" ELSE "mutex")
    /\ UNCHANGED <<vars, state, snap, loaded, reloadMu, build, copy, historyVars>>

LockReload(g) ==
    /\ step[g] = "mutex" /\ reloadMu = "nobody"
    /\ reloadMu' = g
    /\ Goto(g, "probe")
    /\ UNCHANGED <<vars, state, snap, loaded, build, seen, copy, historyVars>>

-----------------------------------------------------------------------------
(***************************************************************************)
(* reloadLocked.                                                           *)
(***************************************************************************)
LockFile(g) ==
    /\ step[g] = "flock"
    /\ flockShared(Reader)
    /\ Goto(g, "meta")
    /\ UNCHANGED <<state, snap, loaded, reloadMu, build, seen, copy, historyVars>>

\* buildSnapshot: parseMeta, then the data file and its checks.
ReadMeta(g) ==
    /\ step[g] = "meta"
    /\ build' = [build EXCEPT !.info = meta]
    /\ Goto(g, "data")
    /\ UNCHANGED <<vars, state, snap, loaded, reloadMu, seen, copy, historyVars>>

\* Mutant: the digest is not compared.
ValidAnyDigest(info) == readActualSize(info) <= Len(data)

Valid(info) ==
    /\ readActualSize(info) <= Len(data)
    /\ Region(data, readActualSize(info)) = info.crcDigest

\* Mutant: the canary is published before the snapshot.
NextPublishedCanaryFirst(s) ==
    CASE s = "snap" -> "unlock" [] s = "sequence" -> "snap"
      [] s = "data" -> "crcDigest"
      [] s = "crcDigest" -> "actualSize" [] s = "actualSize" -> "sequence"

\* The order in which reloadFrom publishes.
NextPublished(s) ==
    CASE s = "data" -> "snap" [] s = "snap" -> "crcDigest"
      [] s = "crcDigest" -> "actualSize" [] s = "actualSize" -> "sequence"
      [] s = "sequence" -> "unlock"

ReadData(g) ==
    /\ step[g] = "data" /\ Valid(build.info)
    /\ build' = [build EXCEPT !.map = <<Contents(Region(data, readActualSize(build.info)))>>]
    /\ Goto(g, NextPublished("data"))
    /\ UNCHANGED <<vars, state, snap, loaded, reloadMu, seen, copy, historyVars>>

\* Mutant: reloadMu stays locked.
ReloadFailsLocked(g) ==
    /\ step[g] = "data" /\ ~Valid(build.info)
    /\ flockUnlock(Reader)
    /\ build' = NoBuild
    /\ state' = IF state = "opening" THEN "closed" ELSE state
    /\ Goto(g, IF state = "opening" THEN "idle" ELSE "load")
    /\ UNCHANGED <<snap, loaded, reloadMu, seen, copy, historyVars>>

\* A failed reload keeps the last snapshot, a failed Open returns no Reader.
ReloadFails(g) ==
    /\ step[g] = "data" /\ ~Valid(build.info)
    /\ flockUnlock(Reader)
    /\ reloadMu' = "nobody" /\ build' = NoBuild
    /\ state' = IF state = "opening" THEN "closed" ELSE state
    /\ Goto(g, IF state = "opening" THEN "idle" ELSE "load")
    /\ UNCHANGED <<snap, loaded, seen, copy, historyVars>>

PublishSnapshot(g) ==
    /\ step[g] = "snap"
    /\ snap' = build.map
    /\ Goto(g, NextPublished("snap"))
    /\ UNCHANGED <<vars, state, loaded, reloadMu, build, seen, copy, historyVars>>

PublishCanary(g) ==
    /\ step[g] \in {"crcDigest", "actualSize", "sequence"}
    /\ loaded' = [loaded EXCEPT ![step[g]] = build.info[step[g]]]
    /\ Goto(g, NextPublished(step[g]))
    /\ UNCHANGED <<vars, state, snap, reloadMu, build, seen, copy, historyVars>>

Reloaded(g) ==
    /\ step[g] = "unlock"
    /\ flockUnlock(Reader)
    /\ reloadMu' = "nobody" /\ build' = NoBuild
    /\ state' = "open"
    /\ Goto(g, IF state = "opening" THEN "idle" ELSE "load")
    /\ UNCHANGED <<snap, loaded, seen, copy, historyVars>>

\* The read returns what snap.Load gives now.
Return(g) ==
    /\ step[g] = "load"
    /\ Goto(g, "idle")
    /\ EndSince(g)
    /\ UNCHANGED <<vars, state, snap, loaded, reloadMu, build, seen, copy, now, ever, died>>

-----------------------------------------------------------------------------
(***************************************************************************)
(* BackupOne.                                                              *)
(***************************************************************************)
Backing == {"copyData", "copyMeta", "copied"}
NoBackup == \A g \in Goroutines : step[g] \notin Backing

\* Mutant: the flock is not taken.
BackupLockNot(g) ==
    /\ step[g] = "idle" /\ NoBackup
    /\ Goto(g, "copyData")
    /\ BeginSince(g)
    /\ UNCHANGED <<vars, state, snap, loaded, reloadMu, build, seen, copy, now, ever, died>>

\* One at a time: two backups would be two files and two copies.
BackupLock(g) ==
    /\ step[g] = "idle" /\ NoBackup
    /\ flockShared(Backup)
    /\ Goto(g, "copyData")
    /\ BeginSince(g)
    /\ UNCHANGED <<state, snap, loaded, reloadMu, build, seen, copy, now, ever, died>>

CopyData(g) ==
    /\ step[g] = "copyData"
    /\ copy' = [copy EXCEPT !.data = data]
    /\ Goto(g, "copyMeta")
    /\ UNCHANGED <<vars, state, snap, loaded, reloadMu, build, seen, historyVars>>

CopyMeta(g) ==
    /\ step[g] = "copyMeta"
    /\ copy' = [copy EXCEPT !.info = meta]
    /\ Goto(g, "copied")
    /\ UNCHANGED <<vars, state, snap, loaded, reloadMu, build, seen, historyVars>>

\* The backup has been made, or a copy has failed.
BackupEnd(g) ==
    /\ step[g] \in Backing
    /\ flockUnlock(Backup)
    /\ copy' = NoCopy
    /\ Goto(g, "idle")
    /\ EndSince(g)
    /\ UNCHANGED <<state, snap, loaded, reloadMu, build, seen, now, ever, died>>

-----------------------------------------------------------------------------
\* A store this library has written back before, and no Reader yet.
ReadersInit ==
    /\ \E map \in InitMaps : InitWith(versionFlag, encodeRegion(map))
    /\ state = "closed" /\ snap = <<>> /\ loaded = NoCanary
    /\ reloadMu = "nobody" /\ build = NoBuild
    /\ step = [g \in Goroutines |-> "idle"]
    /\ seen = [g \in Goroutines |-> <<>>]
    /\ copy = NoCopy
    /\ now = Contents(Stored) /\ ever = {now}
    /\ since = [g \in Goroutines |-> {}]
    /\ died = FALSE

\* What a goroutine does inside a read, an Open or a backup.
ReadStep(g) ==
    \/ Probe(g) \/ Fresh(g) \/ Stale(g) \/ LockReload(g)
    \/ LockFile(g) \/ ReadMeta(g) \/ ReadData(g) \/ ReloadFails(g)
    \/ PublishSnapshot(g) \/ PublishCanary(g) \/ Reloaded(g) \/ Return(g)
    \/ CopyData(g) \/ CopyMeta(g) \/ BackupEnd(g)

ReadersNext ==
    \/ \E p \in Writers : Write(p) \/ Die(p)
    \/ \E g \in Goroutines : Open(g) \/ Begin(g) \/ BackupLock(g) \/ ReadStep(g)
    \/ Close

\* A goroutine inside a call goes on.  Strong fairness for reloadMu: sync.Mutex
\* hands the lock to the goroutine that has waited longest.
ReadersSpec ==
    /\ ReadersInit /\ [][ReadersNext]_allVars
    /\ \A g \in Goroutines : WF_allVars(ReadStep(g)) /\ SF_allVars(LockReload(g))

-----------------------------------------------------------------------------
(***************************************************************************)
(* Properties.                                                             *)
(***************************************************************************)
\* A read returns contents that were the store's at some moment between its
\* start and its end: neither a lockless probe that overtakes a writer nor one
\* that overtakes the publication by another goroutine makes it miss a write
\* completed before it began (reader.go: "every read is transparently up to
\* date").
FreshRead ==
    \A g \in Goroutines : step[g] = "load" /\ ~died =>
        snap # <<>> /\ snap[1] \in since[g]

\* The published snapshot is what one write left, whole: a completed one, or one
\* whose process died between its last two stores.  It is never a mixture, and
\* never the contents of a write still under way, whoever has died before.
SnapshotIsCommitted == snap # <<>> => snap[1] \in ever

\* A finished backup is a store that a loader accepts, with contents the store
\* had while the backup was made (backup.go: "a consistent, independently-
\* readable snapshot").
BackupIsConsistent ==
    \A g \in Goroutines : step[g] = "copied" /\ ~died =>
        LET region == Region(copy.data, readActualSize(copy.info))
        IN  /\ readActualSize(copy.info) <= Len(copy.data)
            /\ region = copy.info.crcDigest
            /\ Contents(region) \in since[g]

\* Once the writers rest, every read, Open and backup ends, whether its reload
\* succeeds or fails and whoever has died.  While writers keep coming the flock
\* gives no such promise.
EveryReadReturns ==
    <>[](\A p \in Writers : pc[p] \in {"idle", "closed"}) =>
        \A g \in Goroutines : step[g] # "idle" ~> step[g] = "idle"
=============================================================================
