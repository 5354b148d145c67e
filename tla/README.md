# TLA+ models of mmkv-go

This directory holds a TLA+ development for mmkv-go: models of the live,
multi-process store, of its locks, instances, readers and bytes; TLC
configurations for small instances; and TLAPS proofs for instances of any size.
`PROJECT.json` maps each definition to the lines it models.

## The system

A store is two files: the data file, an append log behind a 4-byte legacy
header, and the `.crc` file, a small struct (`metaInfo`) with the CRC and the
size of the log, a sequence number and a "last-confirmed" size and CRC. Every
process maps both files and keeps a dictionary of views into the mapping.

| Part | Source | Where |
|---|---|---|
| log, replay, region, file sizes | encode.go, reader.go, memfile.go, mmkv_io.go | `StoreFormat` |
| live instance: reads, writes, reload | mmkv.go, mmkv_io.go, memfile.go, meta.go | `MMKVCore` |
| open, close, kill, recovery | mmkv.go, memfile.go, meta.go | `MMKVCrash` |
| flock with counts, upgrade, downgrade | flock.go, mmkv_lock.go | `FileLock` |
| instance registry, Close, RemoveStorage, restore | mmkv.go, mmkv_ns.go, mmkv_backup.go | `Registry` |
| read-only Reader, BackupOne | reader.go, lock_unix.go, backup.go | `Readers` |
| wire codec, byte by byte | wire.go, encode.go, reader.go | `WireFormat` |
| encryption, expiration, compare-before-set, ImportFrom, failing system calls | mmkv_io.go, crypt.go, mmkv_crypt.go, mmkv_expire.go, mmkv_compare.go | `EncodedStore` |
| what the API promises | | `KVMap` (abstract) |
| what the lock promises | | `LockCounts` (abstract) |
| file names, fixture generator | path.go, tools/gen | not modelled: no state |

The parts interact as follows. A goroutine gets the one instance of a store from
the registry. A call takes the thread lock and, in multi-process mode, the flock
(`FileLock`); it runs `checkLoadData`, which compares the instance's copy of the
meta with the mapped one and reloads; it then reads its views or stores to the
two mappings, and releases the locks. A Reader looks at the mapped meta without
a lock and takes the flock only to reload.

How the modules share the work: `MMKVCore` has the calls of several processes,
store by store, over a log of slots. `MMKVCrash` adds death, close and open to
its actions, `Readers` adds Readers and backups. `MMKVCore` uses of the lock only
the two counters of every process, which `FileLock` is proved to provide
(`ImplementsLockCounts`). `Registry` has the goroutines of one process and every
lock they take, and of a call only its steps between locks. `EncodedStore` has
one instance with atomic calls, and the bytes.

## The models

**StoreFormat.** Sizes are counted in slots; a slot is one log item. A CRC is
represented by the bytes it digests: two different regions never collide, and
`crc32.Update` is `Append`. A dictionary maps a key to the slot its view lies
in, so that a view of overwritten bytes shows the new bytes. The doubling and
halving loops are sets of possible results.

**MMKVCore.** One program counter per process, because a call holds the thread
lock. `BeginRead`/`BeginWrite` take the locks, `checkLoadData` is the probe with
the reload, the actions `SetBy...`, `Remove...`, `ClearAll`, `TrimCompact` decide
what is written, and `StoreCRC`, `StoreActualSize`, `Grow`, `StoreRegion`,
`StoreMeta`, `Shrink` are the stores in the order of the code. All getters are
one action, `Get`, that returns the whole visible map. The store starts fresh,
or as the Writer or the C++ library (version 3, without a last-confirmed
snapshot) left it. `Recovering` are the processes with WithRecoverOnError.

**MMKVCrash.** `Kill` is possible at every step. It leaves the stores already
made, and part of the one under way: some slots of a region, one of them
half-written, or some of the 16-byte pieces of the meta. `open` is unlocked in
the code, so it takes five steps (map, read the meta, check, decode, repair).
The variables `may`, `confirmed` and `damage` are history for the properties.

**FileLock.** One step per flock system call. The kernel (external) converts a
lock by dropping and taking it, so others may get in between, and a failed
conversion may have lost the old lock.

**Registry.** A file is an inode which the directory names or no longer names.
Each of MMKVWithID, a call, Close, RemoveStorage and RestoreOneFromDirectory is
a sequence of steps separated at the places where the code takes or waits for a
lock or makes a system call others can see. Opens and restores may fail at their
system calls, also half-way. Of what an instance has loaded the model keeps
whether a restore has replaced it since (`outdated`); an instance reloads on
`needLoad` alone, since the restored meta may equal the one it remembers.

**Readers.** The probe is three loads and three comparisons, each a step. While a
writer copies the meta image a load of a field gives the old value or the new
one. The reload builds the snapshot under reloadMu and the shared flock and
publishes four variables in the order of `reloadFrom`. A writer may die in a
call. `now`, `ever` and `since` are history.

**WireFormat, EncodedStore.** Bytes, with scaled widths: a byte has 16 values and
its upper half is the continuation bit, a 32-bit word has two bytes. What the
properties depend on is kept: values that need one or several varint bytes,
negative values that are sign-extended to 64 bits, lengths that cross a varint
boundary, timestamps that wrap. AES is symbolic: a sealed byte gives its
plaintext under the key and IV it was sealed with and any byte otherwise.
`kept` and `period` are what the calls have promised; `agree` says whether the
files hold what the instance holds. A write-back may fail for want of random
bytes, in ftruncate or in msync, and the call then returns its error.

Abstractions that matter: keys are never empty; in the modules other than
`EncodedStore` and `Registry` system calls do not fail; a load that overlaps the
copy of a region sees the region before or after the copy;
`EnableCompareBeforeSet` is a constant set of processes in `MMKVCore`; `TryLock`
is `Lock` that is not taken when contended.

## Runs

| Run | What it shows | States |
|---|---|---|
| `shared` | two writers and a read-only process, one key, two values, Lock | 1,152,088 |
| `solo` | single-process mode, two keys, all calls, override fast path, compare-before-set | 271,859 |
| `restart` | one process in single-process mode, with WithRecoverOnError or without, killed at any store or its file damaged, and restarted, twice | 3,814,955 |
| `survive` | one of two processes is killed, the other goes on; no ClearAll and no Trim | 1,474,002 |
| `reopen` | two processes that set and get one key close and open the store | 747,820 |
| `file_lock` | three processes, upgrades, downgrades, deaths | 22,816 |
| `registry` | two goroutines open, call, close, remove and restore one store | 310,616 |
| `readers` | two goroutines read through a Reader and make backups while a process writes and may die | 446,496 |
| `encoded` | one instance byte by byte: two keys, two AES keys and none, expiration, one failing system call | 129,926 |

**The store.** The CRC describes the bytes (`DigestMatchesRegion`), no write of
another process is missed (`ViewsAreFresh`), mappings and views match the file
(`MappingIsFile`, `NoDanglingViews`), a live system never takes a recovery path
(`NoSpuriousRecovery`), writes fit (`RegionFits`), and an unchanged sequence
keeps old views and the last-confirmed bytes valid
(`SameSequencePreservesViews`, `LastConfirmedIntact`). `ImplementsMap` is the
refinement of `KVMap`. `shared` checks them all, and `Coherent`, the inductive
invariant of the proofs. `solo` checks the two that the override fast path of
single-process mode could break; it does break `LastConfirmedIntact` there (see
`TornAppendRollsBack` below).

**Kills and opens.** A kill that tears no store loses no completed call
(`CompletedCallsSurvive`: `restart`, `survive`); a torn append costs at most the
calls since the last write-back (`TornAppendRollsBack`: `survive`); a load shows
one whole state or nothing, or what a repair has salvaged and made the state of
the store (`NeverAMixture`: `restart`, `reopen`); a completed store leaves a
right CRC, also after a recovery (`StoresLeaveAGoodDigest`: `restart`,
`reopen`). What is not checked in one of these runs does not hold there and is
described in the next section. In `survive`, after a torn write-back, the next
append also extends a CRC that no longer fits the bytes, so
`StoresLeaveAGoodDigest` is not checked there either.

**The registry.** There is one usable instance (`OneInstance`), MMKVWithID reads
`closed` without a race (`ClosedReadIsOrdered`), no call works on a closed
instance (`NoUseAfterClose`) or on what a restore has replaced
(`RestoredIsReloaded`), and the registered instance has the named files mapped
(`MapsTheFiles`). Two exceptions are part of the statements because the code has
them: after a restore that failed half-way nobody is told to reload, and an open
between RemoveStorage's close and its unlinks gets files that then lose their
names. `EveryCallReturns` is liveness: whatever fails on the way, every call
ends, unless a restore and a call block each other (`restore_deadlock`).

**Readers and backups.** A read returns contents the store had between its start
and its end (`FreshRead`), the snapshot is always what one write left, whole: a
completed one, or one whose process died between its last two stores
(`SnapshotIsCommitted`), a backup is a store with
contents it had during the backup (`BackupIsConsistent`), and once the writers
rest every read, Open and backup ends (`EveryReadReturns`).

**Bytes.** The typed getters give what was last set, for as long as its
expiration allows (`InstanceShowsTheCalls`); whoever loads the files gets the
same (`ReloadShowsTheSame`, while the last write-back succeeded and no plaintext
tombstone lies behind ciphertext); the region ends inside the file
(`RegionFitsTheFile`); the greedy decode of a log cut at any byte is an earlier
state (`CutRegionIsEarlierState`). The assumption `EveryTypeIsReadBack` has TLC
read back every 32-bit value of every numeric type, 64-bit values at the
boundaries, and all short byte strings and string slices.

### Bounds

A page has 4 slots, one of them the header, so a log of a placeholder and two
pairs fills it, and the next set writes back and grows the file. The headroom of
8 items is 1. No write starts at sequence `MaxSeq` (3, in `solo` 4, in `readers`
2) or on a log of `MaxLog` slots (4 or 5); a fresh store starts at sequence 0
and an existing one at 1. `MaxHold` 1 allows one `Lock` on top of the calls,
`MaxKills` 1 or 2 bounds kills and damaged slots together. `shared` and
`file_lock` use symmetry of the (writing) processes, `shared` of values too.
Two writers and a reader let a process fall behind by several writes of
different processes; for what is proved the number does not matter. For kills
and opens with other processes about, two are what has been checked. The lock is checked with
three, because a circle of waiting may need a third.

`registry` has two goroutines, two instances, four inodes and one restore:
enough to replace an instance and both files once; the safety properties are
proved for any number. `readers` needs two goroutines, one of which publishes
while the other compares; its writer sets two keys and removes one.

`encoded`: pages of 24 bytes, of which three pairs overflow the first; a log of
`MaxPairs` (3) pairs is not appended to; the clock takes two values and the
durations are one tick and the largest; one system call fails (`MaxFaults`). An
instance whose files do not hold what it holds, because a write-back failed or a
tombstone is in plaintext, is followed until it is rewritten but not loaded
(`MayLoad`). The two AES keys are symmetric.

### Fairness

`registry`: a goroutine inside a call goes on, with strong fairness where it
waits. For `sync.Mutex` this is its starvation mode, which hands the lock to the
goroutine that has waited longest; for the flock it is the assumption that the
kernel does not pass over a waiter for ever. `readers`: weak fairness of the
steps of a read, strong fairness for reloadMu only; that the flock is free in
the end is a premise of `EveryReadReturns`, not an assumption. No process is
assumed to start anything.

### Where the code and its documents disagree

Each of these runs ends in a counterexample, without any crash or failing system
call.

- `open_grown`: open maps, another process grows the file, open reads the new
  meta; the instance loses the region and does not remap before the sequence
  moves on again (mmkv.go:316).
  With WithRecoverOnError the same unlocked open can take a store under way for
  corruption, and its repair write-back then undoes completed writes: TLC finds
  this for `MCOpenGrown.cfg` with `Recovering = {p1, p2}`, one key, two values,
  `PageSize` 7 and `MaxLog` 7.
- `restore_deadlock`: a restore holds the flock and waits for the thread lock of
  the cached instance; a call has the thread lock and waits for the flock
  (mmkv_backup.go:18-20). The restore holds gInstanceMu as well, so every later
  MMKVWithID, Close and RemoveStorage of the process waits too.
- `encrypted_remove`: RemoveValueForKey appends its tombstone to an encrypted
  store in plaintext (mmkv_io.go:293-294). A loader decrypts it to other bytes.

The following need a crash or a failing system call. TLC finds each when a
configuration is changed as said.

- `MCRestart.cfg` with `Recovering = {}`, `MaxLog` 5, `MaxKills` 1 and the
  invariant `TornAppendRollsBack`: the override fast path overwrites the
  last-confirmed bytes, so a torn append after it is discarded (meta.go:11-14).
- `MCSurvive.cfg` with `Vals = {v1, v2}` and the invariant `NeverAMixture`: a
  full write-back copies its region over the bytes that the current and the
  last-confirmed CRC describe. A kill after that has not changed the meta, so a
  surviving process goes on reading views that show bytes of other pairs
  (doc/MMKV_FULL_DESIGN.md:121-122, README.md:86). A process that opens the store
  then finds no region to accept or roll back to and discards, which
  `NeverAMixture` allows.
- `MCSurvive.cfg` with one key, two values, `Calls <- AllCalls` and the invariant
  `MappingInsideFile`: ClearAll killed after its truncate leaves survivors with a
  mapping longer than the file (mmkv_io.go:349-350). This is why `survive` leaves
  out ClearAll, and Trim, which clears an empty store.
- `MCFileLock.cfg` with the invariant `TryLockDoesNotBlock`: a contended upgrade
  by tryLock takes its shared lock back with a blocking flock (flock.go:67).
- `MCEncoded.cfg` with the invariant `RegionStartsWithHolder`: after ClearAll, a
  set whose ftruncate fails leaves its key in the dictionary over an empty region, the next
  set of another key takes the append path (mmkv_io.go:141), and the region
  starts with a pair where decoders skip a placeholder (encode.go:97-101).

## Proofs

The theorems hold for any processes, goroutines, values, page size, headroom,
calls, modes and bounds, except as said below. What they assume of the constants
is named in the modules: `StoreAssumption` (finitely many keys, a header smaller
than a page), `CoreAssumption` (single-process mode means one process),
`ReadersAssumption` (the reader and the backup are two of the processes, in
multi-process mode), `CrashAssumption`,
`FileLockAssumption` and `RegistryAssumption` (types only).

- `StoreFormatProofs`: lemmas on the replay of an append, an override and an
  encoded region, and on the grow and shrink arithmetic.
- `MMKVCoreProofs`: type correctness. `Locked` says what the flock counters
  exclude and which counter each place in a call holds; it survives kills and
  opens. `Basics` is the same for processes that stay open. It follows that all
  others are idle while a process is inside a write call (`WriterAlone`).
- `MMKVCoherence`: `DigestMatchesRegion`, `ViewsAreFresh`, `MappingIsFile`,
  `NoDanglingViews`, `NoSpuriousRecovery`, `RegionFits`, for processes that stay
  alive and have opened the store while it was quiescent. They are not inductive
  as they stand. The invariant `Coherent` says for each place in a call how far
  an instance agrees with the files. Its core is `Behind`: an instance whose
  sequence is the stored one has mapped the whole file, because every resize
  either comes before a new sequence is stored or, in `Trim`, finds the others
  already behind. What each store leaves is a lemma of its own
  (`AppendResult`, `GrowResult`, ...), which the crash proofs use again.
- `MMKVRefinement`: the store implements `KVMap` (`StoreImplementsMap`). The map
  `kv` is the pending region of the process that is writing, and what is stored
  when none is; a write takes effect with its first store. Each action is a step
  of `KVMap` or a stutter, because `Coherent` makes the view of the writer the
  stored map and the flock leaves one writer. `SameSequencePreservesViews` and,
  in multi-process mode, `LastConfirmedIntact` rest on `Kept`: an append stores
  behind whatever an instance with the stored sequence has loaded and behind the
  snapshot. `Coherent` alone does not say that; it speaks of an idle instance
  only as far as its next call will look at it.
- `ReadersProofs`: `FreshRead`, `SnapshotIsCommitted`, `BackupIsConsistent`. The
  invariant has two parts. `Sound` holds whoever has died: under the flock both
  files stand still, so what is built, published or copied there is what they
  hold. `Timely` holds while nobody has died: each load of the lockless probe
  gave contents the store had since the read began. The probe needs `Counted`,
  the number of loads made and not yet compared: a comparison that succeeds
  says something of the snapshot only through the digest, which is loaded first.
- `MMKVCrashProofs`: types and the flock discipline for any processes
  (`CrashTypeCorrect`). Under the hypothesis `Alone`, one process in either mode
  which is not both read-only and recovering, killed and restarted any number of
  times with any slots damaged in between: `CompletedCallsSurvive`,
  `NeverAMixture` and `StoresLeaveAGoodDigest`. The invariant `Restartable` says
  that the two digests in the meta are those of maps the history knows, that the
  current region is good while nothing has been torn, and that an instance
  between its stores shows what a load would show (`Settled`). The last part is
  needed because a rollback or a discard leaves the files as they are: until the
  next completed write the instance and a later open must come to the same
  decision. A kill in the copy of an append keeps the current region good because
  the torn slot lies behind it. TLC has checked `Restartable` on the instance of `restart` in both modes. A
  read-only process that recovers is left out because it goes on with a salvaged
  map which nobody writes back.
- `FileLockProofs`: the counters match the kernel, exclusion, no circular wait,
  and the implementation of `LockCounts` without conversions, including the death
  of a holder. The invariant adds what the kernel has granted at each place
  inside a call.
- `RegistryProofs`: the five safety properties of `Registry`. The invariant
  `RegistryInv` adds which locks a goroutine holds at each step, that nothing is
  registered while an open is under way, that an instance opened outside a
  removal keeps its files until it leaves the registry, and that what a restore
  has made out of date is flagged, or the restore that will flag it has not
  finished. The one delicate case is an open during a restore: it registers
  before the restore can take gInstanceMu, and is then flagged.

Model-checked only: what survivors see after a kill (`survive`, with
`TornAppendRollsBack`) and what processes see that open the store while others
write (`reopen`). There an instance may be wrong in ways that `open_grown` shows,
and the properties hold by what a later write of another process repairs; no
inductive invariant for that is given. The bytes (`encoded`) use recursive
definitions, and `EveryCallReturns` and `EveryReadReturns` are liveness; both
are out of the prover's reach.

## Not modelled

- Power loss: which mapped pages reach the disk, and with it Sync, Async and the
  order of the two msync calls. The models have one contents per file.
- A restore against instances of other processes, which compare sequences that
  the restore may set back, and against a Reader's mapping while the file is
  truncated.
- The empty key: setters accept it, decoders skip it without its value
  (reader.go:458), so what follows it in the log is decoded differently.
- Failing mmap, munmap, read and stat, EINTR and errors of flock.
- Reader.Close during a read, against which its fields are not guarded; IsFileValid and
  CheckExist, which read the files without a lock and return; the read-only
  open in `Registry`, which creates no files; the content-changed handler, Err
  and other accessors without state of their own.
- The one-shot Writer apart from the store it leaves, file names (path.go), and
  the fixture generator.
