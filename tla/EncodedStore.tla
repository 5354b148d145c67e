----------------------------- MODULE EncodedStore -----------------------------
(***************************************************************************)
(* One instance and its two files, byte by byte: what the setters encode,  *)
(* encryption, key expiration, compare-before-set and ImportFrom           *)
(* (mmkv_io.go, mmkv_crypt.go, mmkv_expire.go, mmkv_compare.go).           *)
(*                                                                         *)
(* Calls are atomic here: module MMKVCore is about their interleaving.  A  *)
(* system call of a write-back may fail (no random bytes, no space for a   *)
(* grown file, an msync error), and the call then returns an error.        *)
(*                                                                         *)
(* AES is symbolic: a sealed byte yields its plaintext under the key and   *)
(* the IV it was sealed with, and any byte otherwise.  The CRC is right at *)
(* every load, as MMKVCore establishes, so a load always decodes.          *)
(***************************************************************************)
EXTENDS WireFormat

CONSTANTS
    Names,      \* the keys, as byte strings
    Values,     \* names of the values
    Typed,      \* per value: its type and the value itself
    Settings,   \* the pairs of a key and a value that are set
    CryptKeys,  \* the AES keys
    NoKey,      \* no encryption
    Durations,  \* the parameters of EnableAutoKeyExpire
    Sources,    \* the contents another instance may have for ImportFrom
    HeaderSize, \* the 4 bytes in front of the region
    PageSize,
    MaxNow,     \* bound on the clock
    MaxPairs,   \* bound: no pair is appended to a log of this many pairs
    MaxFaults   \* bound on failing system calls

ASSUME EncodedAssumption ==
    /\ Names \subseteq Seq(Byte) \ {<<>>}
    /\ Settings \subseteq Names \X Values
    /\ NoKey \notin CryptKeys
    /\ Durations \subseteq 0 .. Word32 - 1
    /\ HeaderSize < PageSize
    /\ MaxNow < Word32

VARIABLES
    s,      \* the instance and its two files
    now,    \* the clock
    faults, \* failed system calls so far
    kept,   \* history: per key, the value last set and until when it is valid
    period  \* history: the period of EnableAutoKeyExpire, or Off

vars == <<s, now, faults, kept, period>>

Off == -1
versionFlag == 4

NotSealed == [by |-> <<>>, len |-> 0]

\* The last two fields are history: the pairs of the log, and whether the files
\* hold what the instance holds ("same"): not so after a failed write-back
\* ("stale") and with a plaintext tombstone behind ciphertext ("tombed"), until
\* the next rewrite.
Fresh(key) ==
    [dict |-> EmptyDict, actualSize |-> 0, needLoad |-> FALSE,
     enableExpire |-> FALSE, expiredSeconds |-> 0, compareBeforeSet |-> FALSE,
     crypt |-> key, err |-> FALSE,
     region |-> <<>>, sealed |-> NotSealed, version |-> 0, iv |-> 0,
     flag |-> FALSE, fileSize |-> PageSize,
     pairs |-> <<>>, agree |-> "same"]

Absent == <<>>
Init ==
    /\ \E key \in CryptKeys \cup {NoKey} : s = Fresh(key)
    /\ now = 1 /\ faults = 0
    /\ kept = [k \in Names |-> Absent]
    /\ period = Off

-----------------------------------------------------------------------------
(***************************************************************************)
(* Loading.                                                                *)
(***************************************************************************)
\* Decrypt of the region; junk stands for what comes out of a byte that was not
\* sealed under this key and IV, or of a sealed one read without a key.
Deciphered(t, junk) ==
    LET clear(i) == IF i <= t.sealed.len THEN t.sealed.by = <<t.crypt, t.iv>>
                                         ELSE t.crypt = NoKey
    IN  [i \in DOMAIN t.region |-> IF clear(i) THEN t.region[i] ELSE junk]

\* loadData and decodeRegion; an error keeps what was there before.
loadData(t, junk) ==
    LET d == parseDict(Deciphered(t, junk))
        u == [t EXCEPT !.enableExpire = t.version >= versionFlag /\ t.flag,
                       !.needLoad = FALSE]
    IN  IF d.ok THEN [u EXCEPT !.dict = d.dict, !.actualSize = Len(t.region)]
                ELSE u

checkLoadData(t) == IF t.needLoad THEN loadData(t, 0) ELSE t

\* value: with expiration on, the timestamp is stripped and an expired key is
\* absent.
value(t, k, clock) ==
    IF k \notin DOMAIN t.dict THEN Absent
    ELSE LET v == t.dict[k]
             n == Len(v) - WordLen
             ts == readFixed(Drop(v, n), WordLen).val
         IN  IF ~t.enableExpire \/ n < 0 THEN <<v>>
             ELSE IF ts # 0 /\ ts <= clock THEN Absent
             ELSE <<SubSeq(v, 1, n)>>

-----------------------------------------------------------------------------
(***************************************************************************)
(* Storing.                                                                *)
(***************************************************************************)
Before(a, b) ==   \* the order of sort.Strings
    \E i \in 1 .. Min({Len(b), Len(a) + 1}) :
        /\ i > Len(a) \/ a[i] < b[i]
        /\ \A j \in 1 .. i - 1 : a[j] = b[j]

pageRoundUp(n) == Max({PageSize, ((n + PageSize - 1) \div PageSize) * PageSize})

RECURSIVE doubledPast(_, _)
doubledPast(size, target) ==
    IF target >= size THEN doubledPast(2 * size, target) ELSE size

RECURSIVE halvedTo(_, _)
halvedTo(size, need) == IF size > 2 * need THEN halvedTo(size \div 2, need) ELSE size

\* fault names the system call that fails: "iv", "truncate" or "msync".
Failed(t) == [t EXCEPT !.err = TRUE, !.agree = "stale"]

fullWritebackGrow(t, needSync, incoming, fault) ==
    LET order == SetToSortSeq(DOMAIN t.dict, Before)
        plain == encodeRegion(order, t.dict)
        lenNeeded == HeaderSize + Len(plain) + incoming
        later == Max({1, Cardinality(DOMAIN t.dict) + 1})
        avg == (lenNeeded + later - 1) \div later
        target == IF incoming = 0 THEN lenNeeded
                  ELSE lenNeeded + avg * Max({8, later \div 2})
        grow == \/ lenNeeded >= t.fileSize
                \/ incoming > 0 /\ needSync /\ target >= t.fileSize
        iv == IF t.crypt = NoKey THEN t.iv ELSE 1 - t.iv     \* a fresh one
        parsed == parseDict(plain)
    IN  IF (fault = "iv" /\ t.crypt # NoKey) \/ (fault = "truncate" /\ grow)
        THEN Failed(t)
        ELSE [t EXCEPT
                !.fileSize = IF grow THEN pageRoundUp(doubledPast(@, target)) ELSE @,
                !.region = plain, !.actualSize = Len(plain), !.iv = iv,
                !.sealed = IF t.crypt = NoKey THEN NotSealed
                           ELSE [by |-> <<t.crypt, iv>>, len |-> Len(plain)],
                !.version = versionFlag, !.flag = t.enableExpire,
                !.dict = IF parsed.ok THEN parsed.dict ELSE @,
                !.err = ~parsed.ok \/ (needSync /\ fault = "msync"),
                !.pairs = [i \in DOMAIN order |-> <<order[i], t.dict[order[i]]>>],
                !.agree = "same"]

fullWriteback(t, fault) == fullWritebackGrow(t, TRUE, 0, fault)

\* Mutant: the header is forgotten.
spaceLeftNoHeader(t) == t.fileSize - t.actualSize

spaceLeft(t) == t.fileSize - HeaderSize - t.actualSize

appendRaw(t, key, blob) ==
    [t EXCEPT !.region = @ \o pairOf(key, blob),
              !.actualSize = @ + Len(pairOf(key, blob)),
              !.pairs = Append(@, <<key, blob>>)]

overrideRaw(t, key, blob) ==
    LET region == writeRawVarint(itemSizeHolder) \o pairOf(key, blob)
    IN  [t EXCEPT !.region = region, !.actualSize = Len(region),
                  !.sealed = NotSealed, !.dict = apply(@, key, blob),
                  !.pairs = <<<<key, blob>>>>]

\* Mutant: an encrypted store takes the fast paths too.
fastOKEncrypted(t) == t.version >= versionFlag

fastOK(t) == t.crypt = NoKey /\ t.version >= versionFlag

\* Every key was removed but bytes remain, or this key is the only one.
mayOverride(t, key) ==
    DOMAIN t.dict = {key} \/ (DOMAIN t.dict = {} /\ t.actualSize > 0)

setBlob(t, key, blob, fault) ==
    LET len == Len(pairOf(key, blob))
    IN  IF /\ fastOK(t) /\ mayOverride(t, key)
           /\ HeaderSize + Len(writeRawVarint(itemSizeHolder)) + len <= t.fileSize
        THEN overrideRaw(t, key, blob)
        ELSE IF fastOK(t) /\ len <= spaceLeft(t) /\ DOMAIN t.dict # {}
        THEN [appendRaw(t, key, blob) EXCEPT !.dict = apply(@, key, blob)]
        ELSE fullWritebackGrow([t EXCEPT !.dict = apply(@, key, blob)],
                               DOMAIN t.dict # {}, len, fault)

appendExpire(blob, seconds, clock) ==
    blob \o writeLittleEndian(IF seconds = 0 THEN 0 ELSE (clock + seconds) % Word32,
                              WordLen)

setValueLocked(t, key, blob, fault) ==
    IF /\ t.compareBeforeSet /\ ~t.enableExpire
       /\ key \in DOMAIN t.dict /\ t.dict[key] = blob
    THEN t
    ELSE IF t.enableExpire
    THEN setBlob(t, key, appendExpire(blob, t.expiredSeconds, now), fault)
    ELSE setBlob(t, key, blob, fault)

removeValue(t, key, fault) ==
    LET u == [t EXCEPT !.dict = apply(@, key, <<>>)]
    IN  IF key \notin DOMAIN t.dict THEN t
        ELSE IF /\ Len(pairOf(key, <<>>)) <= spaceLeft(t)
                /\ t.version >= versionFlag /\ t.actualSize > 0
        THEN [appendRaw(u, key, <<>>) EXCEPT
                !.agree = IF t.crypt # NoKey /\ @ = "same" THEN "tombed" ELSE @]
        ELSE fullWriteback(u, fault)

removeValues(t, keys, fault) ==
    IF DOMAIN t.dict \cap keys = {} THEN t
    ELSE fullWriteback([t EXCEPT !.dict = [k \in DOMAIN @ \ keys |-> @[k]]], fault)

clearAllLocked(t, fault) ==
    IF fault = "truncate" /\ t.fileSize # PageSize THEN [t EXCEPT !.err = TRUE]
    ELSE [t EXCEPT !.fileSize = PageSize, !.region = <<>>, !.sealed = NotSealed,
                   !.dict = EmptyDict, !.actualSize = 0,
                   !.version = versionFlag, !.flag = t.enableExpire,
                   !.err = fault = "msync", !.pairs = <<>>, !.agree = "same"]

\* A write-back that fails before it stores leaves everything as it was.
trim(t, fault) ==
    LET w == fullWriteback(t, fault)
        size == Max({PageSize, halvedTo(w.fileSize, w.actualSize + HeaderSize)})
    IN  IF t.actualSize = 0 THEN clearAllLocked(t, fault)
        ELSE IF w.err /\ fault # "msync" THEN [t EXCEPT !.err = TRUE]
        ELSE IF w.err \/ size >= w.fileSize THEN w
        ELSE IF fault = "truncate" THEN [w EXCEPT !.err = TRUE]
        ELSE [w EXCEPT !.fileSize = pageRoundUp(size)]

\* Mutant: values that carry a timestamp already get another one.
enableExpireTwice(t, seconds, fault) ==
    fullWriteback([t EXCEPT
        !.expiredSeconds = seconds, !.enableExpire = TRUE,
        !.compareBeforeSet = FALSE,
        !.dict = [k \in DOMAIN @ |-> appendExpire(@[k], 0, now)]], fault)

enableAutoKeyExpire(t, seconds, fault) ==
    fullWriteback([t EXCEPT
        !.expiredSeconds = seconds, !.enableExpire = TRUE,
        !.compareBeforeSet = FALSE,
        !.dict = IF t.enableExpire THEN @
                 ELSE [k \in DOMAIN @ |-> appendExpire(@[k], 0, now)]], fault)

disableAutoKeyExpire(t, fault) ==
    LET live == {k \in DOMAIN t.dict : value(t, k, now) # Absent}
    IN  IF ~t.enableExpire THEN t
        ELSE fullWriteback([t EXCEPT
                !.dict = [k \in live |-> value(t, k, now)[1]],
                !.enableExpire = FALSE, !.expiredSeconds = 0], fault)

\* An error takes the old key back.  The files have the new one if it was msync
\* that failed, and are unchanged otherwise.
reKey(t, key, fault) ==
    LET w == fullWriteback([t EXCEPT !.crypt = key], fault)
    IN  IF ~w.err THEN w
        ELSE [w EXCEPT !.crypt = t.crypt,
                       !.agree = IF fault # "msync" THEN t.agree
                                 ELSE IF key = t.crypt THEN "same" ELSE "stale"]

-----------------------------------------------------------------------------
(***************************************************************************)
(* The calls.                                                              *)
(***************************************************************************)
Blob(x) == blobOf(Typed[x].type, Typed[x].val)
Keep(x) == <<[val |-> x, until |-> IF period \in {Off, 0} THEN 0 ELSE now + period]>>

\* The instance as a call finds it after checkLoadData.
Entered == checkLoadData(s)

\* Bound: an instance is not followed that would load files which do not hold
\* what it holds.
MayLoad == s.agree = "same"

Faults == {"none"} \cup IF faults < MaxFaults THEN {"iv", "truncate", "msync"} ELSE {}
Room == Len(s.pairs) < MaxPairs

\* The call ends with t.
Ends(t, fault) ==
    /\ fault # "none" => t.err
    /\ s' = [t EXCEPT !.err = FALSE]
    /\ faults' = IF fault = "none" THEN faults ELSE faults + 1
    /\ UNCHANGED now

Set(k, x) ==
    /\ Room
    /\ \E fault \in Faults :
          Ends(setValueLocked(Entered, k, Blob(x), fault), fault)
    /\ kept' = [kept EXCEPT ![k] = Keep(x)]
    /\ UNCHANGED period

\* The keys come in any order; an error in the n-th set ends the import.
ImportFrom(src) ==
    /\ Room
    /\ \E order \in SetToSeqs(DOMAIN src), n \in 1..Cardinality(DOMAIN src) :
       \E fault \in Faults :
          LET One(u, i) ==
                  setValueLocked(u, order[i], Blob(src[order[i]]),
                                 IF i = n THEN fault ELSE "none")
              last == IF fault = "none" THEN Len(order) ELSE n
              done == {order[i] : i \in 1..last}
          IN  /\ fault = "none" => n = 1
              /\ Ends(FoldLeft(One, Entered, [i \in 1..last |-> i]), fault)
              /\ kept' = [k \in Names |-> IF k \in done THEN Keep(src[k]) ELSE kept[k]]
    /\ UNCHANGED period

RemoveValueForKey(k) ==
    /\ Room
    /\ \E fault \in Faults : Ends(removeValue(Entered, k, fault), fault)
    /\ kept' = [kept EXCEPT ![k] = Absent]
    /\ UNCHANGED period

RemoveValuesForKeys(keys) ==
    /\ \E fault \in Faults : Ends(removeValues(Entered, keys, fault), fault)
    /\ kept' = [k \in Names |-> IF k \in keys THEN Absent ELSE kept[k]]
    /\ UNCHANGED period

\* A truncate that fails leaves the store as it is.
ClearAll ==
    /\ \E fault \in Faults :
          /\ Ends(clearAllLocked(Entered, fault), fault)
          /\ kept' = IF fault = "truncate" THEN kept ELSE [k \in Names |-> Absent]
    /\ UNCHANGED period

\* Trimming an empty region clears; that also drops what a first set that failed
\* has left in memory.
Trim ==
    /\ \E fault \in Faults :
          /\ Ends(trim(Entered, fault), fault)
          /\ kept' = IF Entered.actualSize = 0 /\ fault # "truncate"
                     THEN [k \in Names |-> Absent] ELSE kept
    /\ UNCHANGED period

EnableAutoKeyExpire(seconds) ==
    /\ \E fault \in Faults :
          Ends(enableAutoKeyExpire(Entered, seconds, fault), fault)
    /\ period' = seconds
    /\ UNCHANGED kept

\* What is still valid stays for good.
Settled(e) ==
    IF e = Absent \/ period = Off \/ e[1].until = 0 \/ e[1].until >= Word32 THEN e
    ELSE IF e[1].until <= now THEN Absent
    ELSE <<[e[1] EXCEPT !.until = 0]>>

DisableAutoKeyExpire ==
    /\ \E fault \in Faults : Ends(disableAutoKeyExpire(Entered, fault), fault)
    /\ kept' = [k \in Names |-> Settled(kept[k])]
    /\ period' = Off

ReKey(key) ==
    /\ \E fault \in Faults : Ends(reKey(Entered, key, fault), fault)
    /\ UNCHANGED <<kept, period>>

\* Enabling has no effect while expiration is on.
CompareBeforeSet(on) ==
    /\ Ends([s EXCEPT !.compareBeforeSet = IF s.enableExpire /\ on THEN @ ELSE on],
            "none")
    /\ UNCHANGED <<kept, period>>

ClearMemoryCache ==
    /\ MayLoad
    /\ Ends([s EXCEPT !.dict = EmptyDict, !.actualSize = 0, !.needLoad = TRUE], "none")
    /\ UNCHANGED <<kept, period>>

\* Close, and MMKVWithID with the same key; the period is not stored.
Reopened(junk) ==
    loadData([s EXCEPT !.dict = EmptyDict, !.actualSize = 0, !.expiredSeconds = 0,
                       !.compareBeforeSet = FALSE], junk)

Reopen ==
    /\ MayLoad
    /\ Ends(Reopened(0), "none")
    /\ period' = IF period = Off THEN Off ELSE 0
    /\ UNCHANGED kept

Tick == now < MaxNow /\ now' = now + 1 /\ UNCHANGED <<s, faults, kept, period>>

Next ==
    \/ \E kx \in Settings : Set(kx[1], kx[2])
    \/ \E k \in Names : RemoveValueForKey(k)
    \/ \E keys \in SUBSET Names : RemoveValuesForKeys(keys)
    \/ \E src \in Sources : ImportFrom(src)
    \/ ClearAll \/ Trim
    \/ \E seconds \in Durations : EnableAutoKeyExpire(seconds)
    \/ DisableAutoKeyExpire
    \/ \E key \in CryptKeys \cup {NoKey} : ReKey(key)
    \/ \E on \in BOOLEAN : CompareBeforeSet(on)
    \/ ClearMemoryCache \/ Reopen \/ Tick

Spec == Init /\ [][Next]_vars

-----------------------------------------------------------------------------
(***************************************************************************)
(* Properties.                                                             *)
(***************************************************************************)
\* What the typed getters return.
Get(t, k, type) ==
    LET v == value(t, k, now) IN IF v = Absent THEN Absent ELSE getOf(type, v[1])

Valid(e) == e # Absent /\ (e[1].until = 0 \/ now < e[1].until)
Wraps(e) == e[1].until >= Word32

\* A getter returns the value last set under the key with the same type, until
\* the time the expiration policy at that set gave it, whatever was encrypted,
\* decrypted, expired, compacted, reloaded or left half-way by an error since.
\* Nothing is said of a timestamp that wraps at 32 bits (appendExpire).
InstanceShowsTheCalls ==
    /\ DOMAIN Entered.dict \subseteq Names
    /\ \A k \in Names :
          IF Valid(kept[k])
          THEN LET x == Typed[kept[k][1].val]
               IN  Wraps(kept[k]) \/ Get(Entered, k, x.type) = <<x.val>>
          ELSE value(Entered, k, now) = Absent

\* Whoever loads the files next gets the same dictionary and the same expire
\* flag: the region is decoded with the key and the IV it was sealed with, and
\* its values carry timestamps exactly when the flag says so.
ReloadShowsTheSame ==
    s.agree = "same" /\ ~s.needLoad =>
        LET t == Reopened(0)
        IN  t.dict = s.dict /\ t.enableExpire = s.enableExpire

\* A region ends within the file, to the byte.
RegionFitsTheFile == HeaderSize + Len(s.region) <= s.fileSize

\* The map a list of pairs stands for: the last value of every key, unless it is
\* empty.
MapOf(pairs) ==
    LET Of(k) == {i \in DOMAIN pairs : pairs[i][1] = k}
        keys == {pairs[i][1] : i \in DOMAIN pairs}
    IN  [k \in {k \in keys : pairs[Max(Of(k))][2] # <<>>} |-> pairs[Max(Of(k))][2]]

\* The greedy decode of a plaintext region cut off at any byte is the store after
\* one of its pairs: it invents no value and skips none (parseDictGreedy, "stops
\* at the first malformed one").
CutRegionIsEarlierState ==
    s.sealed.len = 0 /\ s.agree = "same" =>
        LET after == [i \in 0..Len(s.pairs) |-> MapOf(SubSeq(s.pairs, 1, i))]
            cut == [n \in 0..Len(s.region) |-> parseDictGreedy(SubSeq(s.region, 1, n))]
        IN  /\ \A n \in DOMAIN cut : \E i \in DOMAIN after : cut[n] = after[i]
            /\ cut[Len(s.region)] = after[Len(s.pairs)]

\* The tombstone of a removed key is "durable + visible cross-process"
\* (RemoveValueForKey): whoever loads the files sees the key removed.
RemoveIsVisible == s.agree = "tombed" => \A junk \in Byte : Reopened(junk).dict = s.dict

\* Every region begins with the placeholder ("at the start of the KV region",
\* itemSizeHolder), which the decoders skip.
RegionStartsWithHolder ==
    s.region # <<>> => IsPrefix(writeRawVarint(itemSizeHolder), s.region)
=============================================================================
