-------------------------- MODULE StoreFormatProofs --------------------------
(***************************************************************************)
(* Facts about the log, its replay, its compaction and the file sizes, for *)
(* any keys, values and page size.                                         *)
(***************************************************************************)
EXTENDS StoreFormat, FiniteSetTheorems, TLAPS

-----------------------------------------------------------------------------
(***************************************************************************)
(* Replaying a log.                                                        *)
(***************************************************************************)
LEMMA SlotTypes ==
    /\ \A k \in Keys, v \in Vals \cup {NoVal} : Pair(k, v) \in Slot
    /\ ItemSizeHolder \in Slot /\ Zero \in Slot /\ Junk \in Slot
  BY DEF Pair, ItemSizeHolder, Zero, Junk, Slot

\* A key has at most one last write.
LEMMA LastWriteUnique ==
    ASSUME NEW r, NEW k, NEW i \in LastWrite(r, k), Len(r) \in Nat
    PROVE  (CHOOSE j \in LastWrite(r, k) : TRUE) = i
<1>1. \A j \in LastWrite(r, k) : j = i
  BY DEF LastWrite
<1> QED
  BY <1>1

\* The view of a key whose last write is not a tombstone is that write.
LEMMA ViewOfKey ==
    ASSUME NEW r, NEW k \in Keys, NEW i \in LastWrite(r, k), Len(r) \in Nat,
           r[i].val # NoVal
    PROVE  parseDict(r)[k] = i
  BY LastWriteUnique DEF parseDict

\* parseDict maps every key to a slot behind the placeholder, or to 0.
LEMMA ParseDictType == ASSUME NEW r PROVE parseDict(r) \in [Keys -> Nat]
<1>1. ASSUME NEW e, NEW i \in 2..e PROVE i \in Nat
  OBVIOUS
<1>2. ASSUME NEW k \in Keys PROVE LastWrite(r, k) \subseteq Nat
  BY <1>1 DEF LastWrite
<1>3. ASSUME NEW k \in Keys PROVE parseDict(r)[k] \in Nat
  BY <1>2 DEF parseDict
<1>4. parseDict(r) = [k \in Keys |-> parseDict(r)[k]]
  BY DEF parseDict
<1> QED
  BY <1>3, <1>4

LEMMA ParseDictRange ==
    ASSUME NEW r, Len(r) \in Nat, NEW k \in Keys
    PROVE  parseDict(r)[k] = 0 \/ parseDict(r)[k] \in 2..Len(r)
  BY LastWriteUnique DEF parseDict, LastWrite

LEMMA ParseEmpty == parseDict(<<>>) = [k \in Keys |-> 0]
  BY DEF parseDict, LastWrite

\* Appending a pair moves the view of its key, and of no other key, to the
\* new slot; appending a tombstone removes it.
LEMMA ParseAppend ==
    ASSUME NEW r \in Seq(Slot), Len(r) > 0,
           NEW k \in Keys, NEW v \in Vals \cup {NoVal}
    PROVE  parseDict(Append(r, Pair(k, v))) =
              [parseDict(r) EXCEPT ![k] = IF v = NoVal THEN 0 ELSE Len(r) + 1]
<1> DEFINE a == Append(r, Pair(k, v))
<1>1. /\ Len(a) = Len(r) + 1 /\ Len(r) \in Nat
      /\ \A i \in 1..Len(r) : a[i] = r[i]
      /\ a[Len(r) + 1].key = k /\ a[Len(r) + 1].val = v
  BY SlotTypes DEF Pair
<1> HIDE DEF a
<1>2. LastWrite(a, k) = {Len(r) + 1}
  BY <1>1 DEF LastWrite
<1>3. ASSUME NEW l \in Keys, l # k PROVE LastWrite(a, l) = LastWrite(r, l)
  BY <1>1, <1>3 DEF LastWrite
<1>4. ASSUME NEW l \in Keys, l # k PROVE parseDict(a)[l] = parseDict(r)[l]
  <2>1. \A i \in LastWrite(r, l) : a[i].val = r[i].val
    BY <1>1 DEF LastWrite
  <2>2. CASE \E i \in LastWrite(r, l) : r[i].val # NoVal
    <3>1. PICK i \in LastWrite(r, l) : r[i].val # NoVal
      BY <2>2
    <3>2. parseDict(r)[l] = i
      BY <3>1, <1>1, ViewOfKey
    <3>3. parseDict(a)[l] = i
      BY <3>1, <1>1, <1>3, <1>4, <2>1, ViewOfKey
    <3> QED
      BY <3>2, <3>3
  <2>3. CASE ~ \E i \in LastWrite(r, l) : r[i].val # NoVal
    BY <1>3, <1>4, <2>1, <2>3 DEF parseDict
  <2> QED
    BY <2>2, <2>3
<1>5. parseDict(a)[k] = IF v = NoVal THEN 0 ELSE Len(r) + 1
  BY <1>1, <1>2 DEF parseDict
<1>6. /\ parseDict(a) = [l \in Keys |-> parseDict(a)[l]]
      /\ parseDict(r) = [l \in Keys |-> parseDict(r)[l]]
  BY DEF parseDict
<1> QED
  BY <1>4, <1>5, <1>6 DEF a

LEMMA ParseOverride ==
    ASSUME NEW k \in Keys, NEW v \in Vals
    PROVE  parseDict(<<ItemSizeHolder, Pair(k, v)>>) =
              [l \in Keys |-> IF l = k THEN 2 ELSE 0]
<1> DEFINE r == <<ItemSizeHolder, Pair(k, v)>>
<1>1. Len(r) = 2 /\ r[2].key = k /\ r[2].val = v /\ v # NoVal
  BY StoreAssumption DEF Pair
<1> HIDE DEF r
<1>2. \A l \in Keys : LastWrite(r, l) = IF l = k THEN {2} ELSE {}
  BY <1>1 DEF LastWrite
<1>3. \A l \in Keys : parseDict(r)[l] = IF l = k THEN 2 ELSE 0
  BY <1>1, <1>2 DEF parseDict
<1>4. parseDict(r) = [l \in Keys |-> parseDict(r)[l]]
  BY DEF parseDict
<1> QED
  BY <1>3, <1>4 DEF r

-----------------------------------------------------------------------------
(***************************************************************************)
(* Regions of a file.                                                      *)
(***************************************************************************)
LEMMA RegionType ==
    ASSUME NEW mem \in Seq(Slot), NEW n \in Nat
    PROVE  Region(mem, n) \in Seq(Slot) /\ Len(Region(mem, n)) = n
<1>1. \A i \in 1..n : (IF i \in DOMAIN mem THEN mem[i] ELSE Zero) \in Slot
  BY SlotTypes
<1> QED
  BY <1>1 DEF Region

\* The views decoded from a region of a file read the same from the file.
LEMMA DerefRegion ==
    ASSUME NEW mem \in Seq(Slot), NEW n \in Nat, n <= Len(mem)
    PROVE  Deref(mem, parseDict(Region(mem, n))) = Contents(Region(mem, n))
<1> DEFINE r == Region(mem, n)
<1>1. r \in Seq(Slot) /\ Len(r) = n
  BY RegionType
<1>2. \A i \in 1..n : i \in DOMAIN mem /\ r[i] = mem[i]
  BY DEF Region
<1> HIDE DEF r
<1>3. \A k \in Keys : parseDict(r)[k] = 0 \/ parseDict(r)[k] \in 2..n
  BY <1>1, ParseDictRange
<1>4. ASSUME NEW k \in Keys
      PROVE  Deref(mem, parseDict(r))[k] = Deref(r, parseDict(r))[k]
  BY <1>1, <1>2, <1>3 DEF Deref
<1> QED
  BY <1>4 DEF r, Contents, Deref

\* The same for any region that lies at the front of a memory.
LEMMA ViewsOfFront ==
    ASSUME NEW mem \in Seq(Slot), NEW r \in Seq(Slot), Len(r) <= Len(mem),
           Region(mem, Len(r)) = r
    PROVE  Deref(mem, parseDict(r)) = Contents(r)
<1>1. Len(r) \in Nat
  OBVIOUS
<1> QED
  BY <1>1, DerefRegion

LEMMA EmptyContents == Contents(<<>>) = EmptyMap
<1>1. \A k \in Keys : parseDict(<<>>)[k] \notin DOMAIN <<>>
  OBVIOUS
<1> QED
  BY <1>1 DEF Contents, Deref, EmptyMap

\* An appended pair sets its key and an appended tombstone removes it.
LEMMA AppendContents ==
    ASSUME NEW r \in Seq(Slot), Len(r) > 0,
           NEW k \in Keys, NEW v \in Vals \cup {NoVal}
    PROVE  Contents(Append(r, Pair(k, v))) = [Contents(r) EXCEPT ![k] = v]
<1> DEFINE a == Append(r, Pair(k, v))
           d == parseDict(r)
<1>1. parseDict(a) = [d EXCEPT ![k] = IF v = NoVal THEN 0 ELSE Len(r) + 1]
  BY ParseAppend
<1>2. /\ Len(r) \in Nat /\ DOMAIN a = 1..(Len(r) + 1) /\ DOMAIN r = 1..Len(r)
      /\ a[Len(r) + 1] = Pair(k, v) /\ \A i \in 1..Len(r) : a[i] = r[i]
  <2>1. Pair(k, v) \in Slot
    BY SlotTypes
  <2> QED
    BY <2>1
<1>3. d \in [Keys -> Nat] /\ \A l \in Keys : d[l] = 0 \/ d[l] \in 2..Len(r)
  BY <1>2, ParseDictType, ParseDictRange
<1>4. Pair(k, v).val = v
  BY DEF Pair
<1> HIDE DEF a, d
<1>5. ASSUME NEW l \in Keys
      PROVE  Deref(a, parseDict(a))[l] = IF l = k THEN v ELSE Deref(r, d)[l]
  BY <1>1, <1>2, <1>3, <1>4 DEF Deref
<1>6. Deref(a, parseDict(a)) = [Deref(r, d) EXCEPT ![k] = v]
  BY <1>5 DEF Deref
<1> QED
  BY <1>6 DEF Contents, a, d

\* The region overrideRaw stores holds its pair and nothing else.
LEMMA OverrideContents ==
    ASSUME NEW k \in Keys, NEW v \in Vals
    PROVE  Contents(<<ItemSizeHolder, Pair(k, v)>>) = [EmptyMap EXCEPT ![k] = v]
<1> DEFINE r == <<ItemSizeHolder, Pair(k, v)>>
<1>1. parseDict(r) = [l \in Keys |-> IF l = k THEN 2 ELSE 0]
  BY ParseOverride
<1>2. DOMAIN r = 1..2 /\ r[2].val = v
  BY DEF Pair
<1> HIDE DEF r
<1>3. Deref(r, parseDict(r)) = [EmptyMap EXCEPT ![k] = v]
  BY <1>1, <1>2 DEF Deref, EmptyMap
<1> QED
  BY <1>3 DEF Contents, r

-----------------------------------------------------------------------------
(***************************************************************************)
(* Compacting a map into a region.                                         *)
(***************************************************************************)
\* encodeRegion lists every live key exactly once.
LEMMA OrderOfKeys ==
    ASSUME NEW S, IsFiniteSet(S)
    PROVE  /\ Cardinality(S) \in Nat
           /\ KeyOrder(S) \in [1..Cardinality(S) -> S]
           /\ \A i, j \in 1..Cardinality(S) :
                 KeyOrder(S)[i] = KeyOrder(S)[j] => i = j
           /\ \A x \in S : \E i \in 1..Cardinality(S) : KeyOrder(S)[i] = x
<1> DEFINE n == Cardinality(S)
           f == KeyOrder(S)
<1>1. n \in Nat /\ ExistsBijection(1..n, S)
  BY FS_CardinalityType
<1>2. \E g \in [1..n -> S] : IsInjective(g)
  BY <1>1 DEF ExistsBijection, Bijection, Injection
<1>3. f \in [1..n -> S] /\ IsInjective(f)
  BY <1>2 DEF KeyOrder
<1> HIDE DEF f
<1>4. \A i, j \in 1..n : f[i] = f[j] => i = j
  BY <1>3 DEF IsInjective
<1>5. ASSUME NEW x \in S, \A i \in 1..n : f[i] # x PROVE FALSE
  <2>1. f \in [1..n -> S \ {x}]
    BY <1>3, <1>5
  <2>2. IsFiniteSet(S \ {x}) /\ Cardinality(S \ {x}) = n - 1
    BY FS_RemoveElement
  <2>3. IsFiniteSet(1..n) /\ Cardinality(1..n) = n
    BY <1>1, FS_Interval
  <2>4. \E i, j \in 1..n : i # j /\ f[i] = f[j]
    BY <1>1, <2>1, <2>2, <2>3, FS_PigeonHole
  <2> QED
    BY <1>4, <2>4
<1> QED
  BY <1>1, <1>3, <1>4, <1>5 DEF f

LEMMA EncodeType ==
    ASSUME NEW map \in Maps
    PROVE  encodeRegion(map) \in Seq(Slot) /\ Len(encodeRegion(map)) > 0
<1> DEFINE S == Live(map)
           n == Cardinality(S)
<1>1. IsFiniteSet(S) /\ S \subseteq Keys
  BY FS_Subset, StoreAssumption DEF Live
<1>2. n \in Nat /\ KeyOrder(S) \in [1..n -> S]
  BY <1>1, OrderOfKeys
<1>3. ASSUME NEW i \in 1..(n+1)
      PROVE  (IF i = 1 THEN ItemSizeHolder
              ELSE Pair(KeyOrder(S)[i-1], map[KeyOrder(S)[i-1]])) \in Slot
  <2>1. CASE i = 1
    BY <2>1, SlotTypes
  <2>2. CASE i # 1
    <3>1. KeyOrder(S)[i-1] \in Keys
      BY <1>1, <1>2, <2>2
    <3>2. map[KeyOrder(S)[i-1]] \in Vals \cup {NoVal}
      BY <3>1 DEF Maps
    <3> QED
      BY <2>2, <3>1, <3>2, SlotTypes
  <2> QED
    BY <2>1, <2>2
<1>4. encodeRegion(map) \in [1..(n+1) -> Slot]
  BY <1>3 DEF encodeRegion
<1> QED
  BY <1>2, <1>4

\* A compacted region stands for the map it was made from: the write-back
\* neither loses nor invents a key.
LEMMA EncodeContents ==
    ASSUME NEW map \in Maps
    PROVE  Contents(encodeRegion(map)) = map
<1> DEFINE S == Live(map)
           n == Cardinality(S)
           f == KeyOrder(S)
           r == encodeRegion(map)
<1>1. IsFiniteSet(S) /\ S \subseteq Keys
  BY FS_Subset, StoreAssumption DEF Live
<1>2. /\ n \in Nat /\ f \in [1..n -> S]
      /\ \A i, j \in 1..n : f[i] = f[j] => i = j
      /\ \A x \in S : \E i \in 1..n : f[i] = x
  BY <1>1, OrderOfKeys
<1>3. r \in Seq(Slot) /\ Len(r) = n + 1 /\ DOMAIN r = 1..(n+1)
  BY <1>2, EncodeType DEF encodeRegion
<1>4. \A i \in 2..(n+1) : r[i].key = f[i-1] /\ r[i].val = map[f[i-1]]
  BY <1>2 DEF encodeRegion, Pair
<1> HIDE DEF f, r, n
<1>5. ASSUME NEW k \in Keys PROVE Contents(r)[k] = map[k]
  <2>1. CASE k \in S
    <3>1. PICK i \in 1..n : f[i] = k
      BY <1>2, <2>1
    <3>2. i + 1 \in LastWrite(r, k)
      BY <1>2, <1>3, <1>4, <3>1 DEF LastWrite
    <3>3. r[i+1].val = map[k] /\ map[k] # NoVal
      BY <1>2, <1>4, <2>1, <3>1 DEF Live
    <3>4. parseDict(r)[k] = i + 1
      BY <1>2, <1>3, <3>2, <3>3, ViewOfKey
    <3> QED
      BY <1>2, <1>3, <3>3, <3>4 DEF Contents, Deref
  <2>2. CASE k \notin S
    <3>1. LastWrite(r, k) = {}
      BY <1>2, <1>3, <1>4, <2>2 DEF LastWrite
    <3>2. parseDict(r)[k] = 0 /\ map[k] = NoVal
      BY <2>2, <3>1 DEF parseDict, Live
    <3> QED
      BY <1>3, <3>2 DEF Contents, Deref
  <2> QED
    BY <2>1, <2>2
<1> QED
  BY <1>5 DEF Contents, Deref, Maps, r

-----------------------------------------------------------------------------
(***************************************************************************)
(* File sizes.                                                             *)
(***************************************************************************)
LEMMA CeilDiv ==
    ASSUME NEW n \in Nat, NEW p \in Nat, p > 0
    PROVE  /\ ((n + p - 1) \div p) * p \in Nat
           /\ ((n + p - 1) \div p) * p >= n
<1> DEFINE q == (n + p - 1) \div p
           r == (n + p - 1) % p
<1>1. q \in Nat /\ r \in 0..(p-1) /\ n + p - 1 = p * q + r
  OBVIOUS
<1> QED
  BY <1>1

LEMMA RoundUp ==
    ASSUME NEW n \in Nat
    PROVE  pageRoundUp(n) \in Nat /\ pageRoundUp(n) >= n
           /\ pageRoundUp(n) >= PageSize
  BY CeilDiv, StoreAssumption DEF pageRoundUp

LEMMA ResizeType ==
    ASSUME NEW mem \in Seq(Slot), NEW n \in Nat
    PROVE  /\ Resize(mem, n) \in Seq(Slot) /\ Len(Resize(mem, n)) = n
           /\ \A i \in 1..n : i <= Len(mem) => Resize(mem, n)[i] = mem[i]
<1>1. \A i \in 1..n : (IF i \in DOMAIN mem THEN mem[i] ELSE Zero) \in Slot
  BY SlotTypes
<1> QED
  BY <1>1 DEF Resize

\* The size a write-back grows the file to leaves room for the region.
LEMMA GrownFits ==
    ASSUME NEW size \in Nat, NEW n \in Nat, NEW items \in Nat,
           NEW incoming \in Nat,
           NEW m \in DoubledPast(size, GrowTarget(n, items, incoming))
    PROVE  m \in Nat /\ m > HeaderSize + n
<1>1. GrowTarget(n, items, incoming) \in Nat
      /\ GrowTarget(n, items, incoming) >= HeaderSize + n
  <2>1. CASE incoming = 0
    BY <2>1, StoreAssumption DEF GrowTarget, LenNeeded
  <2>2. CASE incoming # 0
    <3> DEFINE need == LenNeeded(n, incoming)
               later == items + 1
               avg == (need + later - 1) \div later
               room == IF HeadroomItems >= later \div 2 THEN HeadroomItems
                                                        ELSE later \div 2
    <3>1. need \in Nat /\ need >= HeaderSize + n
      BY StoreAssumption DEF LenNeeded
    <3> HIDE DEF need
    <3>2. avg \in Nat
      BY <3>1
    <3>3. room \in Nat
      BY StoreAssumption
    <3> HIDE DEF avg, room
    <3>4. avg * room \in Nat
      BY <3>2, <3>3
    <3>5. GrowTarget(n, items, incoming) = need + avg * room
      BY <2>2 DEF GrowTarget, need, avg, room
    <3> QED
      BY <3>1, <3>4, <3>5, StoreAssumption
  <2> QED
    BY <2>1, <2>2
<1> QED
  BY <1>1, StoreAssumption DEF DoubledPast

\* The size Trim halves the file to still holds the region.
LEMMA HalvedFits ==
    ASSUME NEW size \in Nat, NEW need \in Nat, need <= size,
           NEW t \in HalvedTo(size, need)
    PROVE  t \in Nat /\ t >= need
  BY DEF HalvedTo
=============================================================================
