------------------------------ MODULE StoreFormat ------------------------------
(***************************************************************************)
(* The data file of one MMKV store and the pure computations on it: the    *)
(* append log, its replay into a dictionary, the compacted region, and the *)
(* file-size arithmetic (encode.go, reader.go, memfile.go, mmkv_io.go).    *)
(*                                                                         *)
(* Sizes are counted in slots.  A slot holds one log item: the region      *)
(* placeholder, one key/value pair, or one tombstone.  The 4-byte legacy   *)
(* header in front of the region takes HeaderSize slots.                   *)
(*                                                                         *)
(* A CRC32 digest is represented by the bytes it digests, so two different *)
(* regions never collide and crc32.Update is Append.                       *)
(***************************************************************************)
EXTENDS Integers, Sequences, FiniteSets, FiniteSetsExt

CONSTANTS
    Keys,           \* the keys of the store
    Vals,           \* the value blobs (never empty, see encode.go)
    NoVal,          \* the empty value: a deletion marker, or "absent"
    HeaderSize,     \* slots of the legacy header (the 4 of "offset 4")
    PageSize,       \* slots of one page
    HeadroomItems   \* the 8 of max(8, laterDicCount/2)

ASSUME StoreAssumption ==
    /\ IsFiniteSet(Keys)
    /\ Keys \cap {"holder", "zero", "junk"} = {}
    /\ NoVal \notin Vals
    /\ HeaderSize \in Nat \ {0}
    /\ PageSize \in Nat
    /\ HeaderSize < PageSize
    /\ HeadroomItems \in Nat

-----------------------------------------------------------------------------
Slot == [key : Keys \cup {"holder", "zero", "junk"}, val : Vals \cup {NoVal}]
Pair(k, v) == [key |-> k, val |-> v]
Tombstone(k) == Pair(k, NoVal)
ItemSizeHolder == Pair("holder", NoVal)   \* the region placeholder
Zero == Pair("zero", NoVal)               \* bytes ftruncate has just added
Junk == Pair("junk", NoVal)               \* bytes that decode to no item

Maps == [Keys -> Vals \cup {NoVal}]
EmptyMap == [k \in Keys |-> NoVal]

\* The bytes mem[4 : 4+n] of a data file.
Region(mem, n) == [i \in 1..n |-> IF i \in DOMAIN mem THEN mem[i] ELSE Zero]

(***************************************************************************)
(* parseDict: replay the log, last write wins, an empty value deletes.     *)
(* The first item is skipped.  The result maps a key to its view, that is  *)
(* the slot in which its value lies, or to 0.                              *)
(***************************************************************************)
LastWrite(region, k) ==
    {i \in 2..Len(region) :
        /\ region[i].key = k
        /\ \A j \in (i+1)..Len(region) : region[j].key # k}

parseDict(region) ==
    [k \in Keys |->
        IF \E i \in LastWrite(region, k) : region[i].val # NoVal
        THEN CHOOSE i \in LastWrite(region, k) : TRUE
        ELSE 0]

\* parseDictGreedy: replay up to the first item that does not decode.
parseDictGreedy(region) ==
    LET good == {n \in 0..Len(region) : \A i \in 1..n : region[i] # Junk}
    IN  parseDict(SubSeq(region, 1, Max(good)))

\* What the views of a dictionary show when they are read from memory mem.
Deref(mem, dict) ==
    [k \in Keys |->
        IF dict[k] \in DOMAIN mem THEN mem[dict[k]].val ELSE NoVal]

\* The map a region stands for.
Contents(region) == Deref(region, parseDict(region))

Live(map) == {k \in Keys : map[k] # NoVal}

\* encodeRegion: the placeholder, then one pair per live key in a fixed order.
KeyOrder(S) == CHOOSE f \in [1..Cardinality(S) -> S] : IsInjective(f)

encodeRegion(map) ==
    LET order == KeyOrder(Live(map))
    IN  [i \in 1..(Cardinality(Live(map)) + 1) |->
            IF i = 1 THEN ItemSizeHolder ELSE Pair(order[i-1], map[order[i-1]])]

-----------------------------------------------------------------------------
(***************************************************************************)
(* File sizes.                                                             *)
(***************************************************************************)
pageRoundUp(n) ==
    IF n <= PageSize THEN PageSize
                     ELSE ((n + PageSize - 1) \div PageSize) * PageSize

\* ftruncate: a grown file reads as zero, a shrunk one loses its tail.
Resize(mem, n) == [i \in 1..n |-> IF i \in DOMAIN mem THEN mem[i] ELSE Zero]

\* Slots a write-back of a region of n slots needs when a pair of `incoming`
\* slots triggered it, and the size it aims at with headroom for more items.
LenNeeded(n, incoming) == HeaderSize + n + incoming
GrowTarget(n, items, incoming) ==
    IF incoming = 0
    THEN LenNeeded(n, 0)
    ELSE LET later == items + 1
             avg   == (LenNeeded(n, incoming) + later - 1) \div later
             room  == IF HeadroomItems >= later \div 2 THEN HeadroomItems
                                                       ELSE later \div 2
         IN  LenNeeded(n, incoming) + avg * room

\* Whether fullWritebackGrow grows a file of the given size first.
MustGrow(size, n, items, incoming, needSync) ==
    \/ LenNeeded(n, incoming) >= size
    \/ incoming > 0 /\ needSync /\ GrowTarget(n, items, incoming) >= size

\* "for target >= newSize { newSize *= 2 }": the sizes the loop can end with.
DoubledPast(size, target) ==
    {n \in size..(size + 2 * target) :
        /\ n > target
        /\ n = size \/ n <= 2 * target
        /\ \E i \in 0..target : n = size * 2^i}

\* "for target > need*2 { target /= 2 }", then the one-page floor.
HalvedTo(size, need) ==
    {t \in 0..size :
        /\ t <= 2 * need
        /\ \/ t = size
           \/ \E prev \in 0..size : /\ prev > 2 * need
                                    /\ t = prev \div 2
                                    /\ \E i \in 0..size : prev = size \div 2^i}
=============================================================================
