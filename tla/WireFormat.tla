------------------------------ MODULE WireFormat ------------------------------
(***************************************************************************)
(* The wire format (wire.go, encode.go, reader.go: parseDict): varints,    *)
(* fixed-width integers, length-delimited fields, value blobs, and the log *)
(* of pairs, byte by byte.                                                 *)
(*                                                                         *)
(* The widths are scaled: a byte is below 2 * Base, where Base is the 0x80 *)
(* of the code, and a 32-bit word has WordLen bytes.  A codedInput is the  *)
(* part of its buffer that it has not read.                                *)
(***************************************************************************)
EXTENDS Integers, Sequences, FiniteSets, FiniteSetsExt, SequencesExt, TLC

CONSTANTS
    Base,           \* 0x80: the continuation bit of a varint byte
    WordLen,        \* bytes of a 32-bit word; a 64-bit word has twice as many
    MaxVarintLen,   \* the 10 bytes that hold a 64-bit varint
    itemSizeHolder  \* the placeholder in front of the pairs

Byte == 0 .. 2 * Base - 1
Word32 == (2 * Base) ^ WordLen
Word64 == (2 * Base) ^ (2 * WordLen)

ASSUME WireAssumption ==
    /\ Base \in Nat \ {0, 1} /\ WordLen \in Nat \ {0}
    /\ MaxVarintLen \in Nat /\ Base ^ MaxVarintLen >= Word64
    /\ itemSizeHolder \in 0 .. Word32 - 1

Drop(in, n) == SubSeq(in, n + 1, Len(in))

\* What a read returns: its value and the rest of the input, or an error.
Read(val, rest) == [ok |-> TRUE, val |-> val, rest |-> rest]
Malformed(in) == [ok |-> FALSE, val |-> 0, rest |-> in]

-----------------------------------------------------------------------------
(***************************************************************************)
(* codedOutput and codedInput.                                             *)
(***************************************************************************)
RECURSIVE writeRawVarint(_)
writeRawVarint(v) ==
    IF v < Base THEN <<v>>
                ELSE <<Base + (v % Base)>> \o writeRawVarint(v \div Base)

\* The loop of readVarint64 at the n-th byte, v being the bits read so far.
RECURSIVE readVarintFrom(_, _, _)
readVarintFrom(in, n, v) ==
    IF n > MaxVarintLen \/ n > Len(in) THEN Malformed(in)
    ELSE LET bits == v + (in[n] % Base) * Base ^ (n - 1)
         IN  IF in[n] < Base THEN Read(bits % Word64, Drop(in, n))
             ELSE readVarintFrom(in, n + 1, bits)

readVarint64(in) == readVarintFrom(in, 1, 0)

writeLittleEndian(v, n) == [i \in 1..n |-> (v \div (2 * Base) ^ (i - 1)) % (2 * Base)]

\* The number with the first n bytes as its digits, the lowest first.
RECURSIVE number(_, _)
number(in, n) ==
    IF n = 0 THEN 0 ELSE number(in, n - 1) + in[n] * (2 * Base) ^ (n - 1)

readFixed(in, n) ==
    IF n > Len(in) THEN Malformed(in) ELSE Read(number(in, n), Drop(in, n))

writeData(b) == writeRawVarint(Len(b)) \o b

\* Mutant: a field that runs past the buffer is cut off at its end.
readBytesCut(in) ==
    LET n == readVarint64(in)
    IN  IF ~n.ok THEN Malformed(in)
        ELSE LET len == Min({n.val, Len(n.rest)})
             IN  Read(SubSeq(n.rest, 1, len), Drop(n.rest, len))

readBytes(in) ==
    LET n == readVarint64(in)
    IN  IF ~n.ok \/ n.val > Len(n.rest) THEN Malformed(in)
        ELSE Read(SubSeq(n.rest, 1, n.val), Drop(n.rest, n.val))

-----------------------------------------------------------------------------
(***************************************************************************)
(* Typed values and their blobs.  A float is the word of its bits.         *)
(***************************************************************************)
Unsigned(v, word) == v % word
Signed(v, word) == LET u == v % word IN IF u < word \div 2 THEN u ELSE u - word

RECURSIVE decodeStringSlice(_)
decodeStringSlice(items) ==
    LET s == readBytes(items)
    IN  IF items = <<>> \/ ~s.ok THEN <<>>
        ELSE <<s.val>> \o decodeStringSlice(s.rest)

stringSliceBlob(v) ==
    writeData(FoldLeft(LAMBDA items, s : items \o writeData(s), <<>>, v))

\* writeInt32 sign-extends a negative value to 64 bits.
blobOf(type, v) ==
    CASE type = "bool" -> <<IF v THEN 1 ELSE 0>>
      [] type \in {"int32", "int64"} -> writeRawVarint(Unsigned(v, Word64))
      [] type \in {"uint32", "uint64"} -> writeRawVarint(v)
      [] type = "float32" -> writeLittleEndian(v, WordLen)
      [] type = "float64" -> writeLittleEndian(v, 2 * WordLen)
      [] type = "bytes" -> writeData(v)
      [] type = "strings" -> stringSliceBlob(v)

\* What the getter of a type makes of a blob: a value, or none.
getOf(type, blob) ==
    LET int == readVarint64(blob)
        bytes == readBytes(blob)
        bits == readFixed(blob, IF type = "float32" THEN WordLen ELSE 2 * WordLen)
        Ok(in, v) == IF in.ok THEN <<v>> ELSE <<>>
    IN  CASE type = "bool" -> Ok(int, int.val # 0)
          [] type = "int32" -> Ok(int, Signed(int.val, Word32))
          [] type = "int64" -> Ok(int, Signed(int.val, Word64))
          [] type = "uint32" -> Ok(int, Unsigned(int.val, Word32))
          [] type = "uint64" -> Ok(int, int.val)
          [] type \in {"float32", "float64"} -> Ok(bits, bits.val)
          [] type = "bytes" -> Ok(bytes, bytes.val)
          [] type = "strings" ->
                IF bytes.ok THEN <<decodeStringSlice(bytes.val)>> ELSE <<>>

-----------------------------------------------------------------------------
(***************************************************************************)
(* The log.  A dictionary is a function from its keys to blobs.            *)
(***************************************************************************)
EmptyDict == [k \in {} |-> <<>>]
pairOf(key, blob) == writeData(key) \o writeData(blob)

\* One pair of the log: a later value wins, an empty one deletes the key.
apply(dict, key, blob) ==
    IF blob = <<>> THEN [k \in DOMAIN dict \ {key} |-> dict[k]]
                   ELSE (key :> blob) @@ dict

encodeRegion(order, dict) ==
    FoldLeft(LAMBDA out, k : out \o pairOf(k, dict[k]),
             writeRawVarint(itemSizeHolder), order)

\* The loop of parseDict and parseDictGreedy, up to the first malformed pair.
\* Behind an empty key no value is read.
RECURSIVE replay(_, _)
replay(in, dict) ==
    LET key == readBytes(in)
        val == readBytes(key.rest)
    IN  IF in = <<>> THEN [ok |-> TRUE, dict |-> dict]
        ELSE IF ~key.ok THEN [ok |-> FALSE, dict |-> dict]
        ELSE IF key.val = <<>> THEN replay(key.rest, dict)
        ELSE IF ~val.ok THEN [ok |-> FALSE, dict |-> dict]
        ELSE replay(val.rest, apply(dict, key.val, val.val))

\* parseDict returns an error where parseDictGreedy keeps what it has.
parseDict(plain) ==
    LET holder == readVarint64(plain)
    IN  IF plain = <<>> THEN [ok |-> TRUE, dict |-> EmptyDict]
        ELSE IF ~holder.ok THEN [ok |-> FALSE, dict |-> EmptyDict]
        ELSE replay(holder.rest, EmptyDict)

parseDictGreedy(plain) == parseDict(plain).dict
=============================================================================
