------------------------------- MODULE MCEncoded ------------------------------
EXTENDS EncodedStore

CONSTANTS a, b   \* AES keys

SwapKeys == Permutations({a, b})

TwoNames == {<<1>>, <<1, 9>>}

\* A negative int32, and bytes whose length takes two bytes.
SomeValues == {"minus", "long"}
SomeTyped ==
    [x \in SomeValues |->
        CASE x = "minus" -> [type |-> "int32", val |-> -1]
          [] x = "long" -> [type |-> "bytes", val |-> <<0, 15, 0, 8, 0, 0, 1, 0>>]]

SomeSettings == {<<<<1>>, "minus">>, <<<<1, 9>>, "long">>}

SomeSources == {[k \in TwoNames |-> "long"]}

\* Every value of every type is read back from its blob, also in front of other
\* bytes.
RoundTrip(type, v, rest) == getOf(type, blobOf(type, v) \o rest) = <<v>>
ASSUME EveryTypeIsReadBack ==
    \A rest \in {<<>>, <<15, 1>>} :
        /\ \A v \in BOOLEAN : RoundTrip("bool", v, rest)
        /\ \A v \in 0 .. Word32 - 1 :
              /\ RoundTrip("uint32", v, rest) /\ RoundTrip("float32", v, rest)
              /\ RoundTrip("int32", v - (Word32 \div 2), rest)
              /\ \A w \in {0, 1, 127, 128, 255} :
                    /\ RoundTrip("uint64", w * Word32 + v, rest)
                    /\ RoundTrip("float64", w * Word32 + v, rest)
                    /\ RoundTrip("int64", w * Word32 + v - (Word64 \div 2), rest)
        /\ \A v \in UNION {[1..n -> {0, 8, 15}] : n \in 0..4} : RoundTrip("bytes", v, rest)
        /\ \A v \in UNION {[1..n -> {<<>>, <<0>>, <<8, 15>>}] : n \in 0..4} :
              RoundTrip("strings", v, rest)
=============================================================================
