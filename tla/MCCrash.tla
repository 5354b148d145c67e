-------------------------------- MODULE MCCrash -------------------------------
(* Small instances of MMKVCrash. *)
EXTENDS MMKVCrash
CONSTANTS p1, p2, k1, k2, v1, v2

EmptyOnly == {EmptyMap}
SomeMaps == {EmptyMap, [EmptyMap EXCEPT ![k1] = v1]}
AllCalls == ReadCalls \cup WriteCalls
NoClear == {c \in AllCalls : c.kind \notin {"clear", "trim"}}
SetsAndGets == {c \in AllCalls : c.kind \in {"set", "get"}}
=============================================================================
