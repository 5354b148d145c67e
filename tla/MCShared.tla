------------------------------- MODULE MCShared -------------------------------
(* Small instances of MMKVCore. *)
EXTENDS MMKVCoherence, TLC
CONSTANTS p1, p2, p3, k1, k2, v1, v2

Symmetry == Permutations(Procs \ ReadOnly) \cup Permutations(Vals)

SomeMaps == {EmptyMap} \cup {[EmptyMap EXCEPT ![k1] = v] : v \in Vals}
AllCalls == ReadCalls \cup WriteCalls

\* With one key RemoveValuesForKeys adds nothing to RemoveValueForKey.
OneKeyCalls == {c \in AllCalls : c.kind # "removeMany"}
=============================================================================
