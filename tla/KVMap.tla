-------------------------------- MODULE KVMap --------------------------------
(***************************************************************************)
(* What a multi-process MMKV store promises its callers: one map shared by *)
(* all processes.  Every call of the API takes effect in one step, a read  *)
(* returns the map as it is at that step, and while a process is between   *)
(* its calls of Lock and Unlock nobody else reads or writes.               *)
(***************************************************************************)
CONSTANTS Procs, Keys, Vals, NoVal, Nobody

VARIABLES kv,     \* the shared map; NoVal means the key is absent
          res,    \* per process: <<map>> once its read in progress has returned map
          owner   \* the process between Lock and Unlock, or Nobody

vars == <<kv, res, owner>>

MayAct(p) == owner \in {Nobody, p}

Init == /\ kv \in [Keys -> Vals \cup {NoVal}]
        /\ res = [p \in Procs |-> <<>>]
        /\ owner = Nobody

Read(p) == /\ MayAct(p)
           /\ res' = [res EXCEPT ![p] = <<kv>>]
           /\ UNCHANGED <<kv, owner>>

Return(p) == /\ res' = [res EXCEPT ![p] = <<>>]
             /\ UNCHANGED <<kv, owner>>

Set(p, k, v) == /\ MayAct(p)
                /\ kv' = [kv EXCEPT ![k] = v]
                /\ UNCHANGED <<res, owner>>

\* RemoveValueForKey, RemoveValuesForKeys and ClearAll.
Remove(p, ks) == /\ MayAct(p)
                 /\ kv' = [k \in Keys |-> IF k \in ks THEN NoVal ELSE kv[k]]
                 /\ UNCHANGED <<res, owner>>

Lock(p) == /\ MayAct(p)
           /\ owner' = p
           /\ UNCHANGED <<kv, res>>

Unlock(p) == /\ owner = p
             /\ owner' = Nobody
             /\ UNCHANGED <<kv, res>>

Next == \E p \in Procs :
            \/ Read(p) \/ Return(p) \/ Lock(p) \/ Unlock(p)
            \/ \E k \in Keys, v \in Vals : Set(p, k, v)
            \/ \E ks \in SUBSET Keys : Remove(p, ks)

Spec == Init /\ [][Next]_vars
=============================================================================
