-------------------------------- MODULE OpMap --------------------------------
(***************************************************************************)
(* What the users of op_hash rely on: a map from keys to data, whose insert   *)
(* returns what it replaced and may fail without changing anything.          *)
(***************************************************************************)
CONSTANTS Key, Value, Null

VARIABLES
    map,   \* the data under each key, or Null
    ret    \* what the last operation returned

vars == <<map, ret>>

Init == map = [k \in Key |-> Null] /\ ret = Null

\* Only what is under k changes, if anything.
Only(k) == \A j \in Key \ {k} : map'[j] = map[j]

Insert(k, v) == map'[k] = v /\ ret' = map[k]

InsertFails(k) == map'[k] = map[k] /\ ret' = Null

Delete(k) == map'[k] = Null /\ ret' = map[k]

Retrieve(k) == map'[k] = map[k] /\ ret' = map[k]

Next ==
    \E k \in Key :
       /\ Retrieve(k) \/ InsertFails(k) \/ Delete(k) \/ \E v \in Value : Insert(k, v)
       /\ Only(k)

Spec == Init /\ [][Next]_vars
==============================================================================
