------------------------------- MODULE KeyedMap -------------------------------
(* What UnsortedMap's documentation promises: a key that was inserted stays,   *)
(* get finds it with its last value, write changes it.  Hidden weakens the     *)
(* promise: a lookup may then miss a key that is present.                      *)
EXTENDS Maps

CONSTANTS Key, Value, NoKey, NoValue,
          Hidden       \* may get and write miss a key of the map?

VARIABLES dict, ret

mapVars == <<dict, ret>>

Init == dict = [k \in {} |-> NoValue] /\ ret = Answer("new", NoKey, FALSE, NoValue)

Insert(k, v) == /\ k \notin DOMAIN dict
                /\ dict' = With(dict, k, v)
                /\ ret' = Answer("insert", k, FALSE, NoValue)

Get(k) == /\ UNCHANGED dict
          /\ \/ k \in DOMAIN dict /\ ret' = Answer("get", k, TRUE, dict[k])
             \/ (k \notin DOMAIN dict \/ Hidden) /\ ret' = Answer("get", k, FALSE, NoValue)

(* A write that misses its key panics and changes nothing. *)
Write(k, v) ==
  /\ k \in DOMAIN dict
  /\ \/ dict' = With(dict, k, v) /\ ret' = Answer("write", k, TRUE, NoValue)
     \/ Hidden /\ UNCHANGED dict /\ ret' = Answer("write", k, FALSE, NoValue)

(* insert_cond(.., false) and deamortize_insertion_queue: nothing to see. *)
Rearrange(op, k) == UNCHANGED dict /\ ret' = Answer(op, k, FALSE, NoValue)

Next == \/ \E k \in Key : \/ Get(k) \/ Rearrange("insert_cond", k)
                          \/ \E v \in Value : Insert(k, v) \/ Write(k, v)
        \/ Rearrange("deamortize", NoKey)

Spec == Init /\ [][Next]_mapVars
================================================================================
