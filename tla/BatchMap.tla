------------------------------- MODULE BatchMap -------------------------------
(* What ShardedMap promises: a map that takes and answers whole batches.       *)
EXTENDS Maps, Naturals

CONSTANTS Key, Value, NoValue,
          KeyBatches, ValueBatches    \* batches: 0 .. n - 1 -> Key, .. -> Value

VARIABLES dict, ret

batchVars == <<dict, ret>>

Init == dict = [k \in {} |-> NoValue] /\ ret = << >>

LookedUp(k) == IF k \in DOMAIN dict THEN dict[k] ELSE NoValue

(* Every key of the batch is answered with its own value, or with none. *)
Get(keys) ==
  /\ ret' = [keys |-> keys, found |-> [i \in DOMAIN keys |-> LookedUp(keys[i])]]
  /\ UNCHANGED dict

(* The keys of the batch, all new, arrive together.  If a key appears multiple *)
(* times, the value of its first occurrence is used.                           *)
FirstOccurrence(keys, k, i) ==
  keys[i] = k /\ \A j \in DOMAIN keys \ {i} : keys[j] = k => i < j

Insert(keys, values) ==
  LET new == {keys[i] : i \in DOMAIN keys} IN
  /\ DOMAIN keys = DOMAIN values /\ new \cap DOMAIN dict = {}
  /\ \E val \in [new -> Value] :
       /\ \A k \in new : \E i \in DOMAIN keys : FirstOccurrence(keys, k, i) /\ values[i] = val[k]
       /\ dict' = [k \in DOMAIN dict \cup new |-> IF k \in new THEN val[k] ELSE dict[k]]
  /\ ret' = << >>

(* The answer is forgotten when the next call begins. *)
Forget == UNCHANGED dict /\ ret' = << >>

Next == \/ Forget
        \/ \E keys \in KeyBatches : \/ Get(keys)
                                    \/ \E values \in ValueBatches : Insert(keys, values)

Spec == Init /\ [][Next]_batchVars
================================================================================
