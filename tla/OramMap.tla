-------------------------------- MODULE OramMap --------------------------------
(* What a position-based ORAM promises to its caller: a map from keys to       *)
(* values, and the answer of the last operation.  The doc comments of          *)
(* CircuitORAM::read, write, write_or_insert and update are the contract.      *)
(* A lossy map may also drop the block an operation has just moved, which is   *)
(* what the implementation does when its stash overflows.                      *)
EXTENDS Maps

CONSTANTS Key, Value,
          Default,     \* a value, V::default()
          NoKey,       \* no call yet
          NoValue,     \* the caller's `ret` left as it was
          Lossy        \* may an operation drop the block it moves?

VARIABLES dict,        \* the keys present, with their values
          ret          \* the last call and its answer

mapVars == <<dict, ret>>

Lookup(k, other) == IF k \in DOMAIN dict THEN dict[k] ELSE other

(* The block of k is written again: it keeps v, or is dropped. *)
Put(k, v) == \/ dict' = With(dict, k, v)
             \/ Lossy /\ dict' = Without(dict, k)

TypeOK == /\ dict \in UNION {[D -> Value] : D \in SUBSET Key}
          /\ ret \in [op : Ops, key : Key \cup {NoKey},
           found : BOOLEAN, value : Value \cup {NoValue}]

Init == dict = [k \in {} |-> NoValue] /\ ret = Answer("new", NoKey, FALSE, NoValue)

Read(k) == /\ ret' = Answer("read", k, k \in DOMAIN dict, Lookup(k, NoValue))
           /\ IF k \in DOMAIN dict THEN Put(k, dict[k]) ELSE UNCHANGED dict

Take(k) == /\ ret' = Answer("take", k, k \in DOMAIN dict, Lookup(k, NoValue))
           /\ dict' = Without(dict, k)

Write(k, v) == /\ ret' = Answer("write", k, k \in DOMAIN dict, NoValue)
               /\ IF k \in DOMAIN dict THEN Put(k, v) ELSE UNCHANGED dict

WriteOrInsert(k, v) == /\ ret' = Answer("write_or_insert", k, k \in DOMAIN dict, NoValue)
                       /\ Put(k, v)

Delete(k) == /\ ret' = Answer("delete", k, k \in DOMAIN dict, NoValue)
             /\ dict' = Without(dict, k)

(* The closure swaps v in and returns what it saw. *)
Update(k, v) == /\ ret' = Answer("update", k, k \in DOMAIN dict, Lookup(k, Default))
                /\ Put(k, v)

Next == \E k \in Key :
          \/ Read(k) \/ Take(k) \/ Delete(k)
          \/ \E v \in Value : Write(k, v) \/ WriteOrInsert(k, v) \/ Update(k, v)

Spec == Init /\ [][Next]_mapVars
================================================================================
