--------------------------------- MODULE Maps ---------------------------------
(* Finite maps as functions with a changing domain, and a keyed call with its  *)
(* answer: was the key found, and with which value.                            *)

With(f, k, v) == [x \in DOMAIN f \cup {k} |-> IF x = k THEN v ELSE f[x]]
Without(f, k) == [x \in DOMAIN f \ {k} |-> f[x]]
Answer(op, k, found, value) ==
  [op |-> op, key |-> k, found |-> found, value |-> value]

(* take and delete are read and write_or_insert with new_pos = DUMMY_POS.      *)
Ops == {"new", "read", "take", "write", "write_or_insert", "delete", "update"}
===============================================================================
