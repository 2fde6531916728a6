------------------------------ MODULE PositionMap ------------------------------
(* What a position map promises: every access returns the position last stored *)
(* for its key and replaces it, and it touches no other entry.                 *)
EXTENDS PositionTable

CONSTANTS n, Keys, Positions

VARIABLES table,
          ret          \* the last access: its key and the position returned

mapVars == <<table, ret>>

Init == table \in NewTables(n) /\ ret = Access(0, DUMMY_POS)

access_position(k, new_pos) == /\ ret' = Access(k, Looked(table, n, k))
                               /\ table' = Stored(table, n, k, new_pos)

Next == \E k \in Keys, new_pos \in Positions : access_position(k, new_pos)

Spec == Init /\ [][Next]_mapVars
================================================================================
