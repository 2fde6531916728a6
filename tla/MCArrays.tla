-------------------------------- MODULE MCArrays --------------------------------
(* The arrays, and beside them a RecursivePositionMap with two levels of       *)
(* recursion below the linear one, for TLC.  The arrays use the position map   *)
(* through its abstraction PositionTable; a behaviour is one of either.        *)
EXTENDS Arrays, RecursivePositionMap

VARIABLES subject        \* which of the two is called?

MCInit == /\ Init /\ New
          /\ subject \in {"array", "map"}
          /\ subject = "map" => kind = "vector"

MCNext == \/ subject = "array" /\ Next /\ UNCHANGED <<mapVars, subject>>
          \/ subject = "map" /\ Accesses /\ UNCHANGED <<vars, subject>>

MCSpec == MCInit /\ [][MCNext]_<<vars, mapVars, subject>>

(* No guard reads `answer` and `ret`; TLC checks the action properties on      *)
(* every transition, with their values there.                                  *)
MCView == <<kind, size, pos_map, data, len, harmed, linear, levels, subject>>
=================================================================================
