------------------------------ MODULE MCEvictPath ------------------------------
(* EvictPath for TLC: the initial contents are put together slot by slot.      *)
EXTENDS EvictPath, TLC

(* One block per slot, named after the slot; a tree block is on its own path.  *)
BlockAt(s, q) == IF q = DUMMY_POS THEN Empty
                 ELSE [pos |-> q, key |-> s, value |-> Default]

OnPath(q, i, p) == q = DUMMY_POS \/ q % Pow2[i] = p % Pow2[i]

Contents(p) ==
  FoldSet(LAMBDA s, partial :
            {at @@ (s :> q) : at \in partial,
                              q \in {r \in Positions \cup {DUMMY_POS} : OnPath(r, LevelOf(s), p)}},
          {<< >>}, Slots)

MCInit == /\ path \in Paths
          /\ \E at \in Contents(path) : arr = [s \in Slots |-> BlockAt(s, at[s])]
          /\ AnyContent

MCSpec == MCInit /\ [][EvictOnce]_pathVars
================================================================================
