------------------------------ MODULE CircuitORAM ------------------------------
(* CircuitORAM (oram/src/circuit_oram.rs): stash and tree as slot arrays, the  *)
(* deterministic eviction counter, every public operation, and the client that *)
(* keeps the position map (the role the test harness and the recursive         *)
(* position map play).  An operation is one &mut call, hence one step.         *)
EXTENDS OramSlots, Maps

VARIABLES stash,          \* the first S slots, the stash proper
          tree,           \* node -> bucket
          evict_counter,  \* next path of the deterministic evictions
          pmap,           \* the client's position map
          ret             \* the last call and its answer

vars == <<stash, tree, evict_counter, pmap, ret>>

Init == /\ stash = [s \in 0 .. S - 1 |-> Empty]
        /\ tree = [n \in Nodes |-> [z \in 0 .. Z - 1 |-> Empty]]
        /\ evict_counter = 0
        /\ pmap = [k \in {} |-> 0]
        /\ ret = Answer("new", NoKey, FALSE, NoValue)

NextCounter(c) == (c + 1) % MaxN

(* The part every operation shares: k's block is taken off stash and path,     *)
(* block is stored in the stash, the path is evicted and written back, and the *)
(* EVICTIONS_PER_OP = 2 deterministic evictions follow.                        *)
Access(k, pos, block) ==
  \E arr \in {Stored(read_path(stash, tree, pos), k, block)} :
  \E st1 \in Evicted(arr, pos, tree) :
  \E st2 \in perform_eviction(st1, evict_counter) :
  \E st3 \in perform_eviction(st2, NextCounter(evict_counter)) :
    /\ stash' = st3.stash
    /\ tree' = st3.tree
    /\ evict_counter' = NextCounter(NextCounter(evict_counter))

(* What the scan for k at pos leaves in ret: the last match, or nothing.       *)
Found(k, pos) ==
  UNION {LET hits == {t \in Slots : Matches(arr[t], k)} IN
         IF hits = {} THEN {} ELSE {arr[Max(hits)]} : arr \in {read_path(stash, tree, pos)}}

Read(k, pos, new_pos) ==
  LET hit == Found(k, pos) IN
  IF hit = {}
  THEN /\ Access(k, pos, Empty)
       /\ ret' = Answer("read", k, FALSE, NoValue)
       /\ UNCHANGED pmap
  ELSE \E b \in hit :
         /\ Access(k, pos, Full(k, new_pos, b.value))
         /\ ret' = Answer("read", k, TRUE, b.value)
         /\ pmap' = With(pmap, k, new_pos)

(* read with new_pos = DUMMY_POS *)
Take(k, pos) ==
  LET hit == Found(k, pos) IN
  /\ Access(k, pos, Empty)
  /\ IF hit = {} THEN ret' = Answer("take", k, FALSE, NoValue)
     ELSE \E b \in hit : ret' = Answer("take", k, TRUE, b.value)
  /\ pmap' = Without(pmap, k)

Write(k, pos, new_pos, val) ==
  LET found == Found(k, pos) # {} IN
  /\ Access(k, pos, IF found THEN Full(k, new_pos, val) ELSE Empty)
  /\ ret' = Answer("write", k, found, NoValue)
  /\ pmap' = IF found THEN With(pmap, k, new_pos) ELSE pmap

WriteOrInsert(k, pos, new_pos, val) ==
  /\ Access(k, pos, Full(k, new_pos, val))
  /\ ret' = Answer("write_or_insert", k, Found(k, pos) # {}, NoValue)
  /\ pmap' = With(pmap, k, new_pos)

(* write_or_insert with new_pos = DUMMY_POS *)
Delete(k, pos) ==
  /\ Access(k, pos, Empty)
  /\ ret' = Answer("delete", k, Found(k, pos) # {}, NoValue)
  /\ pmap' = Without(pmap, k)

(* update with the closure that swaps val in and returns what it saw. *)
Update(k, pos, new_pos, val) ==
  LET hit == Found(k, pos) IN
  /\ Access(k, pos, Full(k, new_pos, val))
  /\ IF hit = {} THEN ret' = Answer("update", k, FALSE, Default)
     ELSE \E b \in hit : ret' = Answer("update", k, TRUE, b.value)
  /\ pmap' = With(pmap, k, new_pos)

(* Where the client looks for k: the position it recorded, or, for a key it    *)
(* never stored, any position.                                                 *)
At(k) == IF k \in DOMAIN pmap THEN {pmap[k]} ELSE Positions

Next == \E k \in Key : \E pos \in At(k) :
          \/ Take(k, pos)
          \/ Delete(k, pos)
          \/ \E new_pos \in Positions :
               \/ Read(k, pos, new_pos)
               \/ \E val \in Value :
                    \/ Write(k, pos, new_pos, val)
                    \/ WriteOrInsert(k, pos, new_pos, val)
                    \/ Update(k, pos, new_pos, val)

Spec == Init /\ [][Next]_vars
-------------------------------------------------------------------------------
StashSlots == {s \in 0 .. S - 1 : ~is_empty(stash[s])}
TreeSlots == {nz \in Nodes \X (0 .. Z - 1) : ~is_empty(tree[nz[1]][nz[2]])}

Placed(b, n) == [key |-> b.key, pos |-> b.pos, value |-> b.value, at |-> n]

(* The blocks as module PathOram sees them. *)
Blocks == {Placed(stash[s], Stash) : s \in StashSlots}
          \cup {Placed(tree[nz[1]][nz[2]], nz[1]) : nz \in TreeSlots}

(* Fields keep their ranges, the counter that of a position; and no block      *)
(* takes up two slots of one place, which Blocks would not show.               *)
SlotsOK ==
  /\ stash \in [0 .. S - 1 -> Block \cup {Empty}]
  /\ tree \in [Nodes -> [0 .. Z - 1 -> Block \cup {Empty}]]
  /\ evict_counter \in Positions
  /\ Cardinality(StashSlots) + Cardinality(TreeSlots) = Cardinality(Blocks)
================================================================================
