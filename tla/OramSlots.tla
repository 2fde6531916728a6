------------------------------- MODULE OramSlots -------------------------------
(* What the operations of Circuit ORAM (oram/src/circuit_oram.rs) are made of: *)
(* scans of the stash array, storing a block in the stash, and the eviction    *)
(* of a path with its way from the tree and back.                              *)
EXTENDS Eviction

Stash == -1            \* the place of the blocks in no node of the tree

(* Mutant of Full: positions are drawn from one too many. *)
Full_OffByOne(k, pos, value) == [pos |-> pos + 1, key |-> k, value |-> value]

Full(k, pos, value) == [pos |-> pos, key |-> k, value |-> value]

(* Mutant of Removed: the scan copies the block out and leaves it behind. *)
Removed_KeepsBlock(arr, k) == arr

(* The scan for k of read_and_remove_element and remove_element. *)
Matches(b, k) == ~is_empty(b) /\ b.key = k
Removed(arr, k) == [s \in Slots |-> IF Matches(arr[s], k) THEN Empty ELSE arr[s]]

(* Mutant of write_block_to_empty_slot: the root bucket counts as stash. *)
write_block_IncludesRoot(arr, block) ==
  LET empties == {s \in SlotsOf(0) : is_empty(arr[s])} IN
  IF empties = {} THEN arr ELSE [arr EXCEPT ![First(empties)] = block]

(* The callers ignore the result: with no empty slot the block is lost. *)
write_block_to_empty_slot(arr, block) ==
  LET empties == {s \in 0 .. S - 1 : is_empty(arr[s])} IN
  IF empties = {} THEN arr ELSE [arr EXCEPT ![First(empties)] = block]

Stored(arr, k, block) == write_block_to_empty_slot(Removed(arr, k), block)

(* Stash and tree after the path of pos, held in arr, is evicted and written   *)
(* back.                                                                       *)
Evicted(arr, pos, t) ==
  {[stash |-> [s \in 0 .. S - 1 |-> out[s]], tree |-> write_path(out, t, pos)] :
     out \in evict_once_fast(arr, pos)}

(* Mutant of perform_eviction: the deterministic evictions are skipped. *)
perform_eviction_Skipped(st, pos) == {st}

(* A deterministic eviction takes the path of the counter itself, whose low    *)
(* bits select the nodes, so consecutive evictions alternate subtrees.         *)
perform_eviction(st, pos) == Evicted(read_path(st.stash, st.tree, pos), pos, st.tree)
================================================================================
