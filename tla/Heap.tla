---------------------------------- MODULE Heap ----------------------------------
(* Heap (datastructures/src/heap.rs): elements in a Circuit ORAM, each under   *)
(* its timestamp, and a second tree, `metadata`, whose nodes hold a copy of    *)
(* the least element in the subtree below.  Only the nodes of an evicted path  *)
(* are refreshed.  An element stands for its priority: the payload travels     *)
(* with it.                                                                    *)
EXTENDS OramSlots, Maps

CONSTANTS MaxPriority,   \* the limit K::MAX of the priorities, which are in Value
          MaxInserts     \* bound: the number of timestamps given out

ASSUME HeapElementAssumption ==
  /\ MaxPriority \in Nat /\ Value \subseteq 0 .. MaxPriority
  /\ MaxInserts \in Nat /\ Key = 0 .. MaxInserts - 1
  /\ Z = 2      \* chunks(2) in update_min

VARIABLES stash, tree,  \* the ORAM `data`; its eviction counter is not used
          metadata,     \* node -> a copy of the least block below
          timestamp,
          handles,      \* history: the position returned with each timestamp
          call          \* the last call

vars == <<stash, tree, metadata, timestamp, handles, call>>

(* The two empty blocks that metadata can hold: all zero, from `new`, and the  *)
(* initial curr_min of update_min.                                             *)
Zeroed == [pos |-> DUMMY_POS, key |-> 0, value |-> 0]
NoMin  == [pos |-> DUMMY_POS, key |-> 0, value |-> MaxPriority]

Init == /\ stash = [s \in 0 .. S - 1 |-> Empty]
        /\ tree = [n \in Nodes |-> [z \in 0 .. Z - 1 |-> Empty]]
        /\ metadata = [n \in Nodes |-> Zeroed]
        /\ timestamp = 0
        /\ handles = [ts \in {} |-> 0]
        /\ call = <<"new">>

(* The comparison of find_min and update_min. *)
Lesser(min, b) == IF ~is_empty(b) /\ b.value < min.value THEN b ELSE min

(* update_min at depth d of the path of p: the minimum carried up from below   *)
(* is compared with the bucket, then with that of the child off the path.      *)
MinimumAt(d, below, t, min, p) ==
  LET bucket == t[get_index(d, p)]
      here == Lesser(Lesser(below, bucket[0]), bucket[1])
  IN IF d = H - 1 THEN here ELSE Lesser(here, min[get_sibling(d + 1, p)])

(* update_min: one minimum, carried from the leaf to the root, is stored in    *)
(* every node of the path.                                                     *)
update_min(t, min, p) ==
  LET least[d \in 0 .. H] ==
        IF d = H THEN NoMin ELSE MinimumAt(d, least[d + 1], t, min, p)
  IN {[n \in Nodes |-> IF n \in PathNodes(p) THEN below[Depth(n)] ELSE min[n]] :
        below \in {least}}

(* Mutant of Refreshed: the minima of the path are those before the eviction.  *)
Refreshed_Early(arr, p, t, min) ==
  {[stash |-> st.stash, tree |-> st.tree, metadata |-> m] :
     st \in Evicted(arr, p, t), m \in update_min(t, min, p)}

(* The path of p, held in arr, is evicted and written back, and its minima are *)
(* refreshed.                                                                  *)
Refreshed(arr, p, t, min) ==
  UNION {{[stash |-> st.stash, tree |-> st.tree, metadata |-> m] :
            m \in update_min(st.tree, min, p)} : st \in Evicted(arr, p, t)}

(* evict and update_min, of one random path. *)
Sweep(st) ==
  UNION {Refreshed(read_path(st.stash, st.tree, p), p, st.tree, st.metadata) :
           p \in Positions}

Becomes(st) == stash' = st.stash /\ tree' = st.tree /\ metadata' = st.metadata

(* The result of write_block_to_empty_slot is not looked at: with a full stash *)
(* the element is lost, and its handle returned all the same.                  *)
insert(priority) ==
  /\ timestamp < MaxInserts
  /\ \E new_pos \in Positions :
       /\ \E with \in {write_block_to_empty_slot(
                         stash, Full(timestamp, new_pos, priority))} :
          \E st1 \in Sweep([stash |-> with, tree |-> tree, metadata |-> metadata]) :
          \E st2 \in Sweep(st1) : Becomes(st2)
       /\ handles' = With(handles, timestamp, new_pos)
  /\ timestamp' = timestamp + 1
  /\ call' = <<"insert", priority>>

(* DUMMY_POS, all of whose bits are set, selects the nodes of the last path.   *)
PathOf(pos) == IF pos = DUMMY_POS THEN MaxN - 1 ELSE pos

delete(pos, ts) ==
  /\ \E arr \in {Removed(read_path(stash, tree, PathOf(pos)), ts)} :
     \E st1 \in Refreshed(arr, PathOf(pos), tree, metadata) :
     \E st2 \in Sweep(st1) : Becomes(st2)
  /\ UNCHANGED <<timestamp, handles>>

(* Mutant of find_min: the stash is forgotten. *)
find_min_TreeOnly == metadata[0]

(* The root's minimum, or the first of the least lesser blocks of the stash    *)
(* proper.                                                                     *)
find_min ==
  LET lesser == {s \in 0 .. S - 1 : ~is_empty(stash[s]) /\ stash[s].value < metadata[0].value}
      least == {s \in lesser : \A t \in lesser : stash[s].value <= stash[t].value}
  IN IF lesser = {} THEN metadata[0] ELSE stash[First(least)]

extract_min == \E min \in {find_min} : delete(min.pos, min.key)

(* Elements are deleted by the handles that insert returned, also twice.       *)
Next == \/ \E priority \in Value : insert(priority)
        \/ \E ts \in DOMAIN handles : delete(handles[ts], ts) /\ call' = <<"delete", ts>>
        \/ extract_min /\ call' = <<"extract_min">>

Spec == Init /\ [][Next]_vars
--------------------------------------------------------------------------------
FullSlots == {s \in 0 .. S - 1 : ~is_empty(stash[s])}
FullTreeSlots == {nz \in Nodes \X (0 .. Z - 1) : ~is_empty(tree[nz[1]][nz[2]])}

(* The elements in the bucket of n and in those below it. *)
IsBelow(m, n) == \E p \in Positions : {m, n} \subseteq PathNodes(p) /\ m >= n
ElementsBelow(n) == {tree[nz[1]][nz[2]] : nz \in {x \in FullTreeSlots : IsBelow(x[1], n)}}
Elements == {stash[s] : s \in FullSlots}
            \cup {tree[nz[1]][nz[2]] : nz \in FullTreeSlots}

(* The first documented invariant, "metadata stores the minimum element in     *)
(* each subtree": a current copy of an element below with the least priority,  *)
(* and an empty block only where all of them have the priority K::MAX.         *)
MinimaAreRight ==
  \A n \in Nodes :
    LET below == {b \in ElementsBelow(n) : b.value # MaxPriority} IN
    IF below = {} THEN is_empty(metadata[n])
    ELSE metadata[n] \in below /\ \A b \in below : metadata[n].value <= b.value

(* The third one, "after insertion, the oram key (timestamp) and path for an   *)
(* element do not change", and what a deletion relies on: every element is in  *)
(* one slot, in the stash or on the path returned with its timestamp.          *)
FoundByHandle ==
  /\ Cardinality(FullSlots) + Cardinality(FullTreeSlots)
       = Cardinality({b.key : b \in Elements})
  /\ \A b \in Elements : b.pos = handles[b.key]
  /\ \A nz \in FullTreeSlots : nz[1] \in PathNodes(tree[nz[1]][nz[2]].pos)

PQ == INSTANCE PriorityQueue WITH
        Position <- Positions, Priority <- Value,
        elements <- Elements,
        least <- IF is_empty(find_min) THEN {} ELSE {find_min},
        room <- \E s \in 0 .. S - 1 : is_empty(stash[s])

(* find_min returns "the minimum element in the heap, if the heap is           *)
(* non-empty", and an empty block if it is empty (the documentation of         *)
(* find_min).                                                                  *)
FindsMinimum == PQ!MinimumOf(Elements, IF is_empty(find_min) THEN {} ELSE {find_min})

(* No element of a heap that is not empty is less than the initial minimum.    *)
NoneBelowMax == Elements # {} /\ \A e \in Elements : e.value = MaxPriority

(* The heap is a priority queue, except that it overlooks a minimum of         *)
(* K::MAX.  A call inserts its element, unless the stash is full, deletes just *)
(* the one of its handle, or extracts just the minimum: this last, if before   *)
(* it the heap is empty or some element is below K::MAX.  find_min returns an  *)
(* element with the least priority, or none of an empty heap: this, if after   *)
(* the call the heap is empty or some element is below K::MAX.                 *)
ImplementsPriorityQueue ==
  PQ!Init /\ [][/\ (NoneBelowMax /\ call' = <<"extract_min">>) \/ PQ!Operation
                /\ NoneBelowMax' \/ FindsMinimum']_(PQ!pqVars)
================================================================================
