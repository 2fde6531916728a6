------------------------------- MODULE HeapTree -------------------------------
(* The tree of buckets behind an ORAM (oram/src/heap_tree.rs): a vector of     *)
(* 2^H - 1 nodes in which the node of depth d on the path of position p is     *)
(* selected by the d low-order bits of p.                                      *)
EXTENDS Integers

CONSTANTS H,       \* height of the tree; a single node has height 1
          MaxN     \* number of positions, that is, of leaves

(* 1 << depth *)
Pow2[d \in 0 .. H] == IF d = 0 THEN 1 ELSE 2 * Pow2[d - 1]

ASSUME HeapAssumption == /\ H \in Nat /\ H > 1
                         /\ MaxN \in Nat /\ MaxN > 1
                         /\ MaxN = Pow2[H - 1]

Levels    == 0 .. H - 1
Positions == 0 .. MaxN - 1
Nodes     == 0 .. Pow2[H] - 2

(* level_offset + (path & mask), the mask being the offset 2^depth - 1. *)
get_index(depth, path) == (Pow2[depth] - 1) + (path % Pow2[depth])

(* The other child of the parent of the path's node at this depth (> 0): bit   *)
(* depth - 1 of the path is flipped.                                           *)
get_sibling(depth, path) ==
  LET bit == Pow2[depth - 1] IN
  get_index(depth, IF (path \div bit) % 2 = 1 THEN path - bit ELSE path + bit)

(* The nodes that one access to position p reads and writes back. *)
PathNodes(p) == {get_index(d, p) : d \in Levels}

(* Depth of a node of the path, for turning a path back into tree nodes. *)
Depth(n) == CHOOSE d \in Levels : n \in Pow2[d] - 1 .. Pow2[d + 1] - 2
===============================================================================
