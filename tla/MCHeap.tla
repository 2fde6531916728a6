--------------------------------- MODULE MCHeap ---------------------------------
(* Heap over a tree with four leaves, for TLC.                                 *)
EXTENDS Heap

(* The priority left in an empty block of metadata is not looked at, except in *)
(* the root before its first refresh: such blocks are one in the fingerprint.  *)
MCView == <<stash, tree, timestamp, handles,
            [n \in Nodes |-> IF n # 0 /\ is_empty(metadata[n]) THEN NoMin ELSE metadata[n]]>>
=================================================================================
