----------------------------- MODULE MCCircuitORAM -----------------------------
(* CircuitORAM on a small tree, for TLC, with two sizes of its stash: an ample *)
(* one of S slots, and a tight one of TightS slots that does overflow.  The    *)
(* slots are seen as the blocks of PathOram, whose properties are checked of   *)
(* them.                                                                       *)
EXTENDS PathOram, TLC

CONSTANTS TightS

VARIABLES stash, tree, evict_counter

Ample == INSTANCE CircuitORAM
Tight == INSTANCE CircuitORAM WITH S <- TightS

IsAmple == DOMAIN stash = 0 .. S - 1
SlotBlocks == IF IsAmple THEN Ample!Blocks ELSE Tight!Blocks

MCInit == /\ Ample!Init \/ Tight!Init
          /\ blocks = SlotBlocks
MCNext == /\ \/ IsAmple /\ Ample!Next
             \/ ~IsAmple /\ Tight!Next
          /\ blocks' = SlotBlocks'
MCSpec == MCInit /\ [][MCNext]_<<stash, tree, evict_counter, vars>>

(* `blocks` follows from the slots, and `ret` is a record of the last call     *)
(* that no guard reads.  Neither is in the fingerprint; TLC still checks the   *)
(* action properties on every transition it generates.                         *)
MCView == <<stash, tree, evict_counter, pmap>>

(* Keys are interchangeable: definitions compare them for equality only.       *)
MCSymmetry == Permutations(Key)
-------------------------------------------------------------------------------
(* After every call the slots are sound, and an ample stash has an empty one   *)
(* (Inv1 of the struct): the deterministic evictions see to both.              *)
EvictionsSuffice == IF IsAmple THEN Ample!SlotsOK /\ Inv1 ELSE Tight!SlotsOK

TightPath == INSTANCE PathOram WITH S <- TightS

(* Slots, path arrays and the three-pass eviction do what PathOram allows: the *)
(* key's block is replaced or, if the stash is full, dropped, and every other  *)
(* block keeps its key, position and value, only sinks on its own path, and    *)
(* never enters the root bucket.                                               *)
ImplementsPathOram == Init /\ [][IF IsAmple THEN Next ELSE TightPath!Next]_vars
================================================================================
