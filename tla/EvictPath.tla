------------------------------- MODULE EvictPath -------------------------------
(* evict_once_fast on its own: any path a Circuit ORAM can present to it,      *)
(* evicted again and again.  The properties are stated without the three       *)
(* passes of the algorithm, so they say what its plan must achieve.            *)
EXTENDS Eviction

CONSTANTS Paths        \* the positions whose paths are evicted

ASSUME EvictPathAssumption == Paths \subseteq Positions

VARIABLES arr,         \* the stash followed by the path, as the code holds them
          path         \* the position whose path it is

pathVars == <<arr, path>>

(* The deepest level of the path a block may be in. *)
Reach(b) == Max({d \in Levels : b.pos % Pow2[d] = path % Pow2[d]})

(* Any content in which no block has two slots and the blocks of the tree are  *)
(* on their own paths.                                                         *)
AnyContent ==
  /\ path \in Paths
  /\ arr \in [Slots -> Block \cup {Empty}]
  /\ \A s \in Slots : is_empty(arr[s]) \/ \A t \in Slots \ {s} : arr[t] # arr[s]
  /\ \A s \in Slots : LET i == LevelOf(s) IN
       is_empty(arr[s]) \/ arr[s].pos % Pow2[i] = path % Pow2[i]

EvictOnce == arr' \in evict_once_fast(arr, path) /\ UNCHANGED path

Evictions == AnyContent /\ [][EvictOnce]_pathVars
-------------------------------------------------------------------------------
FullSlots(a) == {s \in Slots : ~is_empty(a[s])}
BlocksOf(a, slots) == {a[s] : s \in slots \cap FullSlots(a)}

LevelIn(a, b) == LevelOf(CHOOSE s \in Slots : a[s] = b)

(* No block is lost, duplicated or altered: the block in `hold` always finds a *)
(* free slot where the plan said there would be one.                           *)
BlocksPreserved ==
  [][/\ BlocksOf(arr', Slots) = BlocksOf(arr, Slots)
     /\ Cardinality(FullSlots(arr')) = Cardinality(FullSlots(arr))]_pathVars

(* A moved block goes down, and not past the last node its path shares with    *)
(* the evicted one.                                                            *)
SinksOnOwnPath ==
  [][\A b \in BlocksOf(arr, Slots) :
       LevelIn(arr', b) \in LevelIn(arr, b) .. Reach(b)]_pathVars

(* The single held block: of the slots of a level at most one is filled and at *)
(* most one gives up the block it had.                                         *)
OneBlockPerLevel ==
  [][\A i \in Levels :
       LET changed == {s \in SlotsOf(i) : arr'[s] # arr[s]} IN
       /\ Cardinality(changed \cap FullSlots(arr)) <= 1
       /\ Cardinality(changed \cap FullSlots(arr')) <= 1]_pathVars

(* The levels that could receive a block from above. *)
CanReceive(a) ==
  {i \in Levels \ {0} : /\ \E s \in SlotsOf(i) : is_empty(a[s])
                        /\ \E j \in 0 .. i - 1 :
                             \E b \in BlocksOf(a, SlotsOf(j)) : Reach(b) >= i}

(* Greedy from the leaf: the deepest level that can receive a block does, and  *)
(* ends with one more block than before.                                       *)
DeepestLevelFills ==
  [][CanReceive(arr) # {} =>
       LET i == Max(CanReceive(arr)) IN
       Cardinality(BlocksOf(arr', SlotsOf(i))) = Cardinality(BlocksOf(arr, SlotsOf(i))) + 1]_pathVars

(* Why the evictions restore Inv1: whenever a block of the stash (or root)     *)
(* could go to some level of the path that has room, one block leaves them.    *)
StashDrains ==
  [][(\E i \in Levels \ {0} :
        /\ \E s \in SlotsOf(i) : is_empty(arr[s])
        /\ \E b \in BlocksOf(arr, SlotsOf(0)) : Reach(b) >= i)
     => Cardinality(BlocksOf(arr', SlotsOf(0))) = Cardinality(BlocksOf(arr, SlotsOf(0))) - 1]_pathVars
================================================================================
