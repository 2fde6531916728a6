------------------------------- MODULE Eviction -------------------------------
(* One eviction of Circuit ORAM (evict_once_fast, read_path, write_path) as    *)
(* operators on the stash array, whose last H*Z slots hold the path that is    *)
(* being worked on.  Level 0 is the stash together with the root bucket.       *)
EXTENDS HeapTree, FiniteSetsExt

CONSTANTS Key, Value, Default, NoKey, NoValue,
          Z,           \* blocks per bucket
          S            \* stash slots before the path

(* With 2^32 leaves the code would take remainders by 0, which is max_n as u32,*)
(* and the last position would be DUMMY_POS: a path has at most 32 buckets.    *)
ASSUME EvictionAssumption == /\ Default \in Value
                             /\ NoKey \notin Key /\ NoValue \notin Value
                             /\ Z \in Nat \ {0} /\ S \in Nat \ {0}
                             /\ H <= 32

DUMMY_POS == -1        \* PositionType::MAX in the code: no position

Block == [pos : Positions, key : Key, value : Value]
(* The code leaves a stale key and value in an emptied block; every reader     *)
(* looks at is_empty first, so all empty blocks are one value here.            *)
Empty == [pos |-> DUMMY_POS, key |-> NoKey, value |-> NoValue]
is_empty(b) == b.pos = DUMMY_POS

Slots == 0 .. S + H * Z - 1
SlotsOf(i) == IF i = 0 THEN 0 .. S + Z - 1 ELSE S + i * Z .. S + i * Z + Z - 1
LevelOf(s) == CHOOSE i \in Levels : s \in SlotsOf(i)
First(slots) == CHOOSE s \in slots : \A t \in slots : s <= t

read_path(stash, tree, p) ==
  [s \in Slots |-> IF s < S THEN stash[s]
                   ELSE tree[get_index((s - S) \div Z, p)][(s - S) % Z]]

write_path(arr, tree, p) ==
  [n \in Nodes |-> IF n \in PathNodes(p)
                   THEN [z \in 0 .. Z - 1 |-> arr[S + Depth(n) * Z + z]]
                   ELSE tree[n]]

(* Mutant of common_suffix_length: the high-order bits are compared. *)
common_suffix_length_Prefix(a, b) ==
  IF a = b THEN 32 ELSE Max({d \in Levels : a \div Pow2[H - 1 - d] = b \div Pow2[H - 1 - d]})

(* trailing_zeros(a ^ b), which is 32 for equal positions. *)
common_suffix_length(a, b) ==
  IF a = b THEN 32 ELSE Max({d \in Levels : a % Pow2[d] = b % Pow2[d]})

-------------------------------------------------------------------------------
(* First pass.  deepest_idx[i] is the first of the slots of level i that can   *)
(* go deepest; deepest[i] the level above i, the first one if several tie,     *)
(* that holds the block which can go deepest, if it reaches level i at all.    *)
Goals(arr, p) ==
  [s \in Slots |-> IF is_empty(arr[s]) THEN -1
                   ELSE common_suffix_length(arr[s].pos, p)]

LevelGoals(goal) == [i \in Levels |-> Max({goal[s] : s \in SlotsOf(i)})]

DeepestIdx(goal, levelGoal) ==
  [i \in Levels |-> IF levelGoal[i] = -1 THEN 0
                    ELSE First({s \in SlotsOf(i) : goal[s] = levelGoal[i]})]

DeepestAbove(i, levelGoal) == Max({levelGoal[j] : j \in 0 .. i - 1})

(* Mutant of Deepest: the level the block can reach is not compared with i. *)
Deepest_NoReach(levelGoal) ==
  [i \in 1 .. H - 1 |->
     IF DeepestAbove(i, levelGoal) < 0 THEN -1
     ELSE First({j \in 0 .. i - 1 : levelGoal[j] = DeepestAbove(i, levelGoal)})]

Deepest(levelGoal) ==
  [i \in 1 .. H - 1 |->
     IF DeepestAbove(i, levelGoal) < i THEN -1
     ELSE First({j \in 0 .. i - 1 : levelGoal[j] = DeepestAbove(i, levelGoal)})]

(* Mutant of HasEmpty: a full bucket is taken for one with room. *)
HasEmpty_Always(arr) == [i \in 1 .. H - 1 |-> TRUE]

HasEmpty(arr) == [i \in 1 .. H - 1 |-> \E s \in SlotsOf(i) : is_empty(arr[s])]

(* Second pass, from the leaf up: one level of the loop.  src and dst describe *)
(* the move that is open: the level src will send its block to level dst.      *)
TargetStep(i, below, deepest, has_empty) ==
  LET is_src == i = below.src
      target == IF is_src THEN below.dst ELSE -1
      src    == IF is_src THEN -1 ELSE below.src
      dst    == IF is_src THEN -1 ELSE below.dst
      change == /\ (dst = -1 /\ has_empty[i]) \/ target # -1
                /\ deepest[i] # -1
  IN [src    |-> IF change THEN deepest[i] ELSE src,
      dst    |-> IF change THEN i ELSE dst,
      target |-> [below.target EXCEPT ![i] = target]]

Closed == [src |-> -1, dst |-> -1, target |-> [i \in Levels |-> -1]]

Scan(deepest, has_empty) ==
  LET scan[i \in 1 .. H] == IF i = H THEN Closed
                            ELSE TargetStep(i, scan[i + 1], deepest, has_empty)
  IN scan

(* Mutants of Target: the stash never becomes a source; the leaf level is left *)
(* out of the scan.                                                            *)
Target_NoStash(deepest, has_empty) == Scan(deepest, has_empty)[1].target

Target_NoLeaf(deepest, has_empty) ==
  LET scan[i \in 1 .. H - 1] ==
        IF i = H - 1 THEN Closed
        ELSE TargetStep(i, scan[i + 1], deepest, has_empty)
      top == scan[1]
  IN [top.target EXCEPT ![0] = IF top.src = 0 THEN top.dst ELSE -1]

Target(deepest, has_empty) ==
  LET top == Scan(deepest, has_empty)[1]
  IN [top.target EXCEPT ![0] = IF top.src = 0 THEN top.dst ELSE -1]

-------------------------------------------------------------------------------
(* Third pass: one block at a time is carried in `hold` from its level to its  *)
(* target level, from the stash to the leaf.                                   *)
Carry(arr, hold, dst) == [arr |-> arr, hold |-> hold, dst |-> dst]

(* Swap the held block with slot s of the array. *)
Swapped(c, s) == Carry([c.arr EXCEPT ![s] = c.hold], c.arr[s], c.dst)

LeaveTop(arr, idx, target) ==
  IF target[0] = -1 THEN Carry(arr, Empty, -1)
  ELSE Carry([arr EXCEPT ![idx[0]] = Empty], arr[idx[0]], target[0])

CarryStep(i, c, idx, target) ==
  LET has_target  == target[i] # -1
      place_dummy == i = c.dst /\ ~has_target
      empties     == {s \in SlotsOf(i) : is_empty(c.arr[s])}
      moved == IF has_target THEN Swapped(c, idx[i])
               ELSE IF place_dummy /\ empties # {} THEN Swapped(c, First(empties))
               ELSE c
  IN [moved EXCEPT !.dst = IF has_target \/ place_dummy THEN target[i] ELSE @]

(* Mutant of ReachLeaf: every empty slot of the leaf takes the block. *)
ReachLeaf_AllEmpty(c) ==
  [s \in Slots |-> IF c.dst = H - 1 /\ s \in SlotsOf(H - 1) /\ is_empty(c.arr[s])
                   THEN c.hold ELSE c.arr[s]]

ReachLeaf(c) ==
  LET empties == {s \in SlotsOf(H - 1) : is_empty(c.arr[s])} IN
  IF c.dst = H - 1 /\ empties # {}
  THEN [c.arr EXCEPT ![First(empties)] = c.hold]
  ELSE c.arr

Carried(arr, idx, target) ==
  LET carry[i \in 0 .. H - 2] ==
        IF i = 0 THEN LeaveTop(arr, idx, target)
        ELSE CarryStep(i, carry[i - 1], idx, target)
  IN carry

Moved(arr, idx, target) == ReachLeaf(Carried(arr, idx, target)[H - 2])

(* Sets of one element, so that each quantity is named once and evaluated once *)
(* by TLC.                                                                     *)
Plans(arr, p) ==
  {[idx    |-> DeepestIdx(g.slot, g.level),
    target |-> Target(Deepest(g.level), HasEmpty(arr))] :
      g \in {[slot |-> goal, level |-> LevelGoals(goal)] : goal \in {Goals(arr, p)}}}

evict_once_fast(arr, p) ==
  {Moved(arr, plan.idx, plan.target) : plan \in Plans(arr, p)}
===============================================================================
