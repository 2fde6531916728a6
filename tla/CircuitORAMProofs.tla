--------------------------- MODULE CircuitORAMProofs ---------------------------
(* For every height of the tree and every size of buckets and stash: what      *)
(* evict_once_fast achieves on any path, and that the slot arrays and the      *)
(* evictions of Circuit ORAM do what module PathOram allows, so the path       *)
(* ORAM's theorems hold of the real one.                                       *)
EXTENDS CircuitORAM, EvictPath, EvictionProofs
-------------------------------------------------------------------------------
(* What an eviction of a path achieves: the properties of EvictPath.           *)

Once(a) == \A s, t \in Occupied(a) : a[s] = a[t] => s = t

(* The inductive invariant: no block in two slots, and each where the path of  *)
(* its position still is the path at hand.                                     *)
Steady(a, p) == a \in Array /\ p \in Positions /\ Once(a) /\ InReach(a, p)

EvictedBy(a, o, p, idx, target) ==
  GreedyPlan(a, p, idx, target) /\ o = Outcome(a, idx, target)

-------------------------------------------------------------------------------
(* One eviction. *)

LEMMA StepSteady ==
  ASSUME NEW a, NEW p, Steady(a, p), NEW o, NEW idx, NEW target,
         EvictedBy(a, o, p, idx, target)
  PROVE  Steady(o, p)
<1> DEFINE To(s) == Dest(s, a, idx, target)
<1>1. a \in Array /\ p \in Positions /\ Feasible(a, idx, target) /\ o = Outcome(a, idx, target)
  BY DEF Steady, EvictedBy, GreedyPlan
<1>2. o \in Array
  BY <1>1, OutcomeArray
<1>3. \A y \in Occupied(o) : \E s \in Occupied(a) : To(s) = y
  BY <1>1, DestOnto
<1>4. \A s \in Occupied(a) : o[To(s)] = a[s] /\ LevelOf(To(s)) \in LevelOf(s) .. Depths(a[s], p)
  BY BlocksSink DEF Steady, EvictedBy
<1>5. Once(o)
  <2> SUFFICES ASSUME NEW y \in Occupied(o), NEW z \in Occupied(o), o[y] = o[z]
               PROVE  y = z
    BY DEF Once
  <2>1. PICK s \in Occupied(a), t \in Occupied(a) : To(s) = y /\ To(t) = z
    BY <1>3
  <2>2. a[s] = a[t]
    BY <1>4, <2>1
  <2> QED
    BY <2>1, <2>2 DEF Steady, Once
<1>6. InReach(o, p)
  <2> SUFFICES ASSUME NEW y \in Occupied(o)
               PROVE  LevelOf(y) <= Depths(o[y], p)
    BY DEF InReach
  <2>1. PICK s \in Occupied(a) : To(s) = y
    BY <1>3
  <2>2. o[y] = a[s] /\ LevelOf(y) \in LevelOf(s) .. Depths(a[s], p)
    BY <1>4, <2>1
  <2> QED
    BY <2>2
<1> QED
  BY <1>1, <1>2, <1>5, <1>6 DEF Steady

LEMMA FiniteSlots == \A T \in SUBSET Slots : IsFiniteSet(T)
<1>1. IsFiniteSet(Slots)
  <2>1. 0 \in Int /\ S + H * Z - 1 \in Int
    BY HeapAssumption, EvictionAssumption
  <2> QED
    BY <2>1, FS_Interval DEF Slots
<1> QED
  BY <1>1, FS_Subset

LEMMA FiniteBlocks ==
  ASSUME NEW a, NEW T
  PROVE  IsFiniteSet(BlocksOf(a, T))
<1> DEFINE U == T \cap FullSlots(a)
           f == [s \in U |-> a[s]]
<1>1. U \in SUBSET Slots
  BY DEF FullSlots
<1>2. IsFiniteSet(U)
  BY <1>1, FiniteSlots
<1>3. f \in Surjection(U, BlocksOf(a, T))
  BY DEF Surjection, BlocksOf
<1> HIDE DEF f, U
<1> QED
  BY <1>2, <1>3, FS_Surjection

LEMMA FullSlotsIs == \A a : FullSlots(a) = Occupied(a)
BY DEF FullSlots, Occupied

(* The blocks of the slots of some level, or of all, are what is in them.      *)
LEMMA InSlots ==
  ASSUME NEW a, NEW T \in SUBSET Slots, NEW b
  PROVE  b \in BlocksOf(a, T) <=> \E s \in T : s \in Occupied(a) /\ a[s] = b
BY DEF BlocksOf, FullSlots, Occupied

LEMMA NoneLost ==
  ASSUME NEW a, NEW p, Steady(a, p), NEW o, NEW idx, NEW target,
         EvictedBy(a, o, p, idx, target)
  PROVE  /\ BlocksOf(o, Slots) = BlocksOf(a, Slots)
         /\ Cardinality(FullSlots(o)) = Cardinality(FullSlots(a))
<1> DEFINE To(s) == Dest(s, a, idx, target)
           f == [s \in Occupied(a) |-> To(s)]
<1>1. a \in Array /\ Feasible(a, idx, target) /\ o = Outcome(a, idx, target)
  BY DEF Steady, EvictedBy, GreedyPlan
<1>2. \A s \in Occupied(a) : To(s) \in Occupied(o) /\ o[To(s)] = a[s]
  BY BlocksSink DEF Steady, EvictedBy
<1>3. \A y \in Occupied(o) : \E s \in Occupied(a) : To(s) = y
  BY <1>1, DestOnto
<1>4. \A s, r \in Occupied(a) : To(s) = To(r) => s = r
  BY <1>1, DestInjective
<1>5. \A b : b \in BlocksOf(o, Slots) <=> b \in BlocksOf(a, Slots)
  <2>1. \A b : /\ b \in BlocksOf(o, Slots) <=> \E s \in Slots : s \in Occupied(o) /\ o[s] = b
               /\ b \in BlocksOf(a, Slots) <=> \E s \in Slots : s \in Occupied(a) /\ a[s] = b
    BY InSlots
  <2>2. Occupied(a) \subseteq Slots /\ Occupied(o) \subseteq Slots
    BY DEF Occupied
  <2> HIDE DEF To
  <2> QED
    BY <1>2, <1>3, <2>1, <2>2
<1>6. f \in Bijection(Occupied(a), Occupied(o))
  <2> HIDE DEF To
  <2>1. f \in [Occupied(a) -> Occupied(o)] /\ \A s \in Occupied(a) : f[s] = To(s)
    BY <1>2
  <2> HIDE DEF f
  <2>2. f \in Injection(Occupied(a), Occupied(o))
    BY <1>4, <2>1 DEF Injection, IsInjective
  <2>3. f \in Surjection(Occupied(a), Occupied(o))
    BY <1>3, <2>1 DEF Surjection
  <2> QED
    BY <2>2, <2>3 DEF Bijection
<1>7. IsFiniteSet(Occupied(a))
  BY FiniteSlots DEF Occupied
<1> HIDE DEF f
<1>8. Cardinality(Occupied(o)) = Cardinality(Occupied(a))
  BY <1>6, <1>7, FS_Bijection DEF ExistsBijection
<1> QED
  BY <1>5, <1>8, FullSlotsIs

LEMMA LevelInIs ==
  ASSUME NEW a, Once(a), NEW s \in Occupied(a)
  PROVE  LevelIn(a, a[s]) = LevelOf(s)
<1>1. s \in Slots /\ ~is_empty(a[s])
  BY DEF Occupied
<1>2. \A t \in Slots : a[t] = a[s] => t = s
  BY <1>1 DEF Occupied, Once
<1> QED
  BY <1>1, <1>2 DEF LevelIn

LEMMA AllSink ==
  ASSUME NEW a, NEW p, Steady(a, p), NEW o, NEW idx, NEW target,
         EvictedBy(a, o, p, idx, target), NEW b \in BlocksOf(a, Slots)
  PROVE  LevelIn(o, b) \in LevelIn(a, b) .. Depths(b, p)
<1>1. PICK s \in Occupied(a) : a[s] = b
  BY InSlots
<1> DEFINE d == Dest(s, a, idx, target)
<1>2. d \in Occupied(o) /\ o[d] = b /\ LevelOf(d) \in LevelOf(s) .. Depths(b, p)
  BY <1>1, BlocksSink DEF Steady, EvictedBy
<1>3. Once(a) /\ Once(o)
  BY StepSteady DEF Steady
<1> HIDE DEF d
<1> QED
  BY <1>1, <1>2, <1>3, LevelInIs

(* The only slot of a level that changes is the one its moves touch. *)
LEMMA OneSlotChanges ==
  ASSUME NEW a, NEW p, Steady(a, p), NEW o, NEW idx, NEW target,
         EvictedBy(a, o, p, idx, target), NEW i \in Levels, NEW T
  PROVE  Cardinality({s \in SlotsOf(i) : o[s] # a[s]} \cap T) <= 1
<1> DEFINE z == Cell(i, a, idx, target)
           C == {s \in SlotsOf(i) : o[s] # a[s]} \cap T
<1>1. o = Outcome(a, idx, target)
  BY DEF EvictedBy
<1>2. \A s \in SlotsOf(i) : o[s] # a[s] => s = z
  BY <1>1, OutcomeAt
<1>3. C \in SUBSET {z}
  BY <1>2
<1>4. IsFiniteSet({z}) /\ Cardinality({z}) = 1
  BY FS_Singleton
<1> HIDE DEF C, z
<1> QED
  BY <1>3, <1>4, FS_Subset DEF C

-------------------------------------------------------------------------------
(* Where the moves end and begin. *)

LEMMA MoveFacts ==
  ASSUME NEW a, NEW p, NEW idx, NEW target, GreedyPlan(a, p, idx, target)
  PROVE  /\ H \in Nat /\ H > 1 /\ Levels = 0 .. H - 1
         /\ target \in [Levels -> -1 .. H - 1] /\ target[H - 1] = -1
         /\ \A j \in Levels : target[j] # -1 =>
              /\ target[j] \in j + 1 .. H - 1 /\ target[j] \in Levels
              /\ target[target[j]] # -1 \/ EmptyIn(a, target[j]) # {}
              /\ idx[j] \in SlotsOf(j) /\ idx[j] \in Occupied(a)
              /\ target[j] <= Depths(a[idx[j]], p)
<1>1. H \in Nat /\ H > 1 /\ Levels = 0 .. H - 1
  BY HeapAssumption DEF Levels
<1>2. Feasible(a, idx, target)
  BY DEF GreedyPlan
<1>3. ASSUME NEW j \in Levels, target[j] # -1
      PROVE  /\ target[j] \in j + 1 .. H - 1 /\ target[j] \in Levels
             /\ target[target[j]] # -1 \/ EmptyIn(a, target[j]) # {}
             /\ idx[j] \in SlotsOf(j) /\ idx[j] \in Occupied(a)
             /\ target[j] <= Depths(a[idx[j]], p)
  <2>1. /\ target[j] \in j + 1 .. H - 1
        /\ target[target[j]] # -1 \/ \E s \in SlotsOf(target[j]) : is_empty(a[s])
        /\ idx[j] \in SlotsOf(j) /\ ~is_empty(a[idx[j]])
    BY <1>2, <1>3 DEF Feasible
  <2>2. target[j] \in Levels /\ idx[j] \in Slots
    BY <1>1, <2>1, LevelSlots
  <2> QED
    BY <1>3, <2>1, <2>2 DEF GreedyPlan, EmptyIn, Occupied
<1> QED
  BY <1>1, <1>2, <1>3 DEF Feasible

(* The levels that could receive a block from above. *)
CouldReceive(a, p) == {i \in Levels \ {0} : EmptyIn(a, i) # {} /\ Wanted(i, a, p)}

(* The deepest level that could receive a block is where the last move ends.   *)
LEMMA DeepestReceives ==
  ASSUME NEW a, NEW p, Steady(a, p), NEW idx, NEW target, GreedyPlan(a, p, idx, target),
         NEW i \in CouldReceive(a, p), \A k \in CouldReceive(a, p) : k <= i
  PROVE  target[i] = -1 /\ \E j \in 0 .. i - 1 : target[j] = i
<1>1. /\ H \in Nat /\ H > 1 /\ Levels = 0 .. H - 1
      /\ target \in [Levels -> -1 .. H - 1]
      /\ \A j \in Levels : target[j] # -1 =>
              /\ target[j] \in j + 1 .. H - 1 /\ target[j] \in Levels
              /\ target[target[j]] # -1 \/ EmptyIn(a, target[j]) # {}
              /\ idx[j] \in SlotsOf(j) /\ idx[j] \in Occupied(a)
              /\ target[j] <= Depths(a[idx[j]], p)
  BY MoveFacts
<1>2. i \in 1 .. H - 1 /\ EmptyIn(a, i) # {} /\ Wanted(i, a, p)
  BY <1>1 DEF CouldReceive
<1>3. ASSUME NEW j \in Levels, target[j] # -1
      PROVE  target[j] <= i
  <2> DEFINE T == {target[k] : k \in {l \in Levels : target[l] # -1}}
             w == Max(T)
  <2>1. \A x \in T : x \in 1 .. H - 1
    BY <1>1
  <2>2. target[j] \in T
    BY <1>3
  <2> HIDE DEF T
  <2>3. T \in SUBSET Int /\ T # {} /\ H - 1 \in Int /\ \A x \in T : x <= H - 1
    BY <1>1, <2>1, <2>2
  <2>4. w \in T /\ \A x \in T : x <= w
    BY <2>3, MaxIs
  <2>5. PICK k \in Levels : target[k] = w /\ target[k] # -1
    BY <2>4 DEF T
  <2> HIDE DEF w
  <2>6. w \in 1 .. H - 1 /\ w \in Levels /\ k \in 0 .. w - 1
    BY <1>1, <2>1, <2>4, <2>5
  <2>7. target[w] = -1
    <3> SUFFICES ASSUME target[w] # -1 PROVE FALSE
      OBVIOUS
    <3>1. target[w] \in T /\ target[w] \in w + 1 .. H - 1
      BY <1>1, <2>6 DEF T
    <3> QED
      BY <2>4, <2>6, <3>1
  <2>8. EmptyIn(a, w) # {}
    BY <1>1, <2>5, <2>7
  <2>9. Wanted(w, a, p)
    <3>1. idx[k] \in SlotsOf(k) /\ ~is_empty(a[idx[k]]) /\ w <= Depths(a[idx[k]], p)
      BY <1>1, <2>5 DEF Occupied
    <3> QED
      BY <2>6, <3>1 DEF Wanted
  <2>10. w <= i
    BY <2>6, <2>8, <2>9 DEF CouldReceive
  <2>11. target[j] <= w
    BY <2>2, <2>4
  <2> QED
    BY <1>1, <1>2, <2>6, <2>10, <2>11
<1>4. target[i] = -1
  <2> SUFFICES ASSUME target[i] # -1 PROVE FALSE
    OBVIOUS
  <2>1. i \in Levels /\ target[i] \in i + 1 .. H - 1 /\ target[i] <= i
    BY <1>1, <1>2, <1>3
  <2> QED
    BY <1>2, <2>1
<1>5. PICK j \in 0 .. i - 1 : target[j] >= i
  BY <1>2 DEF GreedyPlan
<1>6. target[j] = i
  <2>1. j \in Levels /\ target[j] \in -1 .. H - 1 /\ target[j] # -1
    BY <1>1, <1>2, <1>5
  <2>2. target[j] <= i
    BY <1>3, <2>1
  <2> QED
    BY <1>1, <1>2, <1>5, <2>1, <2>2
<1> QED
  BY <1>4, <1>6

(* If a block of the stash could go to a level with room, one leaves. *)
LEMMA StashSends ==
  ASSUME NEW a, NEW p, Steady(a, p), NEW idx, NEW target, GreedyPlan(a, p, idx, target),
         NEW i \in 1 .. H - 1, EmptyIn(a, i) # {},
         NEW s \in SlotsOf(0), ~is_empty(a[s]), i <= Depths(a[s], p)
  PROVE  target[0] # -1
<1>1. /\ H \in Nat /\ H > 1 /\ Levels = 0 .. H - 1
      /\ target \in [Levels -> -1 .. H - 1]
  BY MoveFacts
<1>2. Depths(a[s], p) \in Nat
  <2>1. s \in Occupied(a)
    BY <1>1, LevelSlots DEF Occupied
  <2> QED
    BY <2>1, DepthsType DEF Steady
<1>3. \A t \in 1 .. i : Wanted(t, a, p)
  BY <1>1, <1>2 DEF Wanted
<1> DEFINE J == {j \in 0 .. i - 1 : target[j] # -1}
<1>4. J # {}
  <2>1. PICK j \in 0 .. i - 1 : target[j] >= i
    BY <1>3 DEF GreedyPlan
  <2> QED
    BY <2>1
<1>5. PICK j \in J : \A k \in J : j <= k
  <2>1. J \in SUBSET Nat
    OBVIOUS
  <2> HIDE DEF J
  <2> QED
    BY <1>4, <2>1, LeastNatural
<1>6. CASE j = 0
  BY <1>5, <1>6
<1>7. CASE j # 0
  <2>1. j \in 1 .. i /\ j \in 1 .. H - 1 /\ target[j] # -1
    BY <1>1, <1>5, <1>7
  <2>2. PICK k \in 0 .. j - 1 : target[k] >= j
    BY <1>3, <2>1 DEF GreedyPlan
  <2>3. k \in J /\ ~ (j <= k)
    BY <2>1, <2>2
  <2> QED
    BY <1>5, <2>3
<1> QED
  BY <1>6, <1>7

LEMMA DeepestFills ==
  ASSUME NEW a, NEW p, Steady(a, p), NEW o, NEW idx, NEW target,
         EvictedBy(a, o, p, idx, target),
         NEW i \in CouldReceive(a, p), \A k \in CouldReceive(a, p) : k <= i
  PROVE  Cardinality(BlocksOf(o, SlotsOf(i))) = Cardinality(BlocksOf(a, SlotsOf(i))) + 1
<1> DEFINE z == Cell(i, a, idx, target)
           B == BlocksOf(a, SlotsOf(i))
<1>1. a \in Array /\ Once(a) /\ GreedyPlan(a, p, idx, target) /\ Feasible(a, idx, target)
      /\ o = Outcome(a, idx, target)
  BY DEF Steady, EvictedBy, GreedyPlan
<1>2. i \in Levels /\ i # -1 /\ i \in Int
  BY HeapAssumption DEF CouldReceive, Levels
<1>3. PICK j \in 0 .. i - 1 : target[i] = -1 /\ target[j] = i
  BY <1>1, DeepestReceives
<1>4. j \in Levels /\ target[j] # -1 /\ j # i
  BY <1>2, <1>3, HeapAssumption DEF Levels
<1> DEFINE x == idx[j]
<1>5. x \in SlotsOf(j) /\ x \in Occupied(a)
  BY <1>1, <1>4, MoveFacts
<1>6. Touches(i, target) /\ Incoming(i, a, idx, target) = a[x]
  BY <1>1, <1>2, <1>3, <1>4, IncomingIs DEF Touches, Arrives
<1>7. z \in SlotsOf(i) /\ is_empty(a[z])
  BY <1>1, <1>2, <1>3, <1>6, CellIs
<1>8. \A s \in SlotsOf(i) : /\ o[s] = IF s = z THEN a[x] ELSE a[s]
                            /\ s \in Slots /\ LevelOf(s) = i
  BY <1>1, <1>2, <1>6, OutcomeAt, LevelOfSlot
<1>9. LevelOf(x) = j /\ ~is_empty(a[x])
  BY <1>4, <1>5, LevelOfSlot DEF Occupied
<1> HIDE DEF z, x
<1>10. \A s \in SlotsOf(i) : /\ s \in Occupied(o) <=> s = z \/ s \in Occupied(a)
                             /\ s \in Occupied(a) => s # z
  BY <1>7, <1>8, <1>9 DEF Occupied
<1>11. /\ \A b : b \in BlocksOf(o, SlotsOf(i)) <=> \E s \in SlotsOf(i) : s \in Occupied(o) /\ o[s] = b
       /\ \A b : b \in B <=> \E s \in SlotsOf(i) : s \in Occupied(a) /\ a[s] = b
  BY <1>2, LevelSlots, InSlots
<1>12. BlocksOf(o, SlotsOf(i)) = B \cup {a[x]}
  <2> HIDE DEF B
  <2>1. \A b : b \in BlocksOf(o, SlotsOf(i)) <=> b \in B \/ b = a[x]
    BY <1>7, <1>8, <1>10, <1>11
  <2> QED
    BY <2>1
<1>13. a[x] \notin B
  <2> SUFFICES ASSUME NEW s \in SlotsOf(i), s \in Occupied(a), a[s] = a[x] PROVE FALSE
    BY <1>11
  <2>1. s = x
    BY <1>1, <1>5 DEF Once, x
  <2> QED
    BY <1>4, <1>8, <1>9, <2>1
<1>14. IsFiniteSet(B)
  BY FiniteBlocks
<1> HIDE DEF B
<1> QED
  BY <1>12, <1>13, <1>14, FS_AddElement DEF B

LEMMA StashShrinks ==
  ASSUME NEW a, NEW p, Steady(a, p), NEW o, NEW idx, NEW target,
         EvictedBy(a, o, p, idx, target), target[0] # -1
  PROVE  Cardinality(BlocksOf(o, SlotsOf(0))) = Cardinality(BlocksOf(a, SlotsOf(0))) - 1
<1> DEFINE x == idx[0]
           B == BlocksOf(a, SlotsOf(0))
<1>1. a \in Array /\ Once(a) /\ GreedyPlan(a, p, idx, target) /\ o = Outcome(a, idx, target)
  BY DEF Steady, EvictedBy, GreedyPlan
<1>2. 0 \in Levels /\ ~Arrives(0, target)
  <2>1. /\ Levels = 0 .. H - 1 /\ H > 1 /\ H \in Nat
        /\ \A j \in Levels : target[j] # -1 => target[j] \in j + 1 .. H - 1
    BY <1>1, MoveFacts
  <2> QED
    BY <2>1 DEF Arrives
<1>3. x \in SlotsOf(0) /\ x \in Occupied(a)
  BY <1>1, <1>2, MoveFacts
<1>4. Touches(0, target) /\ Cell(0, a, idx, target) = x /\ Incoming(0, a, idx, target) = Empty
  BY <1>2 DEF Touches, Cell, Incoming
<1>5. \A s \in SlotsOf(0) : o[s] = (IF s = x THEN Empty ELSE a[s]) /\ s \in Slots
  BY <1>1, <1>2, <1>4, OutcomeAt, LevelOfSlot
<1> HIDE DEF x
<1>6. \A s \in SlotsOf(0) : s \in Occupied(o) <=> s # x /\ s \in Occupied(a)
  BY <1>5, EmptyBlock DEF Occupied
<1>7. /\ \A b : b \in BlocksOf(o, SlotsOf(0)) <=> \E s \in SlotsOf(0) : s \in Occupied(o) /\ o[s] = b
      /\ \A b : b \in B <=> \E s \in SlotsOf(0) : s \in Occupied(a) /\ a[s] = b
  BY <1>2, LevelSlots, InSlots
<1> HIDE DEF B
<1>8. BlocksOf(o, SlotsOf(0)) = B \ {a[x]} /\ a[x] \in B
  <2>1. \A s \in Occupied(a) : a[s] = a[x] => s = x
    BY <1>1, <1>3 DEF Once
  <2>2. \A b : b \in BlocksOf(o, SlotsOf(0)) <=> b \in B /\ b # a[x]
    BY <1>5, <1>6, <1>7, <2>1
  <2> QED
    BY <1>3, <1>7, <2>2
<1>9. IsFiniteSet(B)
  BY FiniteBlocks DEF B
<1> QED
  BY <1>8, <1>9, FS_RemoveElement DEF B

-------------------------------------------------------------------------------
(* The specification. *)

PathInv == Steady(arr, path)

LEMMA InitSteady == AnyContent => PathInv
<1> SUFFICES ASSUME AnyContent PROVE PathInv
  OBVIOUS
<1>1. path \in Positions /\ arr \in Array
  BY EvictPathAssumption DEF AnyContent, Array
<1>2. Once(arr)
  BY DEF AnyContent, Once, Occupied
<1>3. InReach(arr, path)
  <2> SUFFICES ASSUME NEW s \in Occupied(arr)
               PROVE  LevelOf(s) <= Depths(arr[s], path)
    BY DEF InReach
  <2>1. LevelOf(s) \in Levels /\ arr[s].pos \in Positions
    BY <1>1, DepthsType
  <2>2. arr[s].pos % Pow2[LevelOf(s)] = path % Pow2[LevelOf(s)]
    BY DEF AnyContent, Occupied
  <2>3. LevelOf(s) \in Shared(arr[s].pos, path)
    BY <2>1, <2>2 DEF Shared
  <2> QED
    BY <1>1, <2>1, <2>3, SharedSuffix DEF Depths
<1> QED
  BY <1>1, <1>2, <1>3 DEF PathInv, Steady

LEMMA EvictOncePlan ==
  ASSUME PathInv, EvictOnce
  PROVE  \E idx, target : EvictedBy(arr, arr', path, idx, target)
<1>1. \A out \in evict_once_fast(arr, path) :
        \E idx, target : EvictedBy(arr, out, path, idx, target)
  BY EvictionMoves DEF PathInv, Steady, EvictedBy
<1> QED
  BY <1>1 DEF EvictOnce

LEMMA NextSteady == PathInv /\ [EvictOnce]_pathVars => PathInv'
<1> SUFFICES ASSUME PathInv, [EvictOnce]_pathVars PROVE PathInv'
  OBVIOUS
<1>1. CASE EvictOnce
  <2>1. PICK idx, target : EvictedBy(arr, arr', path, idx, target)
    BY <1>1, EvictOncePlan
  <2>2. Steady(arr', path)
    BY <2>1, StepSteady DEF PathInv
  <2> QED
    BY <1>1, <2>2 DEF PathInv, EvictOnce
<1>2. CASE UNCHANGED pathVars
  BY <1>2 DEF PathInv, pathVars
<1> QED
  BY <1>1, <1>2

LEMMA AlwaysSteady == Evictions => []PathInv
BY InitSteady, NextSteady, PTL DEF Evictions

LEMMA ReachIs == \A b : Reach(b) = Depths(b, path)
BY DEF Reach, Depths, Shared

LEMMA CanReceiveIs ==
  ASSUME PathInv
  PROVE  CanReceive(arr) = CouldReceive(arr, path)
<1>1. arr \in Array
  BY DEF PathInv, Steady
<1>2. ASSUME NEW i \in Levels \ {0}, NEW j \in 0 .. i - 1
      PROVE  (\E b \in BlocksOf(arr, SlotsOf(j)) : Reach(b) >= i)
             <=> \E s \in SlotsOf(j) : ~is_empty(arr[s]) /\ i <= Depths(arr[s], path)
  <2>1. j \in Levels
    BY HeapAssumption DEF Levels
  <2>2. \A s \in SlotsOf(j) : s \in Slots
    BY <2>1, LevelSlots
  <2>3. \A b : b \in BlocksOf(arr, SlotsOf(j)) <=> \E s \in SlotsOf(j) : s \in Occupied(arr) /\ arr[s] = b
    BY <2>1, LevelSlots, InSlots
  <2>4. \A s \in SlotsOf(j) : s \in Occupied(arr) <=> ~is_empty(arr[s])
    BY <2>2 DEF Occupied
  <2>5. \A s \in Occupied(arr) : Depths(arr[s], path) \in Int /\ i \in Int
    BY <1>1, DepthsType, HeapAssumption DEF PathInv, Steady, Levels
  <2> QED
    BY <2>3, <2>4, <2>5, ReachIs
<1>3. \A i : i \in CanReceive(arr) <=> i \in CouldReceive(arr, path)
  BY <1>2 DEF CanReceive, CouldReceive, EmptyIn, Wanted
<1> QED
  BY <1>3 DEF CanReceive, CouldReceive

(* The block in `hold` always finds a free slot where the plan said there      *)
(* would be one: no eviction loses, duplicates or alters a block.              *)
THEOREM EvictionLosesNothing == Evictions => BlocksPreserved
<1> DEFINE A == /\ BlocksOf(arr', Slots) = BlocksOf(arr, Slots)
                /\ Cardinality(FullSlots(arr')) = Cardinality(FullSlots(arr))
<1>1. ASSUME PathInv, [EvictOnce]_pathVars PROVE [A]_pathVars
  <2> SUFFICES ASSUME EvictOnce PROVE A
    BY <1>1
  <2>1. PICK idx, target : EvictedBy(arr, arr', path, idx, target)
    BY <1>1, EvictOncePlan
  <2> QED
    BY <1>1, <2>1, NoneLost DEF PathInv
<1> QED
  BY <1>1, AlwaysSteady, PTL DEF Evictions, BlocksPreserved

(* A moved block goes down, and not past the last node its path shares with    *)
(* the evicted one.                                                            *)
THEOREM EvictionSinks == Evictions => SinksOnOwnPath
<1> DEFINE A == \A b \in BlocksOf(arr, Slots) :
                  LevelIn(arr', b) \in LevelIn(arr, b) .. Reach(b)
<1>1. ASSUME PathInv, [EvictOnce]_pathVars PROVE [A]_pathVars
  <2> SUFFICES ASSUME EvictOnce PROVE A
    BY <1>1
  <2>1. PICK idx, target : EvictedBy(arr, arr', path, idx, target)
    BY <1>1, EvictOncePlan
  <2>2. \A b \in BlocksOf(arr, Slots) :
          LevelIn(arr', b) \in LevelIn(arr, b) .. Depths(b, path)
    BY <1>1, <2>1, AllSink DEF PathInv
  <2> QED
    BY <2>2, ReachIs
<1> QED
  BY <1>1, AlwaysSteady, PTL DEF Evictions, SinksOnOwnPath

(* One block is carried at a time: of the slots of a level at most one is      *)
(* filled and at most one gives up its block.                                  *)
THEOREM EvictionCarriesOne == Evictions => OneBlockPerLevel
<1> DEFINE A == \A i \in Levels :
                  LET changed == {s \in SlotsOf(i) : arr'[s] # arr[s]} IN
                  /\ Cardinality(changed \cap FullSlots(arr)) <= 1
                  /\ Cardinality(changed \cap FullSlots(arr')) <= 1
<1>1. ASSUME PathInv, [EvictOnce]_pathVars PROVE [A]_pathVars
  <2> SUFFICES ASSUME EvictOnce PROVE A
    BY <1>1
  <2>1. PICK idx, target : EvictedBy(arr, arr', path, idx, target)
    BY <1>1, EvictOncePlan
  <2> QED
    BY <1>1, <2>1, OneSlotChanges DEF PathInv
<1> QED
  BY <1>1, AlwaysSteady, PTL DEF Evictions, OneBlockPerLevel

(* Greedy from the leaf: the deepest level that can receive a block ends with  *)
(* one more than before.                                                       *)
THEOREM EvictionFillsDeepest == Evictions => DeepestLevelFills
<1> DEFINE Grows(i) == Cardinality(BlocksOf(arr', SlotsOf(i)))
                       = Cardinality(BlocksOf(arr, SlotsOf(i))) + 1
           A == CanReceive(arr) # {} => LET i == Max(CanReceive(arr)) IN Grows(i)
<1>1. ASSUME PathInv, [EvictOnce]_pathVars PROVE [A]_pathVars
  <2> SUFFICES ASSUME EvictOnce, CanReceive(arr) # {} PROVE Grows(Max(CanReceive(arr)))
    BY <1>1
  <2>1. PICK idx, target : EvictedBy(arr, arr', path, idx, target)
    BY <1>1, EvictOncePlan
  <2> DEFINE C == CouldReceive(arr, path)
  <2>2. CanReceive(arr) = C
    BY <1>1, CanReceiveIs
  <2>3. C \in SUBSET Int /\ H - 1 \in Int /\ \A x \in C : x <= H - 1
    BY HeapAssumption DEF CouldReceive, Levels
  <2>4. Max(C) \in C /\ \A x \in C : x <= Max(C)
    <3> HIDE DEF C
    <3> QED
      BY <2>2, <2>3, MaxIs
  <2>5. Grows(Max(C))
    BY <1>1, <2>1, <2>4, DeepestFills DEF PathInv
  <2> QED
    BY <2>2, <2>5
<1> QED
  BY <1>1, AlwaysSteady, PTL DEF Evictions, DeepestLevelFills

(* Whenever a block of the stash or the root could go to a level of the path   *)
(* that has room, one leaves them: what the evictions' restoring Inv1 rests on.*)
THEOREM EvictionDrainsStash == Evictions => StashDrains
<1> DEFINE Can == \E i \in Levels \ {0} :
                    /\ \E s \in SlotsOf(i) : is_empty(arr[s])
                    /\ \E b \in BlocksOf(arr, SlotsOf(0)) : Reach(b) >= i
           A == Can => Cardinality(BlocksOf(arr', SlotsOf(0)))
                       = Cardinality(BlocksOf(arr, SlotsOf(0))) - 1
<1>1. ASSUME PathInv, [EvictOnce]_pathVars PROVE [A]_pathVars
  <2> SUFFICES ASSUME EvictOnce, Can
               PROVE  Cardinality(BlocksOf(arr', SlotsOf(0)))
                      = Cardinality(BlocksOf(arr, SlotsOf(0))) - 1
    BY <1>1
  <2>1. PICK idx, target : EvictedBy(arr, arr', path, idx, target)
    BY <1>1, EvictOncePlan
  <2>2. PICK i \in Levels \ {0} : /\ \E s \in SlotsOf(i) : is_empty(arr[s])
                                  /\ \E b \in BlocksOf(arr, SlotsOf(0)) : Reach(b) >= i
    OBVIOUS
  <2>3. i \in 1 .. H - 1 /\ EmptyIn(arr, i) # {} /\ 0 \in Levels /\ i \in Int
    BY <2>2, HeapAssumption DEF EmptyIn, Levels
  <2>4. PICK s \in SlotsOf(0) : s \in Occupied(arr) /\ Reach(arr[s]) >= i
    BY <2>2, <2>3, LevelSlots, InSlots
  <2>5. Depths(arr[s], path) \in Nat
    BY <1>1, <2>4, DepthsType DEF PathInv, Steady
  <2>6. ~is_empty(arr[s]) /\ i <= Depths(arr[s], path)
    BY <2>3, <2>4, <2>5, ReachIs DEF Occupied
  <2>7. target[0] # -1
    BY <1>1, <2>1, <2>3, <2>6, StashSends DEF PathInv, EvictedBy
  <2> QED
    BY <1>1, <2>1, <2>7, StashShrinks DEF PathInv
<1> QED
  BY <1>1, AlwaysSteady, PTL DEF Evictions, StashDrains

-------------------------------------------------------------------------------
(* The ORAM on the path ORAM. *)

Path == INSTANCE PathOramProofs WITH blocks <- Blocks

-------------------------------------------------------------------------------
(* The blocks of a memory, and the operators of PathOram on them. *)

BlocksIn(m) == {Placed(m[c], c[1]) : c \in FullCells(m)}

LEMMA SamePow == Path!Pow2 = Pow2
BY DEF Path!Pow2, Pow2

LEMMA SameTree ==
  /\ \A p : Path!PathNodes(p) = PathNodes(p)
  /\ Path!Positions = Positions /\ Path!Nodes = Nodes /\ Path!Stash = Stash
  /\ \A k : Path!At(k) = At(k)
<1>1. Path!Positions = Positions
  BY DEF Path!Positions, Positions
<1>2. \A p : Path!PathNodes(p) = PathNodes(p)
  BY SamePow DEF Path!PathNodes, PathNodes, Path!Levels, Levels, Path!get_index, get_index
<1> QED
  BY SamePow, <1>1, <1>2 DEF Path!Nodes, Nodes, Path!Stash, Stash, Path!At, At

LEMMA PathConstants == Path!HeapAssumption /\ Path!BlockAssumption
BY HeapAssumption, EvictionAssumption, SamePow DEF Path!HeapAssumption, Path!BlockAssumption

LEMMA SameMaps ==
  /\ \A f, k, v : Path!With(f, k, v) = With(f, k, v)
  /\ \A f, k : Path!Without(f, k) = Without(f, k)
  /\ \A o, k, f, v : Path!Answer(o, k, f, v) = Answer(o, k, f, v)
  /\ Path!Ops = Ops
BY DEF Path!With, With, Path!Without, Without, Path!Answer, Answer, Path!Ops, Ops

LEMMA SameCardinality == \A T : Path!Cardinality(T) = Cardinality(T)
BY DEF Path!Cardinality, Cardinality, Path!IsFiniteSet, IsFiniteSet

(* The blocks of a stash and a tree, as CircuitORAM names them. *)
BlocksHeld(st, t) ==
  {Placed(st[s], Stash) : s \in {x \in 0 .. S - 1 : ~is_empty(st[x])}}
  \cup {Placed(t[nz[1]][nz[2]], nz[1]) :
          nz \in {x \in Nodes \X (0 .. Z - 1) : ~is_empty(t[x[1]][x[2]])}}

LEMMA BlocksOfMem ==
  ASSUME NEW st \in StashType, NEW t \in TreeType
  PROVE  BlocksHeld(st, t) = BlocksIn(Mem(st, t))
<1> DEFINE m == Mem(st, t)
           used == {x \in 0 .. S - 1 : ~is_empty(st[x])}
           places == {x \in Nodes \X (0 .. Z - 1) : ~is_empty(t[x[1]][x[2]])}
           Blks == {Placed(st[s], Stash) : s \in used}
                   \cup {Placed(t[nz[1]][nz[2]], nz[1]) : nz \in places}
<1>1. ASSUME NEW s \in 0 .. S - 1
      PROVE  <<Stash, s>> \in Cells /\ m[<<Stash, s>>] = st[s]
  BY DEF Mem, Cells
<1>2. ASSUME NEW n \in Nodes, NEW z \in 0 .. Z - 1
      PROVE  <<n, z>> \in Cells /\ m[<<n, z>>] = t[n][z]
  BY StashNoNode DEF Mem, Cells
<1> HIDE DEF m
<1>3. ASSUME NEW b \in Blks
      PROVE  b \in BlocksIn(m)
  <2>1. CASE \E s \in used : b = Placed(st[s], Stash)
    <3>1. PICK s \in used : b = Placed(st[s], Stash)
      BY <2>1
    <3>2. <<Stash, s>> \in FullCells(m) /\ m[<<Stash, s>>] = st[s]
      BY <1>1 DEF FullCells
    <3> QED
      BY <3>1, <3>2 DEF BlocksIn
  <2>2. CASE \E nz \in places : b = Placed(t[nz[1]][nz[2]], nz[1])
    <3>1. PICK nz \in places : b = Placed(t[nz[1]][nz[2]], nz[1])
      BY <2>2
    <3>2. nz \in FullCells(m) /\ m[nz] = t[nz[1]][nz[2]]
      BY <1>2 DEF FullCells
    <3> QED
      BY <3>1, <3>2 DEF BlocksIn
  <2> QED
    BY <2>1, <2>2
<1>4. ASSUME NEW b \in BlocksIn(m)
      PROVE  b \in Blks
  <2>1. PICK c \in FullCells(m) : b = Placed(m[c], c[1])
    BY DEF BlocksIn
  <2>2. ASSUME NEW s \in 0 .. S - 1, c = <<Stash, s>>
        PROVE  b \in Blks
    <3>1. s \in used /\ b = Placed(st[s], Stash)
      BY <1>1, <2>1, <2>2 DEF FullCells
    <3> QED
      BY <3>1
  <2>3. ASSUME NEW n \in Nodes, NEW z \in 0 .. Z - 1, c = <<n, z>>
        PROVE  b \in Blks
    <3>1. c \in places /\ b = Placed(t[c[1]][c[2]], c[1])
      BY <1>2, <2>1, <2>3 DEF FullCells
    <3> QED
      BY <3>1
  <2> QED
    BY <2>1, <2>2, <2>3 DEF FullCells, Cells
<1> QED
  BY <1>3, <1>4 DEF m, BlocksHeld

LEMMA BlocksAre ==
  /\ stash \in StashType /\ tree \in TreeType => Blocks = BlocksIn(Mem(stash, tree))
  /\ stash' \in StashType /\ tree' \in TreeType => Blocks' = BlocksIn(Mem(stash', tree'))
<1>1. Blocks = BlocksHeld(stash, tree) /\ Blocks' = BlocksHeld(stash', tree')
  BY DEF Blocks, StashSlots, TreeSlots, BlocksHeld
<1> QED
  BY <1>1, BlocksOfMem

LEMMA PlacedFields ==
  ASSUME NEW b, NEW n
  PROVE  /\ Placed(b, n).key = b.key /\ Placed(b, n).pos = b.pos
         /\ Placed(b, n).value = b.value /\ Placed(b, n).at = n
         /\ Path!Payload(Placed(b, n)) = [key |-> b.key, pos |-> b.pos, value |-> b.value]
BY DEF Placed, Path!Payload

(* A full cell is known by its block. *)
LEMMA CellOfBlock ==
  ASSUME NEW m, Distinct(m), NEW c \in FullCells(m), NEW d \in FullCells(m),
         Placed(m[c], c[1]).key = Placed(m[d], d[1]).key
  PROVE  c = d
BY PlacedFields DEF Distinct

(* The blocks in one place are as many as its full cells.                      *)
LEMMA BlocksAt ==
  ASSUME NEW m, Distinct(m), NEW n, NEW k \in Nat,
         \A c \in FullCells(m) : c[1] = n => c[2] \in 0 .. k - 1,
         \A c \in Cells : c = <<c[1], c[2]>>
  PROVE  LET at == {b \in BlocksIn(m) : b.at = n}
             used == {z \in 0 .. k - 1 : <<n, z>> \in FullCells(m)}
         IN  /\ IsFiniteSet(at) /\ Cardinality(at) = Cardinality(used)
             /\ Cardinality(at) <= k /\ Cardinality(at) \in Nat
             /\ Cardinality(at) >= k <=> used = 0 .. k - 1
<1> DEFINE at == {b \in BlocksIn(m) : b.at = n}
           used == {z \in 0 .. k - 1 : <<n, z>> \in FullCells(m)}
           f == [z \in used |-> Placed(m[<<n, z>>], n)]
<1>1. f \in Surjection(used, at)
  <2>1. \A z \in used : f[z] \in at
    BY PlacedFields DEF BlocksIn
  <2>2. ASSUME NEW b \in at
        PROVE  \E z \in used : f[z] = b
    <3>1. PICK c \in FullCells(m) : b = Placed(m[c], c[1])
      BY DEF BlocksIn
    <3>2. c[1] = n
      BY <3>1, PlacedFields
    <3>3. c = <<n, c[2]>> /\ c[2] \in used
      BY <3>1, <3>2 DEF FullCells
    <3> QED
      BY <3>1, <3>2, <3>3
  <2> QED
    BY <2>1, <2>2 DEF Surjection
<1>2. f \in Injection(used, at)
  <2>1. ASSUME NEW y \in used, NEW z \in used, f[y] = f[z]
        PROVE  y = z
    <3>1. <<n, y>> = <<n, z>>
      <4>1. <<n, y>>[1] = n /\ <<n, z>>[1] = n
        OBVIOUS
      <4> QED
        BY <2>1, <4>1, CellOfBlock
    <3> QED
      BY <3>1
  <2> QED
    BY <1>1, <2>1 DEF Surjection, Injection, IsInjective
<1>3. f \in Bijection(used, at)
  BY <1>1, <1>2 DEF Bijection
<1>4. IsFiniteSet(0 .. k - 1) /\ Cardinality(0 .. k - 1) = k
  <2>1. 0 \in Int /\ k - 1 \in Int
    OBVIOUS
  <2>2. /\ IsFiniteSet(0 .. k - 1)
        /\ Cardinality(0 .. k - 1) = IF 0 > k - 1 THEN 0 ELSE (k - 1) - 0 + 1
    BY <2>1, FS_Interval, Zenon
  <2> QED
    BY <2>2
<1>5. /\ IsFiniteSet(used) /\ Cardinality(used) <= k /\ Cardinality(used) \in Nat
      /\ Cardinality(used) = k => used = 0 .. k - 1
  BY <1>4, FS_Subset, FS_CardinalityType
<1>6. IsFiniteSet(at) /\ Cardinality(at) = Cardinality(used)
  <2> HIDE DEF f, at, used
  <2> QED
    BY <1>3, <1>5, FS_Bijection DEF ExistsBijection
<1> HIDE DEF at, used
<1>7. used = 0 .. k - 1 => Cardinality(used) = k
  BY <1>4
<1>8. /\ IsFiniteSet(at) /\ Cardinality(at) = Cardinality(used)
      /\ Cardinality(at) <= k /\ Cardinality(at) \in Nat
      /\ Cardinality(at) >= k <=> used = 0 .. k - 1
  BY <1>5, <1>6, <1>7
<1> QED
  BY <1>8 DEF at, used

LEMMA StashFullIs ==
  ASSUME NEW m, Distinct(m)
  PROVE  Path!StashFull(BlocksIn(m)) <=> \A s \in 0 .. S - 1 : <<Stash, s>> \in FullCells(m)
<1> DEFINE at == {b \in BlocksIn(m) : b.at = Stash}
           used == {s \in 0 .. S - 1 : <<Stash, s>> \in FullCells(m)}
<1>1. S \in Nat /\ \A c \in FullCells(m) : c[1] = Stash => c[2] \in 0 .. S - 1
  BY CellShape, EvictionAssumption DEF FullCells
<1>2. Cardinality(at) >= S <=> used = 0 .. S - 1
  BY <1>1, CellShape, BlocksAt
<1>3. Path!StashFull(BlocksIn(m)) <=> Cardinality(at) >= S
  BY SameCardinality, SameTree DEF Path!StashFull
<1> HIDE DEF at
<1> QED
  BY <1>2, <1>3

LEMMA BucketsFit ==
  ASSUME NEW m, Distinct(m), NEW n \in Nodes
  PROVE  Path!Cardinality({b \in BlocksIn(m) : b.at = n}) <= Z
<1>1. Z \in Nat /\ \A c \in FullCells(m) : c[1] = n => c[2] \in 0 .. Z - 1
  BY CellShape, StashNoNode, EvictionAssumption DEF FullCells
<1>2. Cardinality({b \in BlocksIn(m) : b.at = n}) <= Z
  BY <1>1, CellShape, BlocksAt
<1> QED
  BY <1>2, SameCardinality

(* What an eviction does to the memory is what PathOram lets it do.            *)
LEMMA SinksIsEvict ==
  ASSUME NEW m, Good(m), NEW n, Good(n), Sinks(m, n), Blocks' = BlocksIn(n)
  PROVE  Path!Evict(BlocksIn(m))
<1>1. ASSUME NEW c \in FullCells(m), NEW d \in FullCells(n), Goes(m, n, c, d)
      PROVE  /\ Placed(n[d], d[1]) \in Path!Relocated(BlocksIn(m))
             /\ Path!Payload(Placed(n[d], d[1])) = Path!Payload(Placed(m[c], c[1]))
  <2> DEFINE b == Placed(m[c], c[1])
  <2>1. n[d] = m[c] /\ Lower(c[1], d[1], m[c].pos)
    BY <1>1 DEF Goes
  <2>2. b \in BlocksIn(m)
    BY DEF BlocksIn
  <2>3. d[1] \in Path!Below(b)
    BY <2>1, PlacedFields, SameTree DEF Path!Below, Lower
  <2>4. Placed(n[d], d[1]) = [b EXCEPT !.at = d[1]]
    BY <2>1 DEF Placed
  <2>5. Path!Payload(Placed(n[d], d[1])) = Path!Payload(b)
    BY <2>1, PlacedFields
  <2> HIDE DEF b
  <2>6. Placed(n[d], d[1]) \in Path!Relocated(BlocksIn(m))
    BY <2>2, <2>3, <2>4 DEF Path!Relocated
  <2> QED
    BY <2>5, <2>6 DEF b
<1>2. BlocksIn(n) \in SUBSET Path!Relocated(BlocksIn(m))
  <2> SUFFICES ASSUME NEW e \in BlocksIn(n)
               PROVE  e \in Path!Relocated(BlocksIn(m))
    OBVIOUS
  <2>1. PICK d \in FullCells(n) : e = Placed(n[d], d[1])
    BY DEF BlocksIn
  <2>2. PICK c \in FullCells(m) : Goes(m, n, c, d)
    BY DEF Sinks
  <2> QED
    BY <1>1, <2>1, <2>2
<1>3. {Path!Payload(b) : b \in BlocksIn(n)} = {Path!Payload(b) : b \in BlocksIn(m)}
  <2>1. ASSUME NEW e \in BlocksIn(n)
        PROVE  \E b \in BlocksIn(m) : Path!Payload(b) = Path!Payload(e)
    <3>1. PICK d \in FullCells(n) : e = Placed(n[d], d[1])
      BY DEF BlocksIn
    <3>2. PICK c \in FullCells(m) : Goes(m, n, c, d)
      BY DEF Sinks
    <3>3. Placed(m[c], c[1]) \in BlocksIn(m)
      BY DEF BlocksIn
    <3> QED
      BY <1>1, <3>1, <3>2, <3>3
  <2>2. ASSUME NEW b \in BlocksIn(m)
        PROVE  \E e \in BlocksIn(n) : Path!Payload(e) = Path!Payload(b)
    <3>1. PICK c \in FullCells(m) : b = Placed(m[c], c[1])
      BY DEF BlocksIn
    <3>2. PICK d \in FullCells(n) : Goes(m, n, c, d)
      BY DEF Sinks
    <3>3. Placed(n[d], d[1]) \in BlocksIn(n)
      BY DEF BlocksIn
    <3> QED
      BY <1>1, <3>1, <3>2, <3>3
  <2> QED
    BY <2>1, <2>2
<1>4. \A b, c \in BlocksIn(n) : Path!Payload(b) = Path!Payload(c) => b = c
  <2> SUFFICES ASSUME NEW d \in FullCells(n), NEW e \in FullCells(n),
                      Path!Payload(Placed(n[d], d[1])) = Path!Payload(Placed(n[e], e[1]))
               PROVE  d = e
    BY DEF BlocksIn
  <2>1. n[d].key = n[e].key
    BY PlacedFields
  <2> QED
    BY <2>1 DEF Good, Distinct
<1>5. \A x \in Nodes : Path!Cardinality({b \in BlocksIn(n) : b.at = x}) <= Z
  BY BucketsFit DEF Good
<1> QED
  BY <1>2, <1>3, <1>4, <1>5, SameTree DEF Path!Evict

-------------------------------------------------------------------------------
(* The scan of an operation. *)

LEMMA MatchingIs ==
  ASSUME NEW m, Blocks = BlocksIn(m), NEW k, NEW p
  PROVE  Path!Matching(k, p) = {Placed(m[c], c[1]) : c \in HitCells(m, k, p)}
<1>1. ASSUME NEW b \in Path!Matching(k, p)
      PROVE  \E c \in HitCells(m, k, p) : b = Placed(m[c], c[1])
  <2>1. b \in BlocksIn(m) /\ b.at \in {Stash} \cup PathNodes(p) /\ b.key = k
    BY SameTree DEF Path!Matching, Path!Scanned
  <2>2. PICK c \in FullCells(m) : b = Placed(m[c], c[1])
    BY <2>1 DEF BlocksIn
  <2>3. c \in HitCells(m, k, p)
    BY <2>1, <2>2, PlacedFields DEF HitCells, CellsOn, FullCells
  <2> QED
    BY <2>2, <2>3
<1>2. ASSUME NEW c \in HitCells(m, k, p)
      PROVE  Placed(m[c], c[1]) \in Path!Matching(k, p)
  <2>1. Placed(m[c], c[1]) \in BlocksIn(m)
    BY DEF HitCells, BlocksIn
  <2>2. /\ Placed(m[c], c[1]).at \in {Stash} \cup PathNodes(p)
        /\ Placed(m[c], c[1]).key = k
    BY PlacedFields DEF HitCells, CellsOn
  <2> QED
    BY <2>1, <2>2, SameTree DEF Path!Matching, Path!Scanned
<1> QED
  BY <1>1, <1>2

LEMMA FoundIs ==
  ASSUME stash \in StashType, tree \in TreeType, Good(Mem(stash, tree)),
         NEW k \in Key, NEW p \in Positions
  PROVE  /\ (Found(k, p) # {}) = (Path!Matching(k, p) # {})
         /\ \A b \in Found(k, p) :
              b.value \in Value /\ \E h \in Path!Matching(k, p) : h.value = b.value
<1> DEFINE m == Mem(stash, tree)
           a == Load(m, p)
           hits == {t \in Slots : Matches(a[t], k)}
<1>1. m \in Memory /\ Blocks = BlocksIn(m) /\ read_path(stash, tree, p) = a
  BY MemType, BlocksAre, ReadIs
<1>2. Found(k, p) = IF hits = {} THEN {} ELSE {a[Max(hits)]}
  <2> HIDE DEF a
  <2> QED
    BY <1>1 DEF Found
<1> HIDE DEF m
<1>3. Path!Matching(k, p) = {Placed(m[c], c[1]) : c \in HitCells(m, k, p)}
  BY <1>1, MatchingIs
<1>4. CASE hits = {}
  <2>1. HitCells(m, k, p) = {}
    BY <1>1, <1>4, HitSlots
  <2> QED
    BY <1>2, <1>3, <1>4, <2>1
<1>5. CASE hits # {}
  <2> DEFINE s == Max(hits)
             c == CellOf(s, p)
  <2>1. s \in hits
    <3>1. H * Z \in Nat /\ S \in Nat
      BY HeapAssumption, EvictionAssumption
    <3>2. S + H * Z \in Int /\ hits \in SUBSET Int /\ \A x \in hits : x <= S + H * Z
      BY <3>1 DEF Slots
    <3> HIDE DEF hits
    <3> QED
      BY <1>5, <3>2, MaxIs
  <2> HIDE DEF s
  <2>2. s \in Slots /\ Matches(a[s], k)
    BY <2>1
  <2>3. c \in HitCells(m, k, p) /\ a[s] = m[c]
    BY <1>1, <2>2, HitSlots, LoadAt
  <2> HIDE DEF c
  <2>4. Placed(m[c], c[1]) \in Path!Matching(k, p) /\ Placed(m[c], c[1]).value = m[c].value
    BY <1>3, <2>3, PlacedFields
  <2>5. m[c] \in Block
    BY <1>1, <2>3, FullIsBlock DEF HitCells
  <2>6. Found(k, p) = {m[c]}
    BY <1>2, <1>5, <2>3 DEF s
  <2>7. m[c].value \in Value
    BY <2>5 DEF Block
  <2> QED
    BY <2>4, <2>6, <2>7
<1> QED
  BY <1>4, <1>5

-------------------------------------------------------------------------------
(* Taking the block of a key off the path, and storing one in the stash.       *)

LEMMA RemovedBlocks ==
  ASSUME NEW m, Good(m), NEW k, NEW p \in Positions, NEW r, r = Removed(Load(m, p), k),
         NEW n, n = Store(m, r, p)
  PROVE  BlocksIn(n) = BlocksIn(m) \ {Placed(m[c], c[1]) : c \in HitCells(m, k, p)}
<1>1. /\ FullCells(n) = FullCells(m) \ HitCells(m, k, p)
      /\ \A c \in FullCells(n) : n[c] = m[c]
  BY RemovedIs
<1>2. \A c \in FullCells(n) : c \in FullCells(m) /\ c \notin HitCells(m, k, p) /\ n[c] = m[c]
  BY <1>1
<1>3. ASSUME NEW b \in BlocksIn(n)
      PROVE  b \in BlocksIn(m) /\ \A h \in HitCells(m, k, p) : b # Placed(m[h], h[1])
  <2>1. PICK c \in FullCells(n) : b = Placed(n[c], c[1])
    BY DEF BlocksIn
  <2>2. c \in FullCells(m) /\ c \notin HitCells(m, k, p) /\ b = Placed(m[c], c[1])
    BY <1>2, <2>1
  <2>3. \A h \in HitCells(m, k, p) : h \in FullCells(m)
    BY DEF HitCells
  <2> QED
    BY <2>2, <2>3, CellOfBlock DEF BlocksIn, Good
<1>4. ASSUME NEW b \in BlocksIn(m), \A h \in HitCells(m, k, p) : b # Placed(m[h], h[1])
      PROVE  b \in BlocksIn(n)
  <2>1. PICK c \in FullCells(m) : b = Placed(m[c], c[1])
    BY DEF BlocksIn
  <2>2. c \in FullCells(n)
    BY <1>1, <1>4, <2>1
  <2> QED
    BY <1>2, <2>1, <2>2 DEF BlocksIn
<1> QED
  BY <1>3, <1>4

Lacks(m, k) == \A c \in FullCells(m) : m[c].key # k

(* Storing is as in PathOram: the block is in the stash, or it was full.       *)
StoredRight(n, p, k, q, v) ==
  LET w == write_block_to_empty_slot(Load(n, p), Full(k, q, v))
      o == Store(n, w, p)
  IN  w \in Array /\ Good(o) /\ BlocksIn(o) = Path!Stored(BlocksIn(n), k, q, v)

LEMMA InsertedIs ==
  ASSUME NEW n, Good(n), NEW p \in Positions,
         NEW k \in Key, Lacks(n, k), NEW q \in Positions, NEW v \in Value
  PROVE  StoredRight(n, p, k, q, v)
<1> DEFINE r == Load(n, p)
           w == write_block_to_empty_slot(r, Full(k, q, v))
           o == Store(n, w, p)
<1> SUFFICES w \in Array /\ Good(o) /\ BlocksIn(o) = Path!Stored(BlocksIn(n), k, q, v)
  BY DEF StoredRight
<1>0. /\ r = Load(n, p) /\ w = write_block_to_empty_slot(r, Full(k, q, v))
      /\ o = Store(n, w, p) /\ \A c \in FullCells(n) : n[c].key # k
  BY DEF Lacks
<1> HIDE DEF r, w, o
<1> DEFINE empties == {s \in 0 .. S - 1 : is_empty(r[s])}
           f == First(empties)
           new == <<Stash, f>>
           b == Full(k, q, v)
<1>1. n \in Memory /\ r \in Array
  BY <1>0, LoadType DEF Good
<1>2. \A s \in 0 .. S - 1 : r[s] = n[<<Stash, s>>] /\ <<Stash, s>> \in Cells
  BY <1>0, StashCell, LoadAt
<1>3. Path!StashFull(BlocksIn(n)) <=> empties = {}
  BY <1>2, StashFullIs DEF FullCells, Good
<1>4. b \in Block /\ ~is_empty(b) /\ b.key = k /\ b.pos = q /\ b.value = v
  <2>1. b \in Block /\ b.key = k /\ b.pos = q /\ b.value = v
    BY DEF Full, Block
  <2> QED
    BY <2>1, EmptyBlock
<1>5. CASE empties = {}
  <2>1. w = r
    BY <1>0, <1>1, <1>5, FirstEmpty
  <2>2. o = n
    BY <1>0, <1>1, <2>1, StoreLoad
  <2> QED
    BY <1>1, <1>3, <1>5, <2>1, <2>2 DEF Path!Stored
<1>6. CASE empties # {}
  <2> HIDE DEF b
  <2>1. f \in empties /\ w = [r EXCEPT ![f] = b]
    <3>1. w = write_block_to_empty_slot(r, b)
      BY <1>0 DEF b
    <3> QED
      BY <1>6, <3>1, FirstEmpty
  <2> HIDE DEF f
  <2>2. f \in 0 .. S - 1 /\ is_empty(n[new]) /\ f \in Slots
    BY <1>2, <2>1, StashCell
  <2>3. w \in Array
    BY <1>1, <1>4, <2>1 DEF Array
  <2>4. new \in CellsOn(p) /\ new \in Cells /\ SlotAt(new) = f
    BY <2>2, StashCell
  <2>5. ASSUME NEW c \in Cells
        PROVE  o[c] = IF c = new THEN b ELSE n[c]
    <3> HIDE DEF new
    <3>1. CASE c \notin CellsOn(p)
      BY <1>0, <2>4, <3>1, StoreAt
    <3>2. CASE c \in CellsOn(p)
      <4>1. SlotAt(c) \in Slots /\ CellOf(SlotAt(c), p) = c /\ o[c] = w[SlotAt(c)]
            /\ r[SlotAt(c)] = n[c]
        BY <1>0, <3>2, SlotOfCell, StoreAt, LoadAt
      <4>2. SlotAt(c) = f <=> c = new
        BY <2>2, <2>4, <4>1, SlotOfCell
      <4> QED
        BY <1>1, <2>1, <4>1, <4>2 DEF Array
    <3> QED
      BY <3>1, <3>2
  <2>6. o \in Memory
    BY <1>0, <1>1, <2>3, StoreType
  <2>7. new[1] = Stash
    OBVIOUS
  <2> HIDE DEF new
  <2>8. FullCells(o) = FullCells(n) \cup {new}
    BY <1>4, <2>2, <2>4, <2>5 DEF FullCells
  <2>9. new \notin FullCells(n) /\ o[new] = b /\ \A c \in FullCells(n) : o[c] = n[c]
    BY <2>2, <2>4, <2>5 DEF FullCells
  <2>10. Good(o)
    <3>1. Distinct(o)
      BY <1>0, <1>4, <2>8, <2>9 DEF Good, Distinct
    <3>2. OnPaths(o)
      BY <2>7, <2>8, <2>9 DEF Good, OnPaths
    <3> QED
      BY <2>6, <3>1, <3>2 DEF Good
  <2>11. Placed(b, Stash) = [key |-> k, pos |-> q, value |-> v, at |-> Path!Stash]
    BY <1>4, SameTree DEF Placed
  <2>12. BlocksIn(o) = BlocksIn(n) \cup {Placed(b, Stash)}
    BY <2>7, <2>8, <2>9 DEF BlocksIn
  <2> QED
    BY <1>3, <1>6, <2>3, <2>10, <2>11, <2>12 DEF Path!Stored
<1> QED
  BY <1>5, <1>6

-------------------------------------------------------------------------------
(* The evictions of an operation. *)

LEMMA CounterStays ==
  ASSUME NEW c \in Positions
  PROVE  NextCounter(c) \in Positions
<1>1. c + 1 \in Int /\ MaxN \in Int /\ MaxN > 0
  BY HeapAssumption DEF Positions
<1>2. (c + 1) % MaxN \in Int /\ 0 <= (c + 1) % MaxN /\ (c + 1) % MaxN < MaxN
  BY <1>1, DivMod
<1> QED
  BY <1>1, <1>2 DEF NextCounter, Positions

(* The common part of all operations: from the memory m in which the key's     *)
(* block was replaced, the three evictions only let blocks sink.               *)
LEMMA AccessSinks ==
  ASSUME stash \in StashType, tree \in TreeType, evict_counter \in Positions,
         NEW k, NEW p \in Positions, NEW block,
         NEW full \in Array, full = Stored(Load(Mem(stash, tree), p), k, block),
         NEW m, m = Store(Mem(stash, tree), full, p), Good(m),
         Access(k, p, block)
  PROVE  /\ stash' \in StashType /\ tree' \in TreeType /\ evict_counter' \in Positions
         /\ Good(Mem(stash', tree'))
         /\ Path!Evict(BlocksIn(m))
<1>1. Stored(read_path(stash, tree, p), k, block) = full
  BY ReadIs
<1>2. PICK st1 \in Evicted(full, p, tree) :
        \E st2 \in perform_eviction(st1, evict_counter) :
        \E st3 \in perform_eviction(st2, NextCounter(evict_counter)) :
          /\ stash' = st3.stash
          /\ tree' = st3.tree
          /\ evict_counter' = NextCounter(NextCounter(evict_counter))
  BY <1>1 DEF Access
<1>3. PICK st2 \in perform_eviction(st1, evict_counter) :
        \E st3 \in perform_eviction(st2, NextCounter(evict_counter)) :
          /\ stash' = st3.stash
          /\ tree' = st3.tree
          /\ evict_counter' = NextCounter(NextCounter(evict_counter))
  BY <1>2
<1>4. PICK st3 \in perform_eviction(st2, NextCounter(evict_counter)) :
          /\ stash' = st3.stash
          /\ tree' = st3.tree
          /\ evict_counter' = NextCounter(NextCounter(evict_counter))
  BY <1>3
<1>5. /\ NextCounter(evict_counter) \in Positions
      /\ NextCounter(NextCounter(evict_counter)) \in Positions
  BY CounterStays
<1> DEFINE m1 == Mem(st1.stash, st1.tree)
           m2 == Mem(st2.stash, st2.tree)
           m3 == Mem(st3.stash, st3.tree)
<1>6. /\ st1 = [stash |-> st1.stash, tree |-> st1.tree]
      /\ st1.stash \in StashType /\ st1.tree \in TreeType /\ Good(m1) /\ Sinks(m, m1)
  BY EvictedIs
<1>7. /\ st2 = [stash |-> st2.stash, tree |-> st2.tree]
      /\ st2.stash \in StashType /\ st2.tree \in TreeType /\ Good(m2) /\ Sinks(m1, m2)
  <2>1. st2 \in perform_eviction([stash |-> st1.stash, tree |-> st1.tree], evict_counter)
    BY <1>3, <1>6
  <2> QED
    BY <1>6, <2>1, PerformedIs
<1>8. st3.stash \in StashType /\ st3.tree \in TreeType /\ Good(m3) /\ Sinks(m2, m3)
  <2> DEFINE c == NextCounter(evict_counter)
  <2>1. st3 \in perform_eviction([stash |-> st2.stash, tree |-> st2.tree], c) /\ c \in Positions
    BY <1>4, <1>5, <1>7
  <2> HIDE DEF c
  <2> QED
    BY <1>7, <2>1, PerformedIs
<1> HIDE DEF m1, m2, m3
<1>9. Sinks(m, m3)
  BY <1>6, <1>7, <1>8, SinksTwice DEF Good
<1>10. /\ stash' \in StashType /\ tree' \in TreeType /\ evict_counter' \in Positions
       /\ Mem(stash', tree') = m3
  BY <1>4, <1>5, <1>8 DEF m3
<1>11. Blocks' = BlocksIn(m3)
  BY <1>10, BlocksAre
<1>12. Path!Evict(BlocksIn(m))
  BY <1>8, <1>9, <1>11, SinksIsEvict
<1> QED
  BY <1>8, <1>10, <1>12

-------------------------------------------------------------------------------
(* The operations. *)

SlotsTyped == /\ stash \in StashType /\ tree \in TreeType
              /\ evict_counter \in Positions

(* Every operation starts and ends with slots that hold each key once; the     *)
(* path invariant comes from PathOram.                                         *)
SlotInv == SlotsTyped /\ Good(Mem(stash, tree))
IInv == SlotInv /\ Path!IInv

LEMMA PositionsOfKey ==
  ASSUME IInv, NEW k \in Key, NEW pos \in At(k)
  PROVE  pos \in Positions /\ pos \in Path!At(k)
<1>1. pmap \in UNION {[D -> Positions] : D \in SUBSET Key}
  BY SameTree DEF IInv, Path!IInv, Path!TypeOK
<1>2. PICK D \in SUBSET Key : pmap \in [D -> Positions]
  BY <1>1
<1> QED
  BY <1>2, SameTree DEF At

(* An operation that stores nothing back. *)
LEMMA AccessDrops ==
  ASSUME IInv, NEW k \in Key, NEW pos \in At(k), Access(k, pos, Empty)
  PROVE  SlotInv' /\ Path!Evict(Blocks \ Path!Matching(k, pos))
<1> DEFINE m == Mem(stash, tree)
           r == Removed(Load(m, pos), k)
           n == Store(m, r, pos)
<1>1. SlotsTyped /\ Good(m) /\ pos \in Positions
  BY PositionsOfKey DEF IInv, SlotInv
<1>2. Blocks = BlocksIn(m)
  BY <1>1, BlocksAre DEF SlotsTyped
<1> HIDE DEF m
<1>3. r \in Array /\ Good(n) /\ BlocksIn(n) = Blocks \ Path!Matching(k, pos)
  BY <1>1, <1>2, RemovedIs, RemovedBlocks, MatchingIs
<1>4. Stored(Load(m, pos), k, Empty) = r
  BY <1>3, NothingStored DEF Stored
<1> HIDE DEF r, n
<1>5. /\ stash' \in StashType /\ tree' \in TreeType /\ evict_counter' \in Positions
      /\ Good(Mem(stash', tree'))
      /\ Path!Evict(BlocksIn(n))
  BY <1>1, <1>3, <1>4, AccessSinks DEF SlotsTyped, m, n
<1> QED
  BY <1>3, <1>5 DEF SlotInv, SlotsTyped

(* An operation that stores a block for the key back. *)
LEMMA AccessStores ==
  ASSUME IInv, NEW k \in Key, NEW pos \in At(k), NEW q \in Positions, NEW v \in Value,
         Access(k, pos, Full(k, q, v))
  PROVE  SlotInv' /\ Path!Evict(Path!Stored(Blocks \ Path!Matching(k, pos), k, q, v))
<1> DEFINE m == Mem(stash, tree)
           r == Removed(Load(m, pos), k)
           n == Store(m, r, pos)
           w == write_block_to_empty_slot(r, Full(k, q, v))
           o == Store(n, w, pos)
<1>1. SlotsTyped /\ Good(m) /\ pos \in Positions
  BY PositionsOfKey DEF IInv, SlotInv
<1>2. Blocks = BlocksIn(m)
  BY <1>1, BlocksAre DEF SlotsTyped
<1> HIDE DEF m
<1>3. /\ r \in Array /\ Good(n) /\ Load(n, pos) = r
      /\ BlocksIn(n) = Blocks \ Path!Matching(k, pos)
  BY <1>1, <1>2, RemovedIs, RemovedBlocks, MatchingIs
<1>4. Path!Matching(k, pos) = {b \in Blocks : b.key = k}
  BY PositionsOfKey, PathConstants, Path!ScanFindsAll DEF IInv, Path!IInv
<1> HIDE DEF n
<1>5. Lacks(n, k)
  <2> SUFFICES ASSUME NEW c \in FullCells(n), n[c].key = k PROVE FALSE
    BY DEF Lacks
  <2>1. Placed(n[c], c[1]) \in BlocksIn(n) /\ Placed(n[c], c[1]).key = k
    BY PlacedFields DEF BlocksIn
  <2> QED
    BY <1>3, <1>4, <2>1
<1> HIDE DEF r
<1>6. w \in Array /\ Good(o) /\ BlocksIn(o) = Path!Stored(BlocksIn(n), k, q, v)
  <2>1. StoredRight(n, pos, k, q, v)
    BY <1>1, <1>3, <1>5, InsertedIs
  <2> QED
    BY <1>3, <2>1 DEF StoredRight
<1>7. o = Store(m, w, pos)
  BY StoreStore DEF n
<1>8. Stored(Load(m, pos), k, Full(k, q, v)) = w
  BY DEF Stored, r
<1> HIDE DEF w, o
<1>9. /\ stash' \in StashType /\ tree' \in TreeType /\ evict_counter' \in Positions
      /\ Good(Mem(stash', tree'))
      /\ Path!Evict(BlocksIn(o))
  BY <1>1, <1>6, <1>7, <1>8, AccessSinks DEF SlotsTyped, m
<1> QED
  BY <1>3, <1>6, <1>9 DEF SlotInv, SlotsTyped

LEMMA OperationsImplement ==
  ASSUME IInv, NEW k \in Key, NEW pos \in At(k)
  PROVE  /\ Take(k, pos) => SlotInv' /\ Path!Take(k, pos)
         /\ Delete(k, pos) => SlotInv' /\ Path!Delete(k, pos)
         /\ \A q \in Positions :
              /\ Read(k, pos, q) => SlotInv' /\ Path!Read(k, pos, q)
              /\ \A v \in Value :
                   /\ Write(k, pos, q, v) => SlotInv' /\ Path!Write(k, pos, q, v)
                   /\ WriteOrInsert(k, pos, q, v) => SlotInv' /\ Path!WriteOrInsert(k, pos, q, v)
                   /\ Update(k, pos, q, v) => SlotInv' /\ Path!Update(k, pos, q, v)
<1> DEFINE hit == Path!Matching(k, pos)
<1>1. pos \in Positions /\ SlotsTyped /\ Good(Mem(stash, tree))
  BY PositionsOfKey DEF IInv, SlotInv
<1>2. /\ (Found(k, pos) # {}) = (hit # {})
      /\ \A b \in Found(k, pos) : b.value \in Value /\ \E h \in hit : h.value = b.value
  BY <1>1, FoundIs DEF SlotsTyped
<1> HIDE DEF hit
<1>3. Access(k, pos, Empty) => SlotInv' /\ Path!Evict(Blocks \ hit)
  BY AccessDrops DEF hit
<1>4. ASSUME NEW q \in Positions, NEW v \in Value, Access(k, pos, Full(k, q, v))
      PROVE  SlotInv' /\ Path!Evict(Path!Stored(Blocks \ hit, k, q, v))
  BY <1>4, AccessStores DEF hit
<1>5. hit = {} => Blocks \ hit = Blocks
  OBVIOUS
<1>6. ASSUME Take(k, pos) PROVE SlotInv' /\ Path!Take(k, pos)
  <2>1. Access(k, pos, Empty) /\ pmap' = Without(pmap, k)
    BY <1>6 DEF Take
  <2>2. \/ hit = {} /\ ret' = Answer("take", k, FALSE, NoValue)
        \/ \E b \in hit : ret' = Answer("take", k, TRUE, b.value)
    <3>1. CASE Found(k, pos) = {}
      BY <1>2, <1>6, <3>1 DEF Take
    <3>2. CASE Found(k, pos) # {}
      <4>1. PICK b \in Found(k, pos) : ret' = Answer("take", k, TRUE, b.value)
        BY <1>6, <3>2 DEF Take
      <4>2. PICK h \in hit : h.value = b.value
        BY <1>2
      <4> QED
        BY <4>1, <4>2
    <3> QED
      BY <3>1, <3>2
  <2> QED
    BY <1>3, <2>1, <2>2, SameMaps DEF Path!Take, hit
<1>7. ASSUME Delete(k, pos) PROVE SlotInv' /\ Path!Delete(k, pos)
  <2>1. /\ Access(k, pos, Empty) /\ pmap' = Without(pmap, k)
        /\ ret' = Answer("delete", k, hit # {}, NoValue)
    BY <1>2, <1>7 DEF Delete
  <2> QED
    BY <1>3, <2>1, SameMaps DEF Path!Delete, hit
<1>8. ASSUME NEW q \in Positions, Read(k, pos, q)
      PROVE  SlotInv' /\ Path!Read(k, pos, q)
  <2>1. CASE Found(k, pos) = {}
    <3>1. /\ Access(k, pos, Empty) /\ ret' = Answer("read", k, FALSE, NoValue)
          /\ UNCHANGED pmap
      BY <1>8, <2>1 DEF Read
    <3>2. hit = {} /\ Path!Evict(Blocks) /\ SlotInv'
      BY <1>2, <1>3, <1>5, <2>1, <3>1
    <3> QED
      BY <3>1, <3>2, SameMaps DEF Path!Read, hit
  <2>2. CASE Found(k, pos) # {}
    <3>1. PICK b \in Found(k, pos) :
            /\ Access(k, pos, Full(k, q, b.value))
            /\ ret' = Answer("read", k, TRUE, b.value)
            /\ pmap' = With(pmap, k, q)
      BY <1>8, <2>2 DEF Read
    <3>2. PICK h \in hit : h.value = b.value
      BY <1>2
    <3>3. h.value \in Value
      BY <1>2, <3>2
    <3>4. SlotInv' /\ Path!Evict(Path!Stored(Blocks \ hit, k, q, h.value))
      BY <1>4, <3>1, <3>2, <3>3
    <3>5. ret' = Path!Answer("read", k, TRUE, h.value) /\ pmap' = Path!With(pmap, k, q)
      BY <3>1, <3>2, SameMaps
    <3> QED
      BY <3>4, <3>5 DEF Path!Read, hit
  <2> QED
    BY <2>1, <2>2
<1>9. ASSUME NEW q \in Positions, NEW v \in Value, Write(k, pos, q, v)
      PROVE  SlotInv' /\ Path!Write(k, pos, q, v)
  <2>1. ret' = Path!Answer("write", k, hit # {}, NoValue)
    BY <1>2, <1>9, SameMaps DEF Write
  <2>2. CASE Found(k, pos) = {}
    <3>1. Access(k, pos, Empty) /\ UNCHANGED pmap
      BY <1>9, <2>2 DEF Write
    <3>2. hit = {} /\ Path!Evict(Blocks) /\ SlotInv'
      BY <1>2, <1>3, <1>5, <2>2, <3>1
    <3> QED
      BY <2>1, <3>1, <3>2 DEF Path!Write, hit
  <2>3. CASE Found(k, pos) # {}
    <3>1. Access(k, pos, Full(k, q, v)) /\ pmap' = Path!With(pmap, k, q)
      BY <1>9, <2>3, SameMaps DEF Write
    <3>2. hit # {} /\ SlotInv' /\ Path!Evict(Path!Stored(Blocks \ hit, k, q, v))
      BY <1>2, <1>4, <2>3, <3>1
    <3> QED
      BY <2>1, <3>1, <3>2 DEF Path!Write, hit
  <2> QED
    BY <2>2, <2>3
<1>10. ASSUME NEW q \in Positions, NEW v \in Value, WriteOrInsert(k, pos, q, v)
       PROVE  SlotInv' /\ Path!WriteOrInsert(k, pos, q, v)
  <2>1. /\ Access(k, pos, Full(k, q, v)) /\ pmap' = Path!With(pmap, k, q)
        /\ ret' = Path!Answer("write_or_insert", k, hit # {}, NoValue)
    BY <1>2, <1>10, SameMaps DEF WriteOrInsert
  <2> QED
    BY <1>4, <2>1 DEF Path!WriteOrInsert, hit
<1>11. ASSUME NEW q \in Positions, NEW v \in Value, Update(k, pos, q, v)
       PROVE  SlotInv' /\ Path!Update(k, pos, q, v)
  <2>1. Access(k, pos, Full(k, q, v)) /\ pmap' = Path!With(pmap, k, q)
    BY <1>11, SameMaps DEF Update
  <2>2. \/ hit = {} /\ ret' = Path!Answer("update", k, FALSE, Default)
        \/ \E b \in hit : ret' = Path!Answer("update", k, TRUE, b.value)
    <3>1. CASE Found(k, pos) = {}
      BY <1>2, <1>11, <3>1, SameMaps DEF Update
    <3>2. CASE Found(k, pos) # {}
      <4>1. PICK b \in Found(k, pos) : ret' = Answer("update", k, TRUE, b.value)
        BY <1>11, <3>2 DEF Update
      <4>2. PICK h \in hit : h.value = b.value
        BY <1>2
      <4> QED
        BY <4>1, <4>2, SameMaps
    <3> QED
      BY <3>1, <3>2
  <2> QED
    BY <1>4, <2>1, <2>2 DEF Path!Update, hit
<1> QED
  BY <1>6, <1>7, <1>8, <1>9, <1>10, <1>11

(* A step of the slots is a step of the path ORAM. *)
LEMMA NextImplements ==
  ASSUME IInv, Next
  PROVE  IInv' /\ Path!Next
<1> DEFINE Step(k, pos) ==
             \/ Take(k, pos)
             \/ Delete(k, pos)
             \/ \E q \in Positions :
                  \/ Read(k, pos, q)
                  \/ \E v \in Value : \/ Write(k, pos, q, v)
                                      \/ WriteOrInsert(k, pos, q, v)
                                      \/ Update(k, pos, q, v)
<1>0. PICK k \in Key : \E pos \in At(k) : Step(k, pos)
  BY DEF Next
<1>1. PICK pos \in At(k) : Step(k, pos)
  BY <1>0
<1>2. pos \in Path!At(k)
  BY PositionsOfKey
<1>3. SlotInv' /\ \/ Path!Take(k, pos)
                  \/ Path!Delete(k, pos)
                  \/ \E q \in Positions :
                       \/ Path!Read(k, pos, q)
                       \/ \E v \in Value : \/ Path!Write(k, pos, q, v)
                                           \/ Path!WriteOrInsert(k, pos, q, v)
                                           \/ Path!Update(k, pos, q, v)
  BY <1>1, OperationsImplement
<1>4. Path!Next
  BY <1>2, <1>3, SameTree DEF Path!Next
<1>5. Path!IInv'
  BY <1>4, PathConstants, Path!NextStep DEF IInv
<1> QED
  BY <1>3, <1>4, <1>5 DEF IInv

LEMMA InitImplements == Init => IInv /\ Path!Init
<1> SUFFICES ASSUME Init PROVE IInv /\ Path!Init
  OBVIOUS
<1> DEFINE m == Mem(stash, tree)
<1>1. stash = [s \in 0 .. S - 1 |-> Empty] /\ tree = [n \in Nodes |-> [z \in 0 .. Z - 1 |-> Empty]]
  BY DEF Init
<1>2. stash \in StashType /\ tree \in TreeType
  BY <1>1 DEF StashType, TreeType, Content
<1>3. evict_counter \in Positions
  BY HeapAssumption DEF Init, Positions
<1>4. m \in Memory
  BY <1>2, MemType
<1>5. FullCells(m) = {}
  <2>1. ASSUME NEW c \in Cells PROVE m[c] = Empty
    BY <1>1, CellShape DEF Mem
  <2> QED
    BY <2>1, EmptyBlock DEF FullCells
<1>6. Blocks = {}
  BY <1>2, <1>5, BlocksAre DEF BlocksIn
<1> HIDE DEF m
<1>7. Good(m)
  BY <1>4, <1>5 DEF Good, Distinct, OnPaths
<1>8. Path!Init
  BY <1>6, SameMaps DEF Init, Path!Init
<1>9. Path!IInv
  BY <1>8, PathConstants, Path!InitEstablishes
<1> QED
  BY <1>2, <1>3, <1>7, <1>8, <1>9 DEF IInv, SlotInv, SlotsTyped, m

LEMMA StutterImplements ==
  ASSUME IInv, UNCHANGED vars
  PROVE  IInv' /\ UNCHANGED Path!vars
<1>1. SlotInv'
  BY DEF IInv, SlotInv, SlotsTyped, vars
<1>2. Blocks' = Blocks
  BY DEF Blocks, StashSlots, TreeSlots, vars
<1>3. UNCHANGED Path!vars
  BY <1>2 DEF Path!vars, vars
<1>4. Path!IInv'
  BY <1>3, PathConstants, Path!StutterStep DEF IInv
<1> QED
  BY <1>1, <1>3, <1>4 DEF IInv

LEMMA Invariance == Spec => []IInv
<1>1. Init => IInv
  BY InitImplements
<1>2. IInv /\ [Next]_vars => IInv'
  BY NextImplements, StutterImplements
<1> QED
  BY <1>1, <1>2, PTL DEF Spec

(* The slot arrays, the scans and the three-pass eviction implement the path   *)
(* ORAM: an operation replaces or drops the block of its key and lets every    *)
(* other sink on its own path, without losing, copying or altering one.        *)
THEOREM SlotsImplementPathOram == Spec => Path!Spec
<1>1. Init => Path!Init
  BY InitImplements
<1>2. IInv /\ [Next]_vars => [Path!Next]_(Path!vars)
  BY NextImplements, StutterImplements
<1> QED
  BY <1>1, <1>2, Invariance, PTL DEF Spec, Path!Spec

LEMMA SlotsCounted ==
  ASSUME SlotInv
  PROVE  Cardinality(StashSlots) + Cardinality(TreeSlots) = Cardinality(Blocks)
<1> DEFINE m == Mem(stash, tree)
           h == [c \in FullCells(m) |-> Placed(m[c], c[1])]
<1>1. stash \in StashType /\ tree \in TreeType /\ Distinct(m) /\ Blocks = BlocksIn(m)
  BY BlocksAre DEF SlotInv, SlotsTyped, Good
<1>2. /\ IsFiniteSet(FullCells(m))
      /\ Cardinality(FullCells(m)) = Cardinality(StashSlots) + Cardinality(TreeSlots)
  <2>1. StashSlots = UsedSlots(stash) /\ TreeSlots = UsedPlaces(tree)
    BY DEF StashSlots, TreeSlots, UsedSlots, UsedPlaces
  <2> QED
    BY <2>1, CellsCounted
<1> HIDE DEF m
<1>3. Cardinality(BlocksIn(m)) = Cardinality(FullCells(m))
  <2>1. h \in Surjection(FullCells(m), BlocksIn(m))
    BY DEF Surjection, BlocksIn
  <2>2. \A c, d \in FullCells(m) : h[c] = h[d] => c = d
    BY <1>1, CellOfBlock
  <2>3. h \in Bijection(FullCells(m), BlocksIn(m))
    BY <2>1, <2>2 DEF Bijection, Injection, Surjection, IsInjective
  <2> HIDE DEF h
  <2> QED
    BY <1>2, <2>3, FS_Bijection DEF ExistsBijection
<1> QED
  BY <1>1, <1>2, <1>3

(* Slots and counter keep their ranges, and no block is ever in two slots.     *)
THEOREM SlotsAreSound == Spec => []SlotsOK
<1>1. IInv => SlotsOK
  <2> SUFFICES ASSUME IInv PROVE SlotsOK
    OBVIOUS
  <2>1. stash \in StashType /\ tree \in TreeType /\ evict_counter \in Positions
    BY DEF IInv, SlotInv, SlotsTyped
  <2>2. Cardinality(StashSlots) + Cardinality(TreeSlots) = Cardinality(Blocks)
    BY SlotsCounted DEF IInv
  <2> QED
    BY <2>1, <2>2 DEF SlotsOK, StashType, TreeType, Content
<1> QED
  BY <1>1, Invariance, PTL

(* So the scans of the real stash and path meet no key twice, which their      *)
(* debug assertions demand.                                                    *)
THEOREM KeysAreUnique == Spec => []Path!OneBlockPerKey
<1>1. Path!Spec => []Path!OneBlockPerKey
  BY PathConstants, Path!KeysAreUnique
<1> QED
  BY <1>1, SlotsImplementPathOram, PTL

(* They find each block the client knows of: it is in the stash or on the path *)
(* of the position the client remembers.                                       *)
THEOREM PathInvariant == Spec => []Path!OnClientPath
<1>1. Path!Spec => []Path!OnClientPath
  BY PathConstants, Path!PathInvariant
<1> QED
  BY <1>1, SlotsImplementPathOram, PTL

(* The real ORAM is a map that can at worst lose the block of the call at hand.*)
THEOREM CircuitOramIsLossyMap == Spec => Path!ImplementsLossyMap
<1>1. Path!Spec => Path!ImplementsLossyMap
  BY PathConstants, Path!OramIsLossyMap
<1> QED
  BY <1>1, SlotsImplementPathOram, PTL

(* It is an exact map as long as every call finds an empty stash slot (Inv1).  *)
THEOREM CircuitOramIsMapUnderInv1 == Spec /\ []Path!Inv1 => Path!ImplementsStrictMap
<1>1. Path!Spec /\ []Path!Inv1 => Path!ImplementsStrictMap
  BY PathConstants, Path!OramIsMapUnderInv1
<1> QED
  BY <1>1, SlotsImplementPathOram, PTL
================================================================================
