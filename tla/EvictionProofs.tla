---------------------------- MODULE EvictionProofs ----------------------------
(* The three passes of an eviction, for every height of the tree and every     *)
(* size of buckets and stash: what the first two plan, and that the third,     *)
(* which carries one block at a time, does what was planned.  Then stash and   *)
(* tree as one memory, on which an eviction, with the way of its path into the *)
(* array and back, only lets blocks sink.                                      *)
EXTENDS OramSlots, FiniteSetTheorems, WellFoundedInduction, TLAPS

Array == [Slots -> Block \cup {Empty}]

-------------------------------------------------------------------------------
(* Least and greatest numbers. *)

LEMMA LeastNatural ==
  ASSUME NEW T \in SUBSET Nat, T # {}
  PROVE  \E m \in T : \A x \in T : m <= x
<1> DEFINE R == OpToRel(<, Nat)
<1>1. \E m \in T : \A k \in T : <<k, m>> \notin R
  BY NatLessThanWellFounded, WFMin
<1>2. \A k, m \in Nat : k < m => <<k, m>> \in R
  BY DEF OpToRel
<1> HIDE DEF R
<1>3. PICK m \in T : \A k \in T : <<k, m>> \notin R
  BY <1>1
<1>4. \A k \in T : ~ (k < m)
  BY <1>2, <1>3
<1>5. \A k \in T : m <= k
  BY <1>4
<1> QED
  BY <1>5

LEMMA FirstIs ==
  ASSUME NEW T \in SUBSET Nat, T # {}
  PROVE  First(T) \in T
BY LeastNatural DEF First

LEMMA MaxIs ==
  ASSUME NEW T \in SUBSET Int, T # {}, NEW u \in Int, \A x \in T : x <= u
  PROVE  Max(T) \in T /\ \A x \in T : x <= Max(T)
<1> DEFINE D == {u - x : x \in T}
<1>1. D \subseteq Nat /\ D # {}
  <2>1. \A x \in T : u - x \in Nat
    OBVIOUS
  <2> QED
    BY <2>1
<1>2. PICK m \in D : \A x \in D : m <= x
  BY <1>1, LeastNatural
<1>3. PICK y \in T : m = u - y
  BY <1>2
<1>4. \A x \in T : x <= y
  <2> SUFFICES ASSUME NEW x \in T PROVE x <= y
    OBVIOUS
  <2>1. u - y <= u - x
    BY <1>2, <1>3
  <2> QED
    BY <2>1
<1> QED
  BY <1>4 DEF Max

-------------------------------------------------------------------------------
(* Induction over the levels, from the leaf up and from the root down. *)
LEMMA Upwards ==
  ASSUME NEW n \in Nat, NEW P, n \in P, \A i \in 1 .. n - 1 : i + 1 \in P => i \in P
  PROVE  1 .. n \subseteq P
<1> DEFINE Bad == {k \in Nat : k < n /\ n - k \notin P}
<1>1. CASE Bad = {}
  <2> SUFFICES ASSUME NEW i \in 1 .. n PROVE i \in P
    OBVIOUS
  <2>1. n - i \in Nat /\ n - i < n /\ n - (n - i) = i
    OBVIOUS
  <2>2. n - i \notin Bad
    BY <1>1
  <2> QED
    BY <2>1, <2>2
<1>2. CASE Bad # {}
  <2>1. PICK k \in Bad : \A j \in Bad : k <= j
    BY <1>2, LeastNatural
  <2>2. k # 0 /\ k \in Nat /\ k < n /\ n - k \notin P
    BY <2>1
  <2>3. k - 1 \notin Bad
    BY <2>1, <2>2
  <2>4. n - (k - 1) \in P /\ n - (k - 1) = (n - k) + 1
    BY <2>2, <2>3
  <2>5. n - k \in 1 .. n - 1
    BY <2>2
  <2> QED
    BY <2>2, <2>4, <2>5
<1> QED
  BY <1>1, <1>2

LEMMA Downwards ==
  ASSUME NEW n \in Nat, NEW P, 0 \in P, \A i \in 1 .. n : i - 1 \in P => i \in P
  PROVE  0 .. n \subseteq P
<1> DEFINE Bad == {k \in 0 .. n : k \notin P}
<1>1. CASE Bad = {}
  BY <1>1
<1>2. CASE Bad # {}
  <2>1. PICK k \in Bad : \A j \in Bad : k <= j
    <3>1. Bad \in SUBSET Nat
      OBVIOUS
    <3> QED
      BY <1>2, <3>1, LeastNatural
  <2>2. k \in 1 .. n /\ k - 1 \notin Bad /\ k \notin P
    BY <2>1
  <2> QED
    BY <2>2
<1> QED
  BY <1>1, <1>2

(* The recursive function of the powers exists, so it satisfies its equation. *)
LEMMA PowersAre ==
  /\ Pow2[0] = 1
  /\ \A d \in 1 .. H : Pow2[d] = 2 * Pow2[d - 1]
  /\ \A d \in 0 .. H : Pow2[d] \in Nat /\ Pow2[d] > 0
<1> DEFINE To(k, f) == f = [d \in 0 .. k |-> IF d = 0 THEN 1 ELSE 2 * f[d - 1]]
           P == {k \in 0 .. H : \E f : To(k, f)}
           Q == {d \in 0 .. H : Pow2[d] \in Nat /\ Pow2[d] > 0}
<1>1. H \in Nat
  BY HeapAssumption
<1>2. 0 \in P
  <2> DEFINE f == [d \in 0 .. 0 |-> 1]
  <2>1. To(0, f)
    OBVIOUS
  <2> HIDE DEF To, f
  <2> QED
    BY <1>1, <2>1
<1>3. ASSUME NEW k \in 1 .. H, k - 1 \in P
      PROVE  k \in P
  <2>1. PICK f : To(k - 1, f)
    BY <1>3
  <2> DEFINE g == [d \in 0 .. k |-> IF d = k THEN 2 * f[k - 1] ELSE f[d]]
  <2>2. ASSUME NEW d \in 0 .. k
        PROVE  g[d] = IF d = 0 THEN 1 ELSE 2 * g[d - 1]
    <3>1. CASE d = k
      <4>1. g[d - 1] = f[k - 1] /\ d # 0
        BY <1>1, <3>1
      <4> QED
        BY <3>1, <4>1
    <3>2. CASE d # k
      <4>1. d \in 0 .. k - 1 /\ g[d] = f[d]
        BY <1>1, <3>2
      <4>2. f[d] = IF d = 0 THEN 1 ELSE 2 * f[d - 1]
        BY <2>1, <4>1
      <4>3. d # 0 => g[d - 1] = f[d - 1]
        BY <1>1, <4>1
      <4> QED
        BY <4>1, <4>2, <4>3
    <3> QED
      BY <3>1, <3>2
  <2>3. To(k, g)
    BY <2>2
  <2> HIDE DEF To, g
  <2> QED
    BY <1>1, <2>3
<1>4. H \in P
  <2> HIDE DEF P
  <2>1. 0 .. H \subseteq P
    BY <1>1, <1>2, <1>3, Downwards
  <2> QED
    BY <1>1, <2>1
<1>5. \E f : f = [d \in 0 .. H |-> IF d = 0 THEN 1 ELSE 2 * f[d - 1]]
  BY <1>4
<1>6. Pow2 = [d \in 0 .. H |-> IF d = 0 THEN 1 ELSE 2 * Pow2[d - 1]]
  BY <1>5 DEF Pow2
<1>7. \A d \in 0 .. H : Pow2[d] = IF d = 0 THEN 1 ELSE 2 * Pow2[d - 1]
  BY <1>6, Zenon
<1>8. Pow2[0] = 1 /\ \A d \in 1 .. H : Pow2[d] = 2 * Pow2[d - 1]
  BY <1>1, <1>7
<1>9. 0 \in Q
  BY <1>1, <1>8
<1>10. ASSUME NEW d \in 1 .. H, d - 1 \in Q PROVE d \in Q
  BY <1>1, <1>8, <1>10
<1> HIDE DEF Q
<1>11. 0 .. H \subseteq Q
  BY <1>1, <1>9, <1>10, Downwards
<1> QED
  BY <1>8, <1>11 DEF Q

-------------------------------------------------------------------------------
(* The slots of the levels. *)

LEMMA SlotBounds ==
  ASSUME NEW i \in Levels
  PROVE  /\ i \in Nat /\ H \in Nat /\ Z \in Nat /\ S \in Nat /\ i * Z \in Nat /\ H * Z \in Nat
         /\ i * Z + Z <= H * Z /\ Z > 0 /\ S > 0
<1>1. i \in Nat /\ H \in Nat /\ Z \in Nat /\ S \in Nat /\ i + 1 <= H /\ Z > 0 /\ S > 0
  BY HeapAssumption, EvictionAssumption DEF Levels
<1>2. (i + 1) * Z <= H * Z /\ (i + 1) * Z = i * Z + Z /\ i * Z \in Nat /\ H * Z \in Nat
  BY <1>1
<1> QED
  BY <1>1, <1>2

LEMMA LevelSlots ==
  ASSUME NEW i \in Levels
  PROVE  SlotsOf(i) \subseteq Slots /\ SlotsOf(i) # {} /\ SlotsOf(i) \subseteq Nat
<1>1. /\ i \in Nat /\ H \in Nat /\ Z \in Nat /\ S \in Nat /\ i * Z \in Nat /\ H * Z \in Nat
      /\ i * Z + Z <= H * Z /\ Z > 0 /\ S > 0
  BY SlotBounds
<1>2. CASE i = 0
  <2>1. Z <= H * Z
    BY <1>1, <1>2
  <2>2. 0 \in 0 .. S + Z - 1
    BY <1>1
  <2> QED
    BY <1>1, <1>2, <2>1, <2>2 DEF SlotsOf, Slots
<1>3. CASE i # 0
  <2>1. SlotsOf(i) = S + i * Z .. S + i * Z + Z - 1 /\ Slots = 0 .. S + H * Z - 1
    BY <1>3 DEF SlotsOf, Slots
  <2> DEFINE m == i * Z
             n == H * Z
  <2>2. m \in Nat /\ n \in Nat /\ m + Z <= n
    BY <1>1
  <2>3. SlotsOf(i) = S + m .. S + m + Z - 1 /\ Slots = 0 .. S + n - 1
    BY <2>1
  <2> HIDE DEF m, n
  <2>4. S + m \in SlotsOf(i)
    BY <1>1, <2>2, <2>3
  <2>5. \A x \in SlotsOf(i) : x \in Nat /\ x <= S + n - 1
    BY <1>1, <2>2, <2>3
  <2> QED
    BY <1>1, <2>2, <2>3, <2>4, <2>5
<1> QED
  BY <1>2, <1>3

LEMMA LevelsApart ==
  ASSUME NEW i \in Levels, NEW j \in Levels, i < j
  PROVE  \A s \in SlotsOf(i), t \in SlotsOf(j) : s < t
<1>1. i \in Nat /\ j \in Nat /\ Z \in Nat /\ S \in Nat /\ Z > 0
  BY HeapAssumption, EvictionAssumption DEF Levels
<1>2. (i + 1) * Z <= j * Z /\ (i + 1) * Z = i * Z + Z /\ i * Z \in Nat /\ j * Z \in Nat
  BY <1>1
<1>3. SlotsOf(j) = S + j * Z .. S + j * Z + Z - 1
  BY <1>1 DEF SlotsOf
<1>4. \A s \in SlotsOf(i) : s <= S + i * Z + Z - 1 /\ s \in Nat
  BY <1>1, <1>2 DEF SlotsOf
<1> QED
  BY <1>1, <1>2, <1>3, <1>4

LEMMA EverySlotHasLevel ==
  ASSUME NEW s \in Slots
  PROVE  \E i \in Levels : s \in SlotsOf(i)
<1> DEFINE T == {i \in Nat : s < S + i * Z + Z}
<1>1. s \in Nat /\ S \in Nat /\ Z \in Nat /\ H \in Nat /\ Z > 0 /\ H > 1 /\ s < S + H * Z
  <2>1. H * Z \in Nat
    BY HeapAssumption, EvictionAssumption
  <2> QED
    BY <2>1, HeapAssumption, EvictionAssumption DEF Slots
<1>2. H - 1 \in T
  <2>1. (H - 1) * Z + Z = H * Z
    BY <1>1
  <2> QED
    BY <1>1, <2>1
<1>3. PICK i \in T : \A j \in T : i <= j
  BY <1>2, LeastNatural
<1>4. i \in Levels
  BY <1>1, <1>2, <1>3 DEF Levels
<1>5. CASE i = 0
  <2>1. i * Z = 0
    BY <1>1, <1>5
  <2> QED
    BY <1>1, <1>3, <1>4, <1>5, <2>1 DEF SlotsOf
<1>6. CASE i # 0
  <2>1. i - 1 \in Nat /\ i - 1 \notin T
    BY <1>3, <1>6
  <2>2. (i - 1) * Z + Z = i * Z /\ i * Z \in Nat
    BY <1>1, <1>3
  <2>3. s >= S + i * Z /\ s < S + i * Z + Z
    BY <1>1, <1>3, <2>1, <2>2
  <2> QED
    BY <1>1, <1>4, <1>6, <2>2, <2>3 DEF SlotsOf
<1> QED
  BY <1>4, <1>5, <1>6

(* Each slot has one level. *)
LEMMA LevelOfSlot ==
  /\ \A s \in Slots : LevelOf(s) \in Levels /\ s \in SlotsOf(LevelOf(s))
  /\ \A i \in Levels : \A s \in SlotsOf(i) : s \in Slots /\ LevelOf(s) = i
<1>1. ASSUME NEW i \in Levels, NEW j \in Levels, NEW s, s \in SlotsOf(i), s \in SlotsOf(j)
      PROVE  i = j
  <2>1. i \in Int /\ j \in Int /\ s \in Nat
    BY <1>1, LevelSlots DEF Levels
  <2>2. ~ (i < j) /\ ~ (j < i)
    BY <1>1, <2>1, LevelsApart
  <2> QED
    BY <2>1, <2>2
<1>2. \A s \in Slots : LevelOf(s) \in Levels /\ s \in SlotsOf(LevelOf(s))
  BY EverySlotHasLevel DEF LevelOf
<1>3. \A i \in Levels : \A s \in SlotsOf(i) : s \in Slots
  BY LevelSlots
<1> QED
  BY <1>1, <1>2, <1>3

LEMMA EmptyBlock ==
  /\ Empty \notin Block /\ is_empty(Empty)
  /\ \A b \in Block \cup {Empty} : is_empty(b) <=> b = Empty
<1>1. DUMMY_POS \notin Positions
  BY HeapAssumption DEF DUMMY_POS, Positions
<1> QED
  BY <1>1 DEF Block, Empty, is_empty

-------------------------------------------------------------------------------
(* First pass. *)

(* The number of low-order bits, up to those that select the leaf, that two    *)
(* positions share.                                                            *)
Shared(a, b) == {d \in Levels : a % Pow2[d] = b % Pow2[d]}

LEMMA SharedSuffix ==
  ASSUME NEW a \in Positions, NEW b \in Positions
  PROVE  /\ Max(Shared(a, b)) \in Shared(a, b) /\ Max(Shared(a, b)) \in Levels
         /\ \A d \in Shared(a, b) : d <= Max(Shared(a, b))
         /\ a = b => Max(Shared(a, b)) = H - 1
<1>1. 0 \in Shared(a, b)
  <2>1. a % Pow2[0] = b % Pow2[0]
    BY HeapAssumption, PowersAre DEF Positions
  <2> QED
    BY <2>1, HeapAssumption DEF Shared, Levels
<1>2. \A d \in Shared(a, b) : d \in Levels /\ d \in Int /\ d <= H - 1
  BY HeapAssumption DEF Shared, Levels
<1>3. Shared(a, b) \in SUBSET Int /\ H - 1 \in Int
  BY <1>2, HeapAssumption
<1>4. /\ Max(Shared(a, b)) \in Shared(a, b)
      /\ \A d \in Shared(a, b) : d <= Max(Shared(a, b))
  BY <1>1, <1>2, <1>3, MaxIs
<1>5. a = b => H - 1 \in Shared(a, b)
  BY HeapAssumption DEF Shared, Levels
<1> QED
  BY <1>2, <1>4, <1>5, HeapAssumption

(* A block can go as deep as its goal, and an empty one nowhere. *)
LEMMA GoalFacts ==
  ASSUME NEW arr \in Array, NEW p \in Positions, NEW s \in Slots
  PROVE  LET g == Goals(arr, p)[s] IN
         /\ g \in Int /\ g >= -1 /\ g <= 33
         /\ g = -1 <=> is_empty(arr[s])
         /\ ~is_empty(arr[s]) => \A i \in Levels : i <= g <=> i <= Max(Shared(arr[s].pos, p))
<1> DEFINE g == Goals(arr, p)[s]
<1>1. H \in Nat /\ H > 1 /\ H <= 33
  BY HeapAssumption, EvictionAssumption
<1>2. CASE is_empty(arr[s])
  <2>1. g = -1
    BY <1>2 DEF Goals
  <2> QED
    BY <1>2, <2>1
<1>3. CASE ~is_empty(arr[s])
  <2>1. arr[s] \in Block
    BY <1>3, EmptyBlock DEF Array
  <2>2. arr[s].pos \in Positions
    BY <2>1 DEF Block
  <2>3. g = IF arr[s].pos = p THEN 32 ELSE Max(Shared(arr[s].pos, p))
    BY <1>3 DEF Goals, common_suffix_length, Shared
  <2> DEFINE m == Max(Shared(arr[s].pos, p))
  <2>4. m \in 0 .. H - 1 /\ (arr[s].pos = p => m = H - 1)
    BY <2>2, SharedSuffix DEF Levels
  <2> HIDE DEF g, m
  <2>5. g = IF arr[s].pos = p THEN 32 ELSE m
    BY <2>3 DEF m
  <2>6. \A i \in Levels : i <= g <=> i <= m
    BY <1>1, <2>4, <2>5 DEF Levels
  <2>7. g \in Int /\ g >= 0 /\ g <= 33
    BY <1>1, <2>4, <2>5
  <2> QED
    BY <1>3, <2>6, <2>7 DEF g, m
<1> QED
  BY <1>2, <1>3

(* Goals of slots and of levels that can be planned with. *)
SlotGoals == [Slots -> -1 .. 33]
LevelGoal(goal, level) ==
  /\ level \in [Levels -> -1 .. 33]
  /\ \A i \in Levels : /\ \A s \in SlotsOf(i) : goal[s] <= level[i]
                       /\ \E s \in SlotsOf(i) : goal[s] = level[i]

LEMMA LevelGoalFacts ==
  ASSUME NEW goal \in SlotGoals
  PROVE  LevelGoal(goal, LevelGoals(goal))
<1>1. ASSUME NEW i \in Levels
      PROVE  LET m == Max({goal[s] : s \in SlotsOf(i)}) IN
             /\ m \in -1 .. 33
             /\ \A s \in SlotsOf(i) : goal[s] <= m
             /\ \E s \in SlotsOf(i) : goal[s] = m
  <2> DEFINE T == {goal[s] : s \in SlotsOf(i)}
  <2>1. \A s \in SlotsOf(i) : goal[s] \in -1 .. 33
    BY LevelSlots DEF SlotGoals
  <2>2. T \in SUBSET Int /\ T # {} /\ \A x \in T : x <= 33
    BY <2>1, LevelSlots
  <2> HIDE DEF T
  <2>3. Max(T) \in T /\ \A x \in T : x <= Max(T)
    <3>1. 33 \in Int
      OBVIOUS
    <3> QED
      BY <2>2, <3>1, MaxIs
  <2>4. PICK s \in SlotsOf(i) : goal[s] = Max(T)
    BY <2>3 DEF T
  <2>5. \A t \in SlotsOf(i) : goal[t] <= Max(T)
    BY <2>3 DEF T
  <2> QED
    BY <2>1, <2>4, <2>5 DEF T
<1>2. LevelGoals(goal) = [i \in Levels |-> Max({goal[s] : s \in SlotsOf(i)})]
  BY DEF LevelGoals
<1> QED
  BY <1>1, <1>2 DEF LevelGoal

LEMMA IdxFacts ==
  ASSUME NEW goal \in SlotGoals, NEW level, LevelGoal(goal, level),
         NEW i \in Levels, level[i] # -1
  PROVE  LET s == DeepestIdx(goal, level)[i] IN s \in SlotsOf(i) /\ goal[s] = level[i]
<1> DEFINE T == {s \in SlotsOf(i) : goal[s] = level[i]}
<1>1. DeepestIdx(goal, level)[i] = First(T)
  BY DEF DeepestIdx
<1>2. T # {} /\ T \in SUBSET Nat
  BY LevelSlots DEF LevelGoal
<1>3. First(T) \in T
  BY <1>2, FirstIs
<1> QED
  BY <1>1, <1>3

(* deepest[i] is a level above i with a block that can go to i, if any has.    *)
LEMMA DeepestFacts ==
  ASSUME NEW level \in [Levels -> -1 .. 33], NEW i \in 1 .. H - 1
  PROVE  LET d == Deepest(level)[i] IN
         \/ d = -1 /\ \A j \in 0 .. i - 1 : level[j] < i
         \/ d \in 0 .. i - 1 /\ level[d] >= i
<1> DEFINE T == {level[j] : j \in 0 .. i - 1}
           m == DeepestAbove(i, level)
           d == Deepest(level)[i]
<1>1. \A j \in 0 .. i - 1 : j \in Levels /\ level[j] \in -1 .. 33
  BY HeapAssumption DEF Levels
<1>2. T \in SUBSET Int /\ T # {} /\ \A x \in T : x <= 33
  <2>1. 0 \in 0 .. i - 1
    OBVIOUS
  <2> QED
    BY <1>1, <2>1
<1>3. m = Max(T)
  BY DEF DeepestAbove
<1> HIDE DEF T, m
<1>4. m \in T /\ \A x \in T : x <= m
  <2>1. 33 \in Int
    OBVIOUS
  <2> QED
    BY <1>2, <1>3, <2>1, MaxIs
<1>5. m \in Int /\ \A j \in 0 .. i - 1 : level[j] <= m
  BY <1>2, <1>4 DEF T
<1>6. d = IF m < i THEN -1 ELSE First({j \in 0 .. i - 1 : level[j] = m})
  BY DEF Deepest, m
<1> HIDE DEF d
<1>7. CASE m < i
  BY <1>1, <1>5, <1>6, <1>7 DEF d
<1>8. CASE ~ (m < i)
  <2> DEFINE J == {j \in 0 .. i - 1 : level[j] = m}
  <2>1. J # {} /\ J \in SUBSET Nat
    BY <1>4 DEF T
  <2> HIDE DEF J
  <2>2. First(J) \in J
    BY <2>1, FirstIs
  <2>3. d \in 0 .. i - 1 /\ level[d] = m
    BY <1>6, <1>8, <2>2 DEF J
  <2> QED
    BY <1>5, <1>8, <2>3 DEF d
<1> QED
  BY <1>7, <1>8

-------------------------------------------------------------------------------
(* Second pass. *)

(* The recursive function of the scan exists, so it satisfies its equation.    *)
LEMMA ScanUnfolds ==
  ASSUME NEW deepest, NEW room
  PROVE  LET scan == Scan(deepest, room) IN
         /\ scan[H] = Closed
         /\ \A i \in 1 .. H - 1 : scan[i] = TargetStep(i, scan[i + 1], deepest, room)
<1> DEFINE From(k, f) == f = [i \in k .. H |-> IF i = H THEN Closed
                                              ELSE TargetStep(i, f[i + 1], deepest, room)]
           P == {k \in 1 .. H : \E f : From(k, f)}
<1>1. H \in Nat /\ H > 1
  BY HeapAssumption
<1>2. H \in P
  <2> DEFINE f == [i \in H .. H |-> Closed]
  <2>1. From(H, f)
    BY <1>1
  <2> HIDE DEF From, f
  <2> QED
    BY <1>1, <2>1
<1>3. ASSUME NEW k \in 1 .. H - 1, k + 1 \in P
      PROVE  k \in P
  <2>1. PICK f : From(k + 1, f)
    BY <1>3
  <2> DEFINE g == [i \in k .. H |-> IF i = k THEN TargetStep(k, f[k + 1], deepest, room)
                                   ELSE f[i]]
  <2>2. ASSUME NEW i \in k .. H
        PROVE  g[i] = IF i = H THEN Closed ELSE TargetStep(i, g[i + 1], deepest, room)
    <3>1. CASE i = k
      <4>1. g[i + 1] = f[k + 1] /\ i # H
        BY <1>1, <3>1
      <4> QED
        BY <3>1, <4>1
    <3>2. CASE i # k
      <4>1. i \in k + 1 .. H /\ g[i] = f[i]
        BY <1>1, <3>2
      <4>2. f[i] = IF i = H THEN Closed ELSE TargetStep(i, f[i + 1], deepest, room)
        BY <2>1, <4>1
      <4>3. i # H => g[i + 1] = f[i + 1]
        BY <1>1, <4>1
      <4> QED
        BY <4>1, <4>2, <4>3
    <3> QED
      BY <3>1, <3>2
  <2>3. From(k, g)
    BY <2>2
  <2> HIDE DEF From, g
  <2> QED
    BY <1>1, <2>3
<1>4. 1 \in P
  <2> HIDE DEF P
  <2>1. 1 .. H \subseteq P
    BY <1>1, <1>2, <1>3, Upwards
  <2> QED
    BY <1>1, <2>1
<1>5. \E f : f = [i \in 1 .. H |-> IF i = H THEN Closed
                                   ELSE TargetStep(i, f[i + 1], deepest, room)]
  BY <1>4
<1> DEFINE scan == Scan(deepest, room)
<1>6. scan = [i \in 1 .. H |-> IF i = H THEN Closed
                               ELSE TargetStep(i, scan[i + 1], deepest, room)]
  BY <1>5 DEF Scan
<1> HIDE DEF scan
<1>7. \A i \in 1 .. H : scan[i] = IF i = H THEN Closed
                                  ELSE TargetStep(i, scan[i + 1], deepest, room)
  BY <1>6, Zenon
<1>8. scan[H] = Closed /\ \A i \in 1 .. H - 1 : scan[i] = TargetStep(i, scan[i + 1], deepest, room)
  BY <1>1, <1>7
<1> QED
  BY <1>8 DEF scan

(* A planned move takes a block that can go that deep to a level below, which  *)
(* has room for it or sends its own block away; no level in between moves.     *)
Move(j, target, level, room) ==
  /\ target[j] \in j + 1 .. H - 1 /\ level[j] >= target[j]
  /\ \A k \in j + 1 .. target[j] - 1 : target[k] = -1
  /\ target[target[j]] # -1 \/ room[target[j]]

(* A level could take a block if one above can go there and it has room or     *)
(* makes room.                                                                 *)
CouldTake(t, target, level, room) ==
  /\ room[t] \/ target[t] # -1
  /\ \E k \in 0 .. t - 1 : level[k] >= t

(* What the second pass hands over: moves that do not overlap, and past every  *)
(* level that could take a block, or to it, goes one.                          *)
Planned(target, level, room) ==
  /\ target \in [Levels -> -1 .. H - 1] /\ target[H - 1] = -1
  /\ \A j \in Levels : target[j] # -1 => Move(j, target, level, room)
  /\ \A t \in 1 .. H - 1 : CouldTake(t, target, level, room) =>
       \E j \in 0 .. t - 1 : target[j] >= t

(* The move that is open after the levels from i on were scanned. *)
OpenMove(i, st, level, room) ==
  /\ st.src \in 0 .. i - 1 /\ st.dst \in i .. H - 1 /\ level[st.src] >= st.dst
  /\ \A k \in i .. st.dst - 1 : st.target[k] = -1
  /\ st.target[st.dst] # -1 \/ room[st.dst]

ScannedTo(i, st, level, room) ==
  /\ st.target \in [Levels -> -1 .. H - 1] /\ st.target[H - 1] = -1
  /\ \A j \in 0 .. i - 1 : st.target[j] = -1
  /\ \A j \in i .. H - 1 : st.target[j] # -1 => Move(j, st.target, level, room)
  /\ (st.src = -1 /\ st.dst = -1) \/ OpenMove(i, st, level, room)
  /\ \A t \in i .. H - 1 : CouldTake(t, st.target, level, room) =>
       st.dst >= t \/ \E j \in i .. t - 1 : st.target[j] >= t

LEMMA TargetStepKeeps ==
  ASSUME NEW level \in [Levels -> -1 .. 33], NEW room,
         NEW i \in 1 .. H - 1, NEW b, ScannedTo(i + 1, b, level, room)
  PROVE  ScannedTo(i, TargetStep(i, b, Deepest(level), room), level, room)
<1> DEFINE r == TargetStep(i, b, Deepest(level), room)
           d == Deepest(level)[i]
           to == r.target
<1>1. H \in Nat /\ H > 1 /\ Levels = 0 .. H - 1 /\ i \in Levels
  BY HeapAssumption DEF Levels
<1>2. \/ d = -1 /\ \A j \in 0 .. i - 1 : level[j] < i
      \/ d \in 0 .. i - 1 /\ level[d] >= i
  BY DeepestFacts
<1>3. /\ b.target \in [Levels -> -1 .. H - 1] /\ b.target[H - 1] = -1
      /\ \A j \in 0 .. i : b.target[j] = -1
      /\ \A j \in i + 1 .. H - 1 : b.target[j] # -1 => Move(j, b.target, level, room)
      /\ (b.src = -1 /\ b.dst = -1) \/ OpenMove(i + 1, b, level, room)
      /\ \A t \in i + 1 .. H - 1 : CouldTake(t, b.target, level, room) =>
           b.dst >= t \/ \E j \in i + 1 .. t - 1 : b.target[j] >= t
  BY <1>1 DEF ScannedTo
<1>4. /\ i = b.src => /\ to = [b.target EXCEPT ![i] = b.dst]
                      /\ b.dst # -1 /\ d # -1 => r.src = d /\ r.dst = i
                      /\ d = -1 => r.src = -1 /\ r.dst = -1
      /\ i # b.src => /\ to = [b.target EXCEPT ![i] = -1]
                      /\ b.dst = -1 /\ room[i] /\ d # -1 => r.src = d /\ r.dst = i
                      /\ ~ (b.dst = -1 /\ room[i] /\ d # -1) => r.src = b.src /\ r.dst = b.dst
  BY DEF TargetStep
<1> HIDE DEF r, d
<1>5. b.src = i => OpenMove(i + 1, b, level, room)
  BY <1>3
<1>6. /\ to \in [Levels -> -1 .. H - 1]
      /\ \A j \in Levels : j # i => to[j] = b.target[j]
      /\ i = b.src => to[i] = b.dst /\ b.dst \in i + 1 .. H - 1
      /\ i # b.src => to[i] = -1
  <2>1. CASE i = b.src
    <3>1. b.dst \in i + 1 .. H - 1
      BY <1>5, <2>1 DEF OpenMove
    <3>2. b.dst \in -1 .. H - 1
      BY <1>1, <3>1
    <3> QED
      BY <1>1, <1>3, <1>4, <2>1, <3>1, <3>2
  <2>2. CASE i # b.src
    <3>1. -1 \in -1 .. H - 1
      BY <1>1
    <3> QED
      BY <1>1, <1>3, <1>4, <2>2, <3>1
  <2> QED
    BY <2>1, <2>2
<1>7. \A j \in i + 1 .. H - 1 : to[j] # -1 => Move(j, to, level, room)
  <2> SUFFICES ASSUME NEW j \in i + 1 .. H - 1, to[j] # -1 PROVE Move(j, to, level, room)
    OBVIOUS
  <2>1. to[j] = b.target[j]
    BY <1>1, <1>6
  <2>2. Move(j, b.target, level, room)
    BY <1>3, <2>1
  <2>3. \A k \in j + 1 .. H - 1 : to[k] = b.target[k]
    BY <1>1, <1>6
  <2> QED
    BY <1>1, <2>1, <2>2, <2>3 DEF Move
<1>8. \A t \in i + 1 .. H - 1 : CouldTake(t, to, level, room) =>
        b.dst >= t \/ \E j \in i + 1 .. t - 1 : to[j] >= t
  <2> SUFFICES ASSUME NEW t \in i + 1 .. H - 1, CouldTake(t, to, level, room)
               PROVE  b.dst >= t \/ \E j \in i + 1 .. t - 1 : to[j] >= t
    OBVIOUS
  <2>1. to[t] = b.target[t] /\ \A j \in i + 1 .. t - 1 : to[j] = b.target[j]
    <3>1. t \in Levels /\ t # i
      BY <1>1
    <3>2. \A j \in i + 1 .. t - 1 : j \in Levels /\ j # i
      BY <1>1
    <3> QED
      BY <1>6, <3>1, <3>2
  <2>2. CouldTake(t, b.target, level, room)
    BY <2>1 DEF CouldTake
  <2> QED
    BY <1>3, <2>1, <2>2
<1>9. to[H - 1] = -1
  <2>1. CASE i = H - 1
    <3>1. b.src # i
      BY <1>1, <1>5, <2>1 DEF OpenMove
    <3> QED
      BY <1>6, <2>1, <3>1
  <2>2. CASE i # H - 1
    BY <1>1, <1>3, <1>6, <2>2
  <2> QED
    BY <2>1, <2>2
<1>10. \A j \in 0 .. i - 1 : to[j] = -1
  <2>1. \A j \in 0 .. i - 1 : j \in Levels /\ j # i /\ j \in 0 .. i
    BY <1>1
  <2> QED
    BY <1>3, <1>6, <2>1
<1>11. CouldTake(i, to, level, room) => (room[i] \/ to[i] # -1) /\ d # -1
  <2>1. \A k \in 0 .. i - 1 : level[k] \in Int
    <3>1. \A k \in 0 .. i - 1 : k \in Levels
      BY <1>1
    <3>2. \A k \in Levels : level[k] \in -1 .. 33
      OBVIOUS
    <3> QED
      BY <3>1, <3>2
  <2> QED
    BY <1>1, <1>2, <2>1 DEF CouldTake
<1>12. SUFFICES /\ to[i] # -1 => Move(i, to, level, room)
                /\ (r.src = -1 /\ r.dst = -1) \/ OpenMove(i, r, level, room)
                /\ \A t \in i .. H - 1 : CouldTake(t, to, level, room) =>
                     r.dst >= t \/ \E j \in i .. t - 1 : to[j] >= t
  <2>1. \A j \in i .. H - 1 : j = i \/ j \in i + 1 .. H - 1
    BY <1>1
  <2> QED
    BY <1>6, <1>7, <1>9, <1>10, <2>1 DEF ScannedTo, r
<1>13. CASE b.src = i
  <2>1. OpenMove(i + 1, b, level, room) /\ to[i] = b.dst /\ b.dst \in i + 1 .. H - 1
    BY <1>5, <1>6, <1>13
  <2>2. \A k \in i + 1 .. H - 1 : to[k] = b.target[k]
    BY <1>1, <1>6
  <2>3. Move(i, to, level, room)
    BY <1>1, <1>13, <2>1, <2>2 DEF OpenMove, Move
  <2>4. d # -1 => r.src = d /\ r.dst = i
    BY <1>1, <1>4, <1>13, <2>1
  <2>5. d = -1 => r.src = -1 /\ r.dst = -1
    BY <1>4, <1>13
  <2>6. (r.src = -1 /\ r.dst = -1) \/ OpenMove(i, r, level, room)
    BY <1>1, <1>2, <2>1, <2>4, <2>5 DEF OpenMove
  <2>7. ASSUME NEW t \in i .. H - 1, CouldTake(t, to, level, room)
        PROVE  r.dst >= t \/ \E j \in i .. t - 1 : to[j] >= t
    <3>1. CASE t = i
      BY <1>1, <1>11, <2>4, <2>7, <3>1
    <3>2. CASE t # i
      <4>1. t \in i + 1 .. H - 1 /\ i \in i .. t - 1
        BY <1>1, <3>2
      <4> QED
        BY <1>8, <2>1, <2>7, <4>1
    <3> QED
      BY <3>1, <3>2
  <2> QED
    BY <2>3, <2>6, <2>7
<1>14. CASE b.src = -1 /\ b.dst = -1
  <2>1. to[i] = -1 /\ i # b.src
    BY <1>1, <1>6, <1>14
  <2>2. \/ room[i] /\ d # -1 /\ r.src = d /\ r.dst = i
        \/ ~ (room[i] /\ d # -1) /\ r.src = -1 /\ r.dst = -1
    BY <1>4, <1>14, <2>1
  <2>3. (r.src = -1 /\ r.dst = -1) \/ OpenMove(i, r, level, room)
    BY <1>1, <1>2, <2>2 DEF OpenMove
  <2>4. ASSUME NEW t \in i .. H - 1, CouldTake(t, to, level, room)
        PROVE  r.dst >= t \/ \E j \in i .. t - 1 : to[j] >= t
    <3>1. CASE t = i
      BY <1>1, <1>11, <2>1, <2>2, <2>4, <3>1
    <3>2. CASE t # i
      <4>1. t \in i + 1 .. H - 1 /\ \A j \in i + 1 .. t - 1 : j \in i .. t - 1
        BY <1>1, <3>2
      <4>2. ~ (b.dst >= t)
        BY <1>1, <1>14, <4>1
      <4> QED
        BY <1>8, <2>4, <4>1, <4>2
    <3> QED
      BY <3>1, <3>2
  <2> QED
    BY <2>1, <2>3, <2>4
<1>15. CASE OpenMove(i + 1, b, level, room) /\ b.src # i
  <2>1. b.dst \in i + 1 .. H - 1 /\ to[i] = -1
    BY <1>6, <1>15 DEF OpenMove
  <2>2. r.src = b.src /\ r.dst = b.dst
    BY <1>1, <1>4, <1>15, <2>1
  <2>3. \A k \in i + 1 .. H - 1 : to[k] = b.target[k]
    BY <1>1, <1>6
  <2>4. OpenMove(i, r, level, room)
    <3>1. \A k \in i .. b.dst - 1 : to[k] = -1
      <4>1. \A k \in i .. b.dst - 1 : k = i \/ (k \in i + 1 .. b.dst - 1 /\ k \in i + 1 .. H - 1)
        BY <1>1, <2>1
      <4> QED
        BY <1>15, <2>1, <2>3, <4>1 DEF OpenMove
    <3> QED
      BY <1>1, <1>15, <2>1, <2>2, <2>3, <3>1 DEF OpenMove
  <2>5. ASSUME NEW t \in i .. H - 1, CouldTake(t, to, level, room)
        PROVE  r.dst >= t \/ \E j \in i .. t - 1 : to[j] >= t
    <3>1. CASE t = i
      BY <1>1, <2>1, <2>2, <3>1
    <3>2. CASE t # i
      <4>1. t \in i + 1 .. H - 1 /\ \A j \in i + 1 .. t - 1 : j \in i .. t - 1
        BY <1>1, <3>2
      <4> QED
        BY <1>8, <2>2, <2>5, <4>1
    <3> QED
      BY <3>1, <3>2
  <2> QED
    BY <2>1, <2>4, <2>5
<1> QED
  BY <1>3, <1>13, <1>14, <1>15

(* The second pass plans moves that do not overlap, greedily. *)
LEMMA TargetPlans ==
  ASSUME NEW level \in [Levels -> -1 .. 33], NEW room
  PROVE  Planned(Target(Deepest(level), room), level, room)
<1> DEFINE scan == Scan(Deepest(level), room)
           top == scan[1]
           to == Target(Deepest(level), room)
           P == {i \in 1 .. H : ScannedTo(i, scan[i], level, room)}
<1>1. H \in Nat /\ H > 1 /\ Levels = 0 .. H - 1
  BY HeapAssumption DEF Levels
<1>2. /\ scan[H] = Closed
      /\ \A i \in 1 .. H - 1 : scan[i] = TargetStep(i, scan[i + 1], Deepest(level), room)
  BY ScanUnfolds
<1>3. to = [top.target EXCEPT ![0] = IF top.src = 0 THEN top.dst ELSE -1]
  BY DEF Target
<1> HIDE DEF scan, to
<1>4. H \in P
  <2>1. ScannedTo(H, Closed, level, room)
    BY <1>1 DEF ScannedTo, Closed
  <2> QED
    BY <1>1, <1>2, <2>1
<1>5. ASSUME NEW i \in 1 .. H - 1, i + 1 \in P PROVE i \in P
  <2>1. ScannedTo(i + 1, scan[i + 1], level, room)
    BY <1>5
  <2>2. ScannedTo(i, scan[i], level, room)
    BY <1>2, <2>1, TargetStepKeeps
  <2> QED
    BY <1>1, <2>2
<1> HIDE DEF P
<1>6. 1 \in P
  <2>1. 1 .. H \subseteq P
    BY <1>1, <1>4, <1>5, Upwards
  <2> QED
    BY <1>1, <2>1
<1> USE DEF P
<1>7. ScannedTo(1, top, level, room)
  BY <1>6
<1> HIDE DEF top, P
<1>8. /\ top.target \in [Levels -> -1 .. H - 1] /\ top.target[H - 1] = -1 /\ top.target[0] = -1
      /\ \A j \in 1 .. H - 1 : top.target[j] # -1 => Move(j, top.target, level, room)
      /\ \A t \in 1 .. H - 1 : CouldTake(t, top.target, level, room) =>
           top.dst >= t \/ \E j \in 1 .. t - 1 : top.target[j] >= t
  BY <1>1, <1>7 DEF ScannedTo
<1>9. \/ top.src = -1 /\ top.dst = -1
      \/ /\ top.src = 0 /\ top.dst \in 1 .. H - 1 /\ level[0] >= top.dst
         /\ \A k \in 1 .. top.dst - 1 : top.target[k] = -1
         /\ top.target[top.dst] # -1 \/ room[top.dst]
  BY <1>1, <1>7 DEF ScannedTo, OpenMove
<1>10. /\ to \in [Levels -> -1 .. H - 1] /\ to[0] = top.dst
       /\ \A j \in 1 .. H - 1 : to[j] = top.target[j]
  BY <1>1, <1>3, <1>8, <1>9
<1>11. \A j \in 1 .. H - 1 : to[j] # -1 => Move(j, to, level, room)
  <2> SUFFICES ASSUME NEW j \in 1 .. H - 1, to[j] # -1 PROVE Move(j, to, level, room)
    OBVIOUS
  <2>1. Move(j, top.target, level, room)
    BY <1>8, <1>10
  <2>2. \A k \in j + 1 .. H - 1 : to[k] = top.target[k]
    BY <1>1, <1>10
  <2> QED
    BY <1>1, <1>10, <2>1, <2>2 DEF Move
<1>12. to[0] # -1 => Move(0, to, level, room)
  <2> SUFFICES ASSUME to[0] # -1 PROVE Move(0, to, level, room)
    OBVIOUS
  <2>1. /\ to[0] \in 1 .. H - 1 /\ level[0] >= to[0]
        /\ \A k \in 1 .. to[0] - 1 : top.target[k] = -1
        /\ top.target[to[0]] # -1 \/ room[to[0]]
    BY <1>9, <1>10
  <2>2. /\ to[to[0]] = top.target[to[0]]
        /\ \A k \in 1 .. to[0] - 1 : to[k] = top.target[k]
    BY <1>1, <1>10, <2>1
  <2> QED
    BY <2>1, <2>2 DEF Move
<1>13. ASSUME NEW t \in 1 .. H - 1, CouldTake(t, to, level, room)
       PROVE  \E j \in 0 .. t - 1 : to[j] >= t
  <2>1. CouldTake(t, top.target, level, room)
    BY <1>10, <1>13 DEF CouldTake
  <2>2. CASE top.dst >= t
    <3>1. 0 \in 0 .. t - 1
      OBVIOUS
    <3> QED
      BY <1>10, <2>2, <3>1
  <2>3. CASE \E j \in 1 .. t - 1 : top.target[j] >= t
    <3>1. PICK j \in 1 .. t - 1 : top.target[j] >= t
      BY <2>3
    <3>2. j \in 1 .. H - 1 /\ j \in 0 .. t - 1
      BY <1>1
    <3> QED
      BY <1>10, <3>1, <3>2
  <2> QED
    BY <1>8, <2>1, <2>2, <2>3
<1>14. to[H - 1] = -1
  BY <1>1, <1>8, <1>10
<1>15. \A j \in Levels : j = 0 \/ j \in 1 .. H - 1
  BY <1>1
<1> QED
  BY <1>10, <1>11, <1>12, <1>13, <1>14, <1>15 DEF Planned, to

-------------------------------------------------------------------------------
(* Third pass. *)

(* What the third pass needs of the plan. *)
Feasible(arr, idx, target) ==
  /\ target \in [Levels -> -1 .. H - 1] /\ target[H - 1] = -1
  /\ \A j \in Levels : target[j] # -1 =>
       /\ target[j] \in j + 1 .. H - 1
       /\ \A k \in j + 1 .. target[j] - 1 : target[k] = -1
       /\ target[target[j]] # -1 \/ \E s \in SlotsOf(target[j]) : is_empty(arr[s])
       /\ idx[j] \in SlotsOf(j) /\ ~is_empty(arr[idx[j]])

EmptyIn(arr, i) == {s \in SlotsOf(i) : is_empty(arr[s])}

Arrives(i, target) == \E j \in Levels : target[j] = i
Source(i, target)  == CHOOSE j \in Levels : target[j] = i

(* The one slot of a level that the moves touch, and what it ends with. *)
Cell(i, arr, idx, target) ==
  IF target[i] # -1 THEN idx[i] ELSE First(EmptyIn(arr, i))

Incoming(i, arr, idx, target) ==
  IF Arrives(i, target) THEN arr[idx[Source(i, target)]] ELSE Empty

Touches(i, target) == target[i] # -1 \/ Arrives(i, target)

(* All moves of the plan made at once. *)
Outcome(arr, idx, target) ==
  [s \in Slots |->
     LET i == LevelOf(s) IN
     IF Touches(i, target) /\ s = Cell(i, arr, idx, target)
     THEN Incoming(i, arr, idx, target) ELSE arr[s]]

LEMMA CarriedUnfolds ==
  ASSUME NEW arr, NEW idx, NEW target
  PROVE  LET carry == Carried(arr, idx, target) IN
         /\ carry[0] = LeaveTop(arr, idx, target)
         /\ \A i \in 1 .. H - 2 : carry[i] = CarryStep(i, carry[i - 1], idx, target)
<1> DEFINE To(k, f) == f = [i \in 0 .. k |-> IF i = 0 THEN LeaveTop(arr, idx, target)
                                            ELSE CarryStep(i, f[i - 1], idx, target)]
           P == {k \in 0 .. H - 2 : \E f : To(k, f)}
<1>1. H \in Nat /\ H > 1 /\ H - 2 \in Nat
  BY HeapAssumption
<1>2. 0 \in P
  <2> DEFINE f == [i \in 0 .. 0 |-> LeaveTop(arr, idx, target)]
  <2>1. To(0, f)
    BY <1>1
  <2> HIDE DEF To, f
  <2> QED
    BY <1>1, <2>1
<1>3. ASSUME NEW k \in 1 .. H - 2, k - 1 \in P
      PROVE  k \in P
  <2>1. PICK f : To(k - 1, f)
    BY <1>3
  <2> DEFINE g == [i \in 0 .. k |-> IF i = k THEN CarryStep(k, f[k - 1], idx, target)
                                   ELSE f[i]]
  <2>2. ASSUME NEW i \in 0 .. k
        PROVE  g[i] = IF i = 0 THEN LeaveTop(arr, idx, target)
                      ELSE CarryStep(i, g[i - 1], idx, target)
    <3>1. CASE i = k
      <4>1. g[i - 1] = f[k - 1] /\ i # 0
        BY <1>1, <3>1
      <4> QED
        BY <3>1, <4>1
    <3>2. CASE i # k
      <4>1. i \in 0 .. k - 1 /\ g[i] = f[i]
        BY <1>1, <3>2
      <4>2. f[i] = IF i = 0 THEN LeaveTop(arr, idx, target)
                   ELSE CarryStep(i, f[i - 1], idx, target)
        BY <2>1, <4>1
      <4>3. i # 0 => g[i - 1] = f[i - 1]
        BY <1>1, <4>1
      <4> QED
        BY <4>1, <4>2, <4>3
    <3> QED
      BY <3>1, <3>2
  <2>3. To(k, g)
    BY <2>2
  <2> HIDE DEF To, g
  <2> QED
    BY <1>1, <2>3
<1>4. H - 2 \in P
  <2> HIDE DEF P
  <2>1. 0 .. H - 2 \subseteq P
    BY <1>1, <1>2, <1>3, Downwards
  <2> QED
    BY <1>1, <2>1
<1>5. \E f : f = [i \in 0 .. H - 2 |-> IF i = 0 THEN LeaveTop(arr, idx, target)
                                       ELSE CarryStep(i, f[i - 1], idx, target)]
  BY <1>4
<1> DEFINE carry == Carried(arr, idx, target)
<1>6. carry = [i \in 0 .. H - 2 |-> IF i = 0 THEN LeaveTop(arr, idx, target)
                                   ELSE CarryStep(i, carry[i - 1], idx, target)]
  BY <1>5 DEF Carried
<1> HIDE DEF carry
<1>7. \A i \in 0 .. H - 2 : carry[i] = IF i = 0 THEN LeaveTop(arr, idx, target)
                                       ELSE CarryStep(i, carry[i - 1], idx, target)
  BY <1>6, Zenon
<1>8. /\ carry[0] = LeaveTop(arr, idx, target)
      /\ \A i \in 1 .. H - 2 : carry[i] = CarryStep(i, carry[i - 1], idx, target)
  BY <1>1, <1>7
<1> QED
  BY <1>8 DEF carry

(* A level is sent to by one other, and the slot its moves touch is its own.   *)
LEMMA SourceIs ==
  ASSUME NEW arr, NEW idx, NEW target, Feasible(arr, idx, target),
         NEW j \in Levels, target[j] # -1
  PROVE  Arrives(target[j], target) /\ Source(target[j], target) = j
<1>1. H \in Nat /\ Levels = 0 .. H - 1 /\ j \in Int
  BY HeapAssumption DEF Levels
<1>2. ASSUME NEW k \in Levels, target[k] = target[j], k # j
      PROVE  FALSE
  <2>1. /\ target[j] \in j + 1 .. H - 1 /\ \A m \in j + 1 .. target[j] - 1 : target[m] = -1
        /\ target[k] \in k + 1 .. H - 1 /\ \A m \in k + 1 .. target[k] - 1 : target[m] = -1
    BY <1>2 DEF Feasible
  <2>2. k \in j + 1 .. target[j] - 1 \/ j \in k + 1 .. target[k] - 1
    BY <1>1, <1>2, <2>1
  <2> QED
    BY <1>1, <1>2, <2>1, <2>2
<1> QED
  BY <1>2 DEF Arrives, Source

LEMMA CellIs ==
  ASSUME NEW arr \in Array, NEW idx, NEW target, Feasible(arr, idx, target),
         NEW i \in Levels, Touches(i, target)
  PROVE  LET s == Cell(i, arr, idx, target) IN
         /\ s \in SlotsOf(i)
         /\ target[i] = -1 => is_empty(arr[s])
         /\ target[i] # -1 => ~is_empty(arr[s])
<1>1. CASE target[i] # -1
  BY <1>1 DEF Feasible, Cell
<1>2. CASE target[i] = -1
  <2>1. PICK j \in Levels : target[j] = i
    BY <1>2 DEF Touches, Arrives
  <2>2. i # -1
    BY HeapAssumption DEF Levels
  <2>3. \E s \in SlotsOf(i) : is_empty(arr[s])
    BY <1>2, <2>1, <2>2 DEF Feasible
  <2> DEFINE E == EmptyIn(arr, i)
  <2>4. E # {} /\ E \in SUBSET Nat
    BY <2>3, LevelSlots DEF EmptyIn
  <2>5. First(E) \in E
    <3> HIDE DEF E
    <3> QED
      BY <2>4, FirstIs
  <2>6. Cell(i, arr, idx, target) = First(E)
    BY <1>2 DEF Cell
  <2> QED
    BY <1>2, <2>5, <2>6 DEF EmptyIn
<1> QED
  BY <1>1, <1>2

LEMMA OutcomeAt ==
  ASSUME NEW arr, NEW idx, NEW target, NEW i \in Levels, NEW s \in SlotsOf(i)
  PROVE  Outcome(arr, idx, target)[s] =
           IF Touches(i, target) /\ s = Cell(i, arr, idx, target)
           THEN Incoming(i, arr, idx, target) ELSE arr[s]
BY LevelOfSlot DEF Outcome

LEMMA OutcomeOff ==
  ASSUME NEW arr, NEW idx, NEW target, NEW i \in Levels, ~Touches(i, target)
  PROVE  \A s \in SlotsOf(i) : Outcome(arr, idx, target)[s] = arr[s]
<1> SUFFICES ASSUME NEW s \in SlotsOf(i)
             PROVE  Outcome(arr, idx, target)[s] = arr[s]
  OBVIOUS
<1>1. s \in Slots /\ LevelOf(s) = i
  BY LevelOfSlot
<1> QED
  BY <1>1, Zenon DEF Outcome

LEMMA IncomingIs ==
  ASSUME NEW arr \in Array, NEW idx, NEW target, Feasible(arr, idx, target),
         NEW i \in Levels
  PROVE  /\ Incoming(i, arr, idx, target) \in Block \cup {Empty}
         /\ ~Arrives(i, target) => Incoming(i, arr, idx, target) = Empty
         /\ \A j \in Levels : target[j] = i => Incoming(i, arr, idx, target) = arr[idx[j]]
<1>1. i # -1
  BY HeapAssumption DEF Levels
<1>2. \A j \in Levels : target[j] = i =>
        /\ Incoming(i, arr, idx, target) = arr[idx[j]]
        /\ arr[idx[j]] \in Block \cup {Empty}
  <2> SUFFICES ASSUME NEW j \in Levels, target[j] = i
               PROVE  /\ Incoming(i, arr, idx, target) = arr[idx[j]]
                      /\ arr[idx[j]] \in Block \cup {Empty}
    OBVIOUS
  <2>1. Arrives(i, target) /\ Source(i, target) = j
    BY <1>1, SourceIs
  <2>2. idx[j] \in Slots
    BY <1>1, LevelSlots DEF Feasible
  <2> QED
    BY <2>1, <2>2 DEF Incoming, Array
<1> QED
  BY <1>2 DEF Incoming, Arrives

LEMMA OutcomeArray ==
  ASSUME NEW arr \in Array, NEW idx, NEW target, Feasible(arr, idx, target)
  PROVE  Outcome(arr, idx, target) \in Array
BY IncomingIs, LevelOfSlot DEF Outcome, Array

(* After level i: the levels so far have their outcome, and a move that goes   *)
(* on below i has its block in `hold`.                                         *)
DoneTo(i, a, arr, idx, target) ==
  /\ a \in Array
  /\ \A j \in Levels : \A s \in SlotsOf(j) :
       a[s] = IF j <= i THEN Outcome(arr, idx, target)[s] ELSE arr[s]

CarriedTo(i, c, arr, idx, target) ==
  /\ c \in [arr : Array, hold : Block \cup {Empty}, dst : -1 .. H - 1]
  /\ DoneTo(i, c.arr, arr, idx, target)
  /\ \/ c.dst = -1 /\ c.hold = Empty /\ \A j \in 0 .. i : target[j] <= i
     \/ \E j \in 0 .. i : c.dst = target[j] /\ target[j] > i /\ c.hold = arr[idx[j]]

LEMMA LeaveTopCarries ==
  ASSUME NEW arr \in Array, NEW idx, NEW target, Feasible(arr, idx, target)
  PROVE  CarriedTo(0, LeaveTop(arr, idx, target), arr, idx, target)
<1> DEFINE c == LeaveTop(arr, idx, target)
           O == Outcome(arr, idx, target)
<1>1. H \in Nat /\ H > 1 /\ Levels = 0 .. H - 1 /\ 0 \in Levels
  BY HeapAssumption DEF Levels
<1>2. ~Arrives(0, target)
  <2>1. \A j \in Levels : target[j] # -1 => target[j] \in j + 1 .. H - 1
    BY DEF Feasible
  <2> QED
    BY <1>1, <2>1 DEF Arrives
<1>3. CASE target[0] = -1
  <2>1. c = Carry(arr, Empty, -1)
    BY <1>3 DEF LeaveTop
  <2>2. \A s \in SlotsOf(0) : O[s] = arr[s]
    <3>1. ~Touches(0, target)
      BY <1>2, <1>3 DEF Touches
    <3> QED
      BY <1>1, <3>1, OutcomeOff
  <2>3. \A j \in Levels : j <= 0 => j = 0
    BY <1>1
  <2>4. -1 \in -1 .. H - 1
    BY <1>1
  <2> HIDE DEF O
  <2> QED
    BY <1>1, <1>3, <2>1, <2>2, <2>3, <2>4 DEF CarriedTo, DoneTo, Carry, O
<1>4. CASE target[0] # -1
  <2>1. c = Carry([arr EXCEPT ![idx[0]] = Empty], arr[idx[0]], target[0])
    BY <1>4 DEF LeaveTop
  <2>2. target[0] \in 1 .. H - 1 /\ idx[0] \in SlotsOf(0)
    BY <1>1, <1>4 DEF Feasible
  <2>3. Touches(0, target) /\ Cell(0, arr, idx, target) = idx[0]
        /\ Incoming(0, arr, idx, target) = Empty
    BY <1>2, <1>4 DEF Touches, Cell, Incoming
  <2>4. \A s \in SlotsOf(0) : O[s] = IF s = idx[0] THEN Empty ELSE arr[s]
    BY <1>1, <2>3, OutcomeAt
  <2> HIDE DEF O
  <2>5. \A j \in Levels : (j <= 0 => j = 0) /\ \A s \in SlotsOf(j) : s \in Slots /\ (s = idx[0] => j = 0)
    BY <1>1, <2>2, LevelOfSlot
  <2>6. idx[0] \in Slots /\ arr[idx[0]] \in Block \cup {Empty}
        /\ [arr EXCEPT ![idx[0]] = Empty] \in Array
    BY <2>2, <1>1, LevelOfSlot DEF Array
  <2>7. c \in [arr : Array, hold : Block \cup {Empty}, dst : -1 .. H - 1]
    BY <1>1, <2>1, <2>2, <2>6 DEF Carry
  <2>8. \A j \in Levels : \A s \in SlotsOf(j) :
          c.arr[s] = IF j <= 0 THEN O[s] ELSE arr[s]
    BY <1>1, <2>1, <2>4, <2>5 DEF Carry, Array
  <2>9. c.dst = target[0] /\ target[0] > 0 /\ c.hold = arr[idx[0]] /\ 0 \in 0 .. 0
    BY <2>1, <2>2 DEF Carry
  <2> QED
    BY <2>7, <2>8, <2>9 DEF CarriedTo, DoneTo, O
<1> QED
  BY <1>3, <1>4

(* What is held on the way into level i. *)
LEMMA HeldIs ==
  ASSUME NEW arr \in Array, NEW idx, NEW target, Feasible(arr, idx, target),
         NEW i \in 1 .. H - 1, NEW c, CarriedTo(i - 1, c, arr, idx, target)
  PROVE  /\ c.dst = i <=> Arrives(i, target)
         /\ Arrives(i, target) => c.hold = Incoming(i, arr, idx, target)
         /\ ~Arrives(i, target) => \/ c.dst = -1 /\ c.hold = Empty /\ \A j \in 0 .. i - 1 : target[j] <= i
                                   \/ /\ c.dst > i /\ target[i] = -1
                                      /\ \E j \in 0 .. i : c.dst = target[j] /\ c.hold = arr[idx[j]]
<1>1. H \in Nat /\ H > 1 /\ Levels = 0 .. H - 1 /\ i \in Levels
  BY HeapAssumption DEF Levels
<1>2. /\ target \in [Levels -> -1 .. H - 1]
      /\ \A j \in Levels : target[j] # -1 =>
           target[j] \in j + 1 .. H - 1 /\ \A k \in j + 1 .. target[j] - 1 : target[k] = -1
  BY DEF Feasible
<1>3. CASE c.dst = -1 /\ c.hold = Empty /\ \A j \in 0 .. i - 1 : target[j] <= i - 1
  <2>1. \A j \in Levels : target[j] # i
    <3> SUFFICES ASSUME NEW j \in Levels, target[j] = i PROVE FALSE
      OBVIOUS
    <3>1. j \in 0 .. i - 1
      BY <1>1, <1>2
    <3> QED
      BY <1>1, <1>3, <3>1
  <2>2. \A j \in 0 .. i - 1 : target[j] <= i
    <3>1. \A j \in 0 .. i - 1 : target[j] \in Int
      BY <1>1, <1>2
    <3> QED
      BY <1>3, <3>1
  <2> QED
    BY <1>3, <2>1, <2>2 DEF Arrives
<1>4. CASE \E j \in 0 .. i - 1 : c.dst = target[j] /\ target[j] > i - 1 /\ c.hold = arr[idx[j]]
  <2>1. PICK j \in 0 .. i - 1 : c.dst = target[j] /\ target[j] > i - 1 /\ c.hold = arr[idx[j]]
    BY <1>4
  <2>2. j \in Levels /\ target[j] \in j + 1 .. H - 1 /\ \A k \in j + 1 .. target[j] - 1 : target[k] = -1
    BY <1>1, <1>2, <2>1
  <2>3. CASE target[j] = i
    <3>1. Arrives(i, target) /\ Incoming(i, arr, idx, target) = arr[idx[j]]
      BY <1>1, <2>2, <2>3, IncomingIs DEF Arrives
    <3> QED
      BY <2>1, <2>3, <3>1
  <2>4. CASE target[j] # i
    <3>1. target[j] > i /\ i \in j + 1 .. target[j] - 1
      BY <1>1, <2>1, <2>2, <2>4
    <3>2. ASSUME NEW k \in Levels, target[k] = i
          PROVE  FALSE
      <4>0. target[k] # -1
        BY <3>2
      <4>1. target[k] \in k + 1 .. H - 1 /\ \A m \in k + 1 .. target[k] - 1 : target[m] = -1
        BY <1>2, <4>0
      <4>2. k = j \/ k \in j + 1 .. target[j] - 1 \/ j \in k + 1 .. target[k] - 1
        BY <1>1, <2>1, <2>2, <3>1, <3>2, <4>1
      <4> QED
        BY <1>1, <2>2, <2>4, <3>2, <4>1, <4>2
    <3>3. j \in 0 .. i
      BY <2>1
    <3> QED
      BY <1>1, <2>1, <2>2, <3>1, <3>2, <3>3 DEF Arrives
  <2> QED
    BY <2>3, <2>4
<1> QED
  BY <1>3, <1>4 DEF CarriedTo

(* The outcome of level i, once the slot its moves touch is set.               *)
LEMMA LevelDone ==
  ASSUME NEW arr \in Array, NEW idx, NEW target, Feasible(arr, idx, target),
         NEW i \in 1 .. H - 1, NEW c, CarriedTo(i - 1, c, arr, idx, target),
         Touches(i, target), NEW d,
         d = [c.arr EXCEPT ![Cell(i, arr, idx, target)] = Incoming(i, arr, idx, target)]
  PROVE  DoneTo(i, d, arr, idx, target)
<1> DEFINE O == Outcome(arr, idx, target)
           z == Cell(i, arr, idx, target)
           b == Incoming(i, arr, idx, target)
<1>1. i \in Levels
  BY HeapAssumption DEF Levels
<1>2. z \in SlotsOf(i) /\ b \in Block \cup {Empty}
  BY <1>1, CellIs, IncomingIs
<1>3. c.arr \in Array
  BY DEF CarriedTo, DoneTo
<1>4. \A s \in SlotsOf(i) : O[s] = IF s = z THEN b ELSE arr[s]
  BY <1>1, OutcomeAt
<1>5. \A j \in Levels : \A s \in SlotsOf(j) :
        /\ c.arr[s] = IF j <= i - 1 THEN O[s] ELSE arr[s]
        /\ s \in Slots /\ (s = z => j = i)
  BY <1>1, <1>2, LevelOfSlot DEF CarriedTo, DoneTo
<1>6. d = [c.arr EXCEPT ![z] = b]
  OBVIOUS
<1> HIDE DEF O, z, b
<1>7. z \in Slots
  BY <1>1, <1>2, <1>5
<1>8. d \in Array /\ \A s \in Slots : d[s] = IF s = z THEN b ELSE c.arr[s]
  BY <1>2, <1>3, <1>6, <1>7 DEF Array
<1>9. ASSUME NEW j \in Levels, NEW s \in SlotsOf(j)
      PROVE  d[s] = IF j <= i THEN O[s] ELSE arr[s]
  <2>1. s \in Slots /\ (s = z => j = i) /\ j \in Int
    BY <1>5 DEF Levels
  <2>2. CASE j = i
    BY <1>4, <1>5, <1>8, <2>1, <2>2
  <2>3. CASE j # i
    BY <1>5, <1>8, <2>1, <2>3
  <2> QED
    BY <2>2, <2>3
<1> QED
  BY <1>8, <1>9 DEF O, DoneTo

LEMMA LevelSame ==
  ASSUME NEW arr \in Array, NEW idx, NEW target,
         NEW i \in 1 .. H - 1, NEW c, CarriedTo(i - 1, c, arr, idx, target),
         ~Touches(i, target)
  PROVE  DoneTo(i, c.arr, arr, idx, target)
<1> DEFINE O == Outcome(arr, idx, target)
<1>1. i \in Levels /\ \A j \in Levels : j \in Int
  BY HeapAssumption DEF Levels
<1>2. \A s \in SlotsOf(i) : O[s] = arr[s]
  BY <1>1, OutcomeOff
<1>3. \A j \in Levels : \A s \in SlotsOf(j) :
        c.arr[s] = IF j <= i - 1 THEN O[s] ELSE arr[s]
  BY DEF CarriedTo, DoneTo
<1> HIDE DEF O
<1>4. ASSUME NEW j \in Levels, NEW s \in SlotsOf(j)
      PROVE  c.arr[s] = IF j <= i THEN O[s] ELSE arr[s]
  <2>1. CASE j = i
    BY <1>1, <1>2, <1>3, <2>1
  <2>2. CASE j # i
    BY <1>1, <1>3, <2>2
  <2> QED
    BY <2>1, <2>2
<1> QED
  BY <1>4 DEF O, CarriedTo, DoneTo

(* Where CarryStep and ReachLeaf look for a free slot. *)
LEMMA SameEmpty ==
  ASSUME NEW arr \in Array, NEW idx, NEW target,
         NEW i \in 1 .. H - 1, NEW c, CarriedTo(i - 1, c, arr, idx, target)
  PROVE  /\ EmptyIn(c.arr, i) = EmptyIn(arr, i)
         /\ \A s \in SlotsOf(i) : c.arr[s] = arr[s]
<1>1. i \in Levels /\ ~ (i <= i - 1)
  BY HeapAssumption DEF Levels
<1>2. \A s \in SlotsOf(i) : c.arr[s] = arr[s]
  BY <1>1 DEF CarriedTo, DoneTo
<1> QED
  BY <1>2 DEF EmptyIn

LEMMA CarryStepKeeps ==
  ASSUME NEW arr \in Array, NEW idx, NEW target, Feasible(arr, idx, target),
         NEW i \in 1 .. H - 2, NEW c, CarriedTo(i - 1, c, arr, idx, target)
  PROVE  CarriedTo(i, CarryStep(i, c, idx, target), arr, idx, target)
<1> DEFINE r == CarryStep(i, c, idx, target)
           z == Cell(i, arr, idx, target)
           b == Incoming(i, arr, idx, target)
<1>1. H \in Nat /\ H > 1 /\ Levels = 0 .. H - 1 /\ i \in Levels /\ i \in 1 .. H - 1
  BY HeapAssumption DEF Levels
<1>2. /\ target \in [Levels -> -1 .. H - 1]
      /\ target[i] # -1 => target[i] \in i + 1 .. H - 1 /\ idx[i] \in SlotsOf(i)
  BY <1>1 DEF Feasible
<1>3. /\ c.dst = i <=> Arrives(i, target)
      /\ Arrives(i, target) => c.hold = b
      /\ ~Arrives(i, target) => \/ c.dst = -1 /\ c.hold = Empty /\ \A j \in 0 .. i - 1 : target[j] <= i
                                \/ /\ c.dst > i /\ target[i] = -1
                                   /\ \E j \in 0 .. i : c.dst = target[j] /\ c.hold = arr[idx[j]]
  BY <1>1, HeldIs
<1>4. c \in [arr : Array, hold : Block \cup {Empty}, dst : -1 .. H - 1]
  BY DEF CarriedTo
<1>5. \A s \in SlotsOf(i) : s \in Slots /\ c.arr[s] = arr[s] /\ arr[s] \in Block \cup {Empty}
  <2> SUFFICES ASSUME NEW s \in SlotsOf(i)
               PROVE  s \in Slots /\ c.arr[s] = arr[s] /\ arr[s] \in Block \cup {Empty}
    OBVIOUS
  <2>1. s \in Slots
    BY <1>1, LevelOfSlot
  <2>2. i \in 1 .. H - 1
    BY <1>1
  <2>3. c.arr[s] = arr[s]
    BY <2>2, SameEmpty
  <2> QED
    BY <2>1, <2>3 DEF Array
<1>6. CASE target[i] # -1
  <2>1. r = [Swapped(c, idx[i]) EXCEPT !.dst = target[i]]
    BY <1>6 DEF CarryStep
  <2>2. z = idx[i] /\ Touches(i, target)
    BY <1>6 DEF Cell, Touches
  <2>3. c.hold = b
    BY <1>1, <1>3, <1>6, IncomingIs
  <2> HIDE DEF r
  <2>4. r.arr = [c.arr EXCEPT ![z] = b] /\ r.hold = arr[idx[i]] /\ r.dst = target[i]
        /\ r = [arr |-> r.arr, hold |-> r.hold, dst |-> r.dst]
    BY <1>2, <1>4, <1>5, <1>6, <2>1, <2>2, <2>3 DEF Swapped, Carry
  <2>5. DoneTo(i, r.arr, arr, idx, target)
    <3>1. r.arr = [c.arr EXCEPT ![Cell(i, arr, idx, target)] = Incoming(i, arr, idx, target)]
      BY <2>4
    <3> QED
      BY <1>1, <2>2, <3>1, LevelDone
  <2>6. r.hold \in Block \cup {Empty} /\ r.dst \in -1 .. H - 1
    BY <1>1, <1>2, <1>5, <1>6, <2>4
  <2>7. \E j \in 0 .. i : r.dst = target[j] /\ target[j] > i /\ r.hold = arr[idx[j]]
    BY <1>1, <1>2, <1>6, <2>4
  <2> HIDE DEF z, b
  <2>8. CarriedTo(i, r, arr, idx, target)
    BY <2>4, <2>5, <2>6, <2>7 DEF CarriedTo, DoneTo
  <2> QED
    BY <2>8 DEF r
<1>7. CASE target[i] = -1 /\ Arrives(i, target)
  <2>1. Touches(i, target) /\ z \in SlotsOf(i) /\ is_empty(arr[z]) /\ z = First(EmptyIn(arr, i))
    BY <1>1, <1>7, CellIs DEF Touches, Cell
  <2>2. EmptyIn(arr, i) # {}
    BY <2>1 DEF EmptyIn
  <2>3. {s \in SlotsOf(i) : is_empty(c.arr[s])} = EmptyIn(arr, i)
    BY <1>1, SameEmpty DEF EmptyIn
  <2>4. r = [Swapped(c, z) EXCEPT !.dst = -1]
    BY <1>3, <1>7, <2>1, <2>2, <2>3 DEF CarryStep
  <2> HIDE DEF r
  <2>5. arr[z] = Empty
    BY <1>5, <2>1, EmptyBlock
  <2>6. c.hold = b /\ c.arr[z] = Empty
    BY <1>3, <1>5, <1>7, <2>1, <2>5
  <2> HIDE DEF z, b
  <2>7. r.arr = [c.arr EXCEPT ![z] = b] /\ r.hold = Empty /\ r.dst = -1
        /\ r = [arr |-> r.arr, hold |-> r.hold, dst |-> r.dst]
    BY <2>4, <2>6 DEF Swapped, Carry
  <2>8. DoneTo(i, r.arr, arr, idx, target)
    <3>1. r.arr = [c.arr EXCEPT ![Cell(i, arr, idx, target)] = Incoming(i, arr, idx, target)]
      BY <2>7 DEF z, b
    <3> QED
      BY <1>1, <2>1, <3>1, LevelDone
  <2>9. \A j \in 0 .. i : target[j] <= i
    <3> SUFFICES ASSUME NEW j \in 0 .. i, target[j] > i PROVE FALSE
      BY <1>1, <1>2
    <3>1. PICK k \in Levels : target[k] = i
      BY <1>7 DEF Arrives
    <3>2. j \in Levels /\ target[j] # -1 /\ target[k] # -1
      BY <1>1, <1>2, <3>1
    <3>3. /\ target[j] \in j + 1 .. H - 1 /\ \A m \in j + 1 .. target[j] - 1 : target[m] = -1
          /\ target[k] \in k + 1 .. H - 1 /\ \A m \in k + 1 .. target[k] - 1 : target[m] = -1
      BY <3>2 DEF Feasible
    <3>4. j # i /\ j # k
      BY <1>1, <1>7, <3>1, <3>2
    <3>5. k \in j + 1 .. target[j] - 1 \/ j \in k + 1 .. target[k] - 1
      BY <1>1, <3>1, <3>3, <3>4
    <3> QED
      BY <3>2, <3>3, <3>5
  <2>10. -1 \in -1 .. H - 1
    BY <1>1
  <2>11. CarriedTo(i, r, arr, idx, target)
    BY <2>7, <2>8, <2>9, <2>10 DEF CarriedTo, DoneTo
  <2> QED
    BY <2>11 DEF r
<1>8. CASE target[i] = -1 /\ ~Arrives(i, target)
  <2>1. r = [c EXCEPT !.dst = c.dst]
    BY <1>3, <1>8 DEF CarryStep
  <2>2. r = c
    BY <1>4, <2>1
  <2>3. DoneTo(i, c.arr, arr, idx, target)
    <3>1. ~Touches(i, target)
      BY <1>8 DEF Touches
    <3> QED
      BY <1>1, <3>1, LevelSame
  <2>4. \/ c.dst = -1 /\ c.hold = Empty /\ \A j \in 0 .. i : target[j] <= i
        \/ \E j \in 0 .. i : c.dst = target[j] /\ target[j] > i /\ c.hold = arr[idx[j]]
    <3>1. \A j \in 0 .. i : j = i \/ j \in 0 .. i - 1
      BY <1>1
    <3> QED
      BY <1>1, <1>3, <1>8, <3>1
  <2> QED
    BY <1>4, <2>2, <2>3, <2>4 DEF CarriedTo
<1> QED
  BY <1>6, <1>7, <1>8

(* Carrying one block at a time has the outcome of all moves made at once.     *)
LEMMA MovedIs ==
  ASSUME NEW arr \in Array, NEW idx, NEW target, Feasible(arr, idx, target)
  PROVE  Moved(arr, idx, target) = Outcome(arr, idx, target)
<1> DEFINE carry == Carried(arr, idx, target)
           O == Outcome(arr, idx, target)
           P == {i \in 0 .. H - 2 : CarriedTo(i, carry[i], arr, idx, target)}
           c == carry[H - 2]
           z == Cell(H - 1, arr, idx, target)
           b == Incoming(H - 1, arr, idx, target)
<1>1. H \in Nat /\ H > 1 /\ H - 2 \in Nat /\ H - 1 \in Levels /\ H - 1 \in 1 .. H - 1
      /\ H - 2 = (H - 1) - 1 /\ Levels = 0 .. H - 1
  BY HeapAssumption DEF Levels
<1>2. /\ carry[0] = LeaveTop(arr, idx, target)
      /\ \A i \in 1 .. H - 2 : carry[i] = CarryStep(i, carry[i - 1], idx, target)
  BY CarriedUnfolds
<1>3. Moved(arr, idx, target) = ReachLeaf(c)
  BY DEF Moved
<1> HIDE DEF carry
<1>4. 0 \in P
  BY <1>1, <1>2, LeaveTopCarries
<1>5. ASSUME NEW i \in 1 .. H - 2, i - 1 \in P PROVE i \in P
  <2>1. CarriedTo(i - 1, carry[i - 1], arr, idx, target)
    BY <1>5
  <2>2. CarriedTo(i, carry[i], arr, idx, target)
    BY <1>2, <2>1, CarryStepKeeps
  <2> QED
    BY <2>2
<1> HIDE DEF P
<1>6. H - 2 \in P
  <2>1. 0 .. H - 2 \subseteq P
    BY <1>1, <1>4, <1>5, Downwards
  <2> QED
    BY <1>1, <2>1
<1>7. CarriedTo((H - 1) - 1, c, arr, idx, target)
  BY <1>1, <1>6 DEF P
<1> HIDE DEF c
<1>8. target[H - 1] = -1
  BY DEF Feasible
<1>9. /\ c.dst = H - 1 <=> Arrives(H - 1, target)
      /\ Arrives(H - 1, target) => c.hold = b
  BY <1>1, <1>7, HeldIs
<1>10. {s \in SlotsOf(H - 1) : is_empty(c.arr[s])} = EmptyIn(arr, H - 1)
  <2>1. ~ (H - 1 <= (H - 1) - 1)
    BY <1>1
  <2>2. \A s \in SlotsOf(H - 1) : c.arr[s] = arr[s]
    BY <1>1, <1>7, <2>1 DEF CarriedTo, DoneTo
  <2> QED
    BY <2>2 DEF EmptyIn
<1>11. O \in Array
  BY OutcomeArray
<1>12. \A s \in Slots : LevelOf(s) \in Levels /\ s \in SlotsOf(LevelOf(s)) /\ LevelOf(s) <= H - 1
  BY <1>1, LevelOfSlot
<1>13. CASE Arrives(H - 1, target)
  <2>1. Touches(H - 1, target) /\ z \in SlotsOf(H - 1) /\ is_empty(arr[z]) /\ z = First(EmptyIn(arr, H - 1))
    BY <1>1, <1>8, <1>13, CellIs DEF Touches, Cell
  <2>2. EmptyIn(arr, H - 1) # {}
    BY <2>1 DEF EmptyIn
  <2>3. ReachLeaf(c) = [c.arr EXCEPT ![z] = b]
    BY <1>9, <1>10, <1>13, <2>1, <2>2 DEF ReachLeaf
  <2> DEFINE d == ReachLeaf(c)
  <2>4. d = [c.arr EXCEPT ![Cell(H - 1, arr, idx, target)] = Incoming(H - 1, arr, idx, target)]
    BY <2>3
  <2> HIDE DEF d, O, z, b
  <2>5. d \in Array /\ \A j \in Levels : \A s \in SlotsOf(j) : d[s] = IF j <= H - 1 THEN O[s] ELSE arr[s]
    <3>1. DoneTo(H - 1, d, arr, idx, target)
      BY <1>1, <1>7, <2>1, <2>4, LevelDone
    <3> QED
      BY <3>1 DEF DoneTo, O
  <2>6. \A s \in Slots : d[s] = O[s]
    BY <1>12, <2>5
  <2>7. d = O
    BY <1>11, <2>5, <2>6 DEF Array
  <2> QED
    BY <1>3, <2>7 DEF d, O
<1>14. CASE ~Arrives(H - 1, target)
  <2>1. ReachLeaf(c) = c.arr
    BY <1>9, <1>14 DEF ReachLeaf
  <2>2. ~Touches(H - 1, target)
    BY <1>8, <1>14 DEF Touches
  <2> HIDE DEF O
  <2>3. \A j \in Levels : \A s \in SlotsOf(j) : c.arr[s] = IF j <= H - 1 THEN O[s] ELSE arr[s]
    <3>1. DoneTo(H - 1, c.arr, arr, idx, target)
      BY <1>1, <1>7, <2>2, LevelSame
    <3> QED
      BY <3>1 DEF DoneTo, O
  <2>4. \A s \in Slots : c.arr[s] = O[s]
    BY <1>12, <2>3
  <2>5. c.arr \in Array
    BY <1>7 DEF CarriedTo
  <2>6. c.arr = O
    BY <1>11, <2>4, <2>5 DEF Array
  <2> QED
    BY <1>3, <2>1, <2>6 DEF O
<1> QED
  BY <1>13, <1>14

-------------------------------------------------------------------------------
(* The whole eviction. *)

Depths(b, p) == Max(Shared(b.pos, p))

(* Some level above t has a block that can go to t. *)
Wanted(t, arr, p) ==
  \E k \in 0 .. t - 1 : \E s \in SlotsOf(k) : ~is_empty(arr[s]) /\ t <= Depths(arr[s], p)

(* Moves that an eviction may make: blocks go no deeper than they can, and     *)
(* past every level that is wanted and has or makes room, or to it, goes one.  *)
GreedyPlan(arr, p, idx, target) ==
  /\ Feasible(arr, idx, target)
  /\ \A j \in Levels : target[j] # -1 => target[j] <= Depths(arr[idx[j]], p)
  /\ \A t \in 1 .. H - 1 :
       (EmptyIn(arr, t) # {} \/ target[t] # -1) /\ Wanted(t, arr, p) =>
         \E j \in 0 .. t - 1 : target[j] >= t

LEMMA EvictionMoves ==
  ASSUME NEW arr \in Array, NEW p \in Positions, NEW out \in evict_once_fast(arr, p)
  PROVE  \E idx, target : GreedyPlan(arr, p, idx, target) /\ out = Outcome(arr, idx, target)
<1> DEFINE goal == Goals(arr, p)
           level == LevelGoals(goal)
           room == HasEmpty(arr)
           idx == DeepestIdx(goal, level)
           target == Target(Deepest(level), room)
<1>1. H \in Nat /\ H > 1 /\ Levels = 0 .. H - 1
  BY HeapAssumption DEF Levels
<1>2. out = Moved(arr, idx, target)
  BY DEF evict_once_fast, Plans
<1>3. goal \in SlotGoals
  <2>1. \A s \in Slots : goal[s] \in -1 .. 33
    BY GoalFacts
  <2>2. goal = [s \in Slots |-> goal[s]]
    BY DEF Goals
  <2> HIDE DEF goal
  <2> QED
    BY <2>1, <2>2 DEF SlotGoals
<1>4. \A s \in Slots : /\ goal[s] \in Int
                       /\ goal[s] = -1 <=> is_empty(arr[s])
                       /\ ~is_empty(arr[s]) => \A i \in Levels : i <= goal[s] <=> i <= Depths(arr[s], p)
  BY GoalFacts DEF Depths
<1> HIDE DEF goal
<1>5. LevelGoal(goal, level)
  BY <1>3, LevelGoalFacts
<1> HIDE DEF level
<1>6. level \in [Levels -> -1 .. 33]
  BY <1>5 DEF LevelGoal
<1>7. \A i \in Levels : level[i] # -1 => idx[i] \in SlotsOf(i) /\ goal[idx[i]] = level[i]
  BY <1>3, <1>5, IdxFacts
<1>8. \A t \in 1 .. H - 1 : room[t] <=> EmptyIn(arr, t) # {}
  BY DEF HasEmpty, EmptyIn
<1> HIDE DEF room, idx
<1>9. Planned(target, level, room)
  BY <1>6, TargetPlans
<1> HIDE DEF target
<1>10. /\ target \in [Levels -> -1 .. H - 1] /\ target[H - 1] = -1
       /\ \A j \in Levels : target[j] # -1 => Move(j, target, level, room)
       /\ \A t \in 1 .. H - 1 : CouldTake(t, target, level, room) =>
            \E j \in 0 .. t - 1 : target[j] >= t
  BY <1>9 DEF Planned
<1>11. ASSUME NEW j \in Levels, target[j] # -1
       PROVE  /\ target[j] \in j + 1 .. H - 1
              /\ \A k \in j + 1 .. target[j] - 1 : target[k] = -1
              /\ target[target[j]] # -1 \/ \E s \in SlotsOf(target[j]) : is_empty(arr[s])
              /\ idx[j] \in SlotsOf(j) /\ ~is_empty(arr[idx[j]])
              /\ target[j] <= Depths(arr[idx[j]], p)
  <2>1. /\ target[j] \in j + 1 .. H - 1 /\ level[j] >= target[j]
        /\ \A k \in j + 1 .. target[j] - 1 : target[k] = -1
        /\ target[target[j]] # -1 \/ room[target[j]]
    BY <1>10, <1>11 DEF Move
  <2>2. target[j] \in 1 .. H - 1 /\ target[j] \in Levels /\ level[j] \in Int /\ level[j] # -1
    <3>1. level[j] \in -1 .. 33 /\ j \in 0 .. H - 1
      BY <1>1, <1>6
    <3>2. target[j] \in 1 .. H - 1
      BY <1>1, <2>1, <3>1
    <3>3. target[j] > 0 /\ target[j] \in Levels
      BY <1>1, <3>2
    <3> QED
      BY <2>1, <3>1, <3>2, <3>3
  <2>3. idx[j] \in SlotsOf(j) /\ goal[idx[j]] = level[j] /\ idx[j] \in Slots
    BY <1>7, <2>2, LevelSlots
  <2>4. ~is_empty(arr[idx[j]]) /\ target[j] <= Depths(arr[idx[j]], p)
    <3>1. goal[idx[j]] # -1 /\ target[j] <= goal[idx[j]]
      BY <2>1, <2>2, <2>3
    <3>2. ~is_empty(arr[idx[j]])
      BY <1>4, <2>3, <3>1
    <3> QED
      BY <1>4, <2>2, <2>3, <3>1, <3>2
  <2>5. room[target[j]] => \E s \in SlotsOf(target[j]) : is_empty(arr[s])
    BY <1>8, <2>2 DEF EmptyIn
  <2> QED
    BY <2>1, <2>3, <2>4, <2>5
<1>12. ASSUME NEW t \in 1 .. H - 1, EmptyIn(arr, t) # {} \/ target[t] # -1, Wanted(t, arr, p)
       PROVE  \E j \in 0 .. t - 1 : target[j] >= t
  <2>1. PICK k \in 0 .. t - 1 : \E s \in SlotsOf(k) : ~is_empty(arr[s]) /\ t <= Depths(arr[s], p)
    BY <1>12 DEF Wanted
  <2>2. k \in Levels /\ t \in Levels
    BY <1>1
  <2>3. PICK s \in SlotsOf(k) : ~is_empty(arr[s]) /\ t <= Depths(arr[s], p)
    BY <2>1
  <2>4. s \in Slots
    BY <2>2, LevelSlots
  <2>5. t <= goal[s] /\ goal[s] <= level[k] /\ goal[s] \in Int /\ level[k] \in Int
    <3>1. t <= goal[s] /\ goal[s] \in Int
      BY <1>4, <2>2, <2>3, <2>4
    <3>2. goal[s] <= level[k]
      BY <1>5, <2>2, <2>3 DEF LevelGoal
    <3>3. level[k] \in -1 .. 33
      BY <1>6, <2>2
    <3> QED
      BY <3>1, <3>2, <3>3
  <2>6. CouldTake(t, target, level, room)
    BY <1>8, <1>12, <2>5 DEF CouldTake
  <2> QED
    BY <1>10, <2>6
<1>13. Feasible(arr, idx, target)
  BY <1>10, <1>11 DEF Feasible
<1>14. GreedyPlan(arr, p, idx, target)
  BY <1>11, <1>12, <1>13 DEF GreedyPlan
<1>15. out = Outcome(arr, idx, target)
  BY <1>2, <1>13, MovedIs
<1> QED
  BY <1>14, <1>15

(* Where the block of a slot goes. *)
Dest(s, arr, idx, target) ==
  LET i == LevelOf(s) IN
  IF target[i] # -1 /\ s = idx[i] THEN Cell(target[i], arr, idx, target) ELSE s

Occupied(arr) == {s \in Slots : ~is_empty(arr[s])}

LEMMA DestIs ==
  ASSUME NEW arr \in Array, NEW idx, NEW target, Feasible(arr, idx, target),
         NEW s \in Occupied(arr)
  PROVE  LET d == Dest(s, arr, idx, target)
             i == LevelOf(s)
         IN  /\ d \in Slots /\ Outcome(arr, idx, target)[d] = arr[s]
             /\ \/ target[i] # -1 /\ s = idx[i] /\ LevelOf(d) = target[i]
                   /\ d = Cell(target[i], arr, idx, target)
                \/ ~ (target[i] # -1 /\ s = idx[i]) /\ d = s
<1> DEFINE d == Dest(s, arr, idx, target)
           i == LevelOf(s)
           t == target[i]
           O == Outcome(arr, idx, target)
<1>1. s \in Slots /\ ~is_empty(arr[s]) /\ i \in Levels /\ s \in SlotsOf(i)
  BY LevelOfSlot DEF Occupied
<1>2. CASE t # -1 /\ s = idx[i]
  <2>1. t \in Levels /\ Arrives(t, target)
    <3>1. t \in i + 1 .. H - 1 /\ Levels = 0 .. H - 1 /\ i \in 0 .. H - 1 /\ H \in Nat
      BY <1>1, <1>2, HeapAssumption DEF Feasible, Levels
    <3>2. t \in Levels
      BY <3>1
    <3> QED
      BY <1>1, <3>2 DEF Arrives
  <2>2. Touches(t, target) /\ Incoming(t, arr, idx, target) = arr[s]
    BY <1>1, <1>2, <2>1, IncomingIs DEF Touches
  <2>3. Cell(t, arr, idx, target) \in SlotsOf(t)
    BY <2>1, <2>2, CellIs
  <2>4. d = Cell(t, arr, idx, target)
    BY <1>2 DEF Dest
  <2> HIDE DEF d, t, O
  <2>5. d \in SlotsOf(t) /\ d \in Slots /\ LevelOf(d) = t
    BY <2>1, <2>3, <2>4, LevelOfSlot
  <2>6. O[d] = arr[s]
    BY <2>1, <2>2, <2>4, <2>5, OutcomeAt DEF O
  <2> QED
    BY <1>2, <2>4, <2>5, <2>6 DEF d, t, O
<1>3. CASE ~ (t # -1 /\ s = idx[i])
  <2>1. d = s
    BY <1>3 DEF Dest
  <2>2. ~ (Touches(i, target) /\ s = Cell(i, arr, idx, target))
    <3>1. CASE t # -1
      BY <1>3, <3>1 DEF Cell
    <3>2. CASE t = -1
      BY <1>1, <3>2, CellIs
    <3> QED
      BY <3>1, <3>2
  <2>3. O[s] = arr[s]
    BY <1>1, <2>2, OutcomeAt
  <2> QED
    BY <1>1, <1>3, <2>1, <2>3
<1> QED
  BY <1>2, <1>3

LEMMA DestInjective ==
  ASSUME NEW arr \in Array, NEW idx, NEW target, Feasible(arr, idx, target),
         NEW s \in Occupied(arr), NEW r \in Occupied(arr),
         Dest(s, arr, idx, target) = Dest(r, arr, idx, target)
  PROVE  s = r
<1> DEFINE Goes(x) == target[LevelOf(x)] # -1 /\ x = idx[LevelOf(x)]
           To(x) == Dest(x, arr, idx, target)
<1>1. \A x \in Occupied(arr) :
        /\ LevelOf(x) \in Levels /\ ~is_empty(arr[x])
        /\ \/ Goes(x) /\ LevelOf(To(x)) = target[LevelOf(x)] /\ To(x) = Cell(target[LevelOf(x)], arr, idx, target)
           \/ ~Goes(x) /\ To(x) = x
  BY DestIs, LevelOfSlot DEF Occupied
<1>2. ASSUME NEW x \in Occupied(arr), NEW y \in Occupied(arr), Goes(x), ~Goes(y), To(x) = To(y)
      PROVE  FALSE
  <2> DEFINE t == target[LevelOf(x)]
  <2>1. y = Cell(t, arr, idx, target) /\ LevelOf(y) = t /\ t \in Levels /\ ~is_empty(arr[y])
    BY <1>1, <1>2
  <2>2. Touches(t, target)
    BY <1>1, <1>2, <2>1 DEF Touches, Arrives
  <2>3. target[t] # -1
    <3> HIDE DEF t
    <3> QED
      BY <2>1, <2>2, CellIs
  <2>4. y = idx[t]
    BY <2>1, <2>3 DEF Cell
  <2> QED
    BY <1>2, <2>1, <2>3, <2>4
<1>3. CASE Goes(s) /\ Goes(r)
  <2>1. target[LevelOf(s)] = target[LevelOf(r)]
    BY <1>1, <1>3
  <2>2. /\ Source(target[LevelOf(s)], target) = LevelOf(s)
        /\ Source(target[LevelOf(r)], target) = LevelOf(r)
    BY <1>1, <1>3, SourceIs
  <2>3. LevelOf(s) = LevelOf(r)
    BY <2>1, <2>2
  <2> QED
    BY <1>3, <2>3
<1>4. CASE Goes(s) /\ ~Goes(r)
  BY <1>2, <1>4
<1>5. CASE ~Goes(s) /\ Goes(r)
  BY <1>2, <1>5
<1>6. CASE ~Goes(s) /\ ~Goes(r)
  BY <1>1, <1>6
<1> QED
  BY <1>3, <1>4, <1>5, <1>6

LEMMA DestOnto ==
  ASSUME NEW arr \in Array, NEW idx, NEW target, Feasible(arr, idx, target),
         NEW y \in Occupied(Outcome(arr, idx, target))
  PROVE  \E s \in Occupied(arr) : Dest(s, arr, idx, target) = y
<1> DEFINE i == LevelOf(y)
           O == Outcome(arr, idx, target)
<1>1. y \in Slots /\ ~is_empty(O[y]) /\ i \in Levels /\ y \in SlotsOf(i)
  BY LevelOfSlot DEF Occupied
<1>2. CASE Touches(i, target) /\ y = Cell(i, arr, idx, target)
  <2>1. O[y] = Incoming(i, arr, idx, target)
    BY <1>1, <1>2, OutcomeAt
  <2>2. Arrives(i, target)
    BY <1>1, <2>1, EmptyBlock DEF Incoming
  <2>3. PICK j \in Levels : target[j] = i
    BY <2>2 DEF Arrives
  <2>4. target[j] # -1
    BY <1>1, <2>3, HeapAssumption DEF Levels
  <2>5. idx[j] \in SlotsOf(j) /\ ~is_empty(arr[idx[j]])
    BY <2>4 DEF Feasible
  <2>6. idx[j] \in Slots /\ LevelOf(idx[j]) = j
    BY <2>5, LevelOfSlot
  <2>7. Dest(idx[j], arr, idx, target) = y
    BY <1>2, <2>3, <2>4, <2>6 DEF Dest
  <2> QED
    BY <2>5, <2>6, <2>7 DEF Occupied
<1>3. CASE ~ (Touches(i, target) /\ y = Cell(i, arr, idx, target))
  <2>1. O[y] = arr[y]
    BY <1>1, <1>3, OutcomeAt
  <2>2. y \in Occupied(arr)
    BY <1>1, <2>1 DEF Occupied
  <2>3. Dest(y, arr, idx, target) = y
    BY <1>3 DEF Dest, Touches, Cell
  <2> QED
    BY <2>2, <2>3
<1> QED
  BY <1>2, <1>3

(* The blocks of the tree are on their own paths, so none is too deep. *)
InReach(a, p) == \A s \in Occupied(a) : LevelOf(s) <= Depths(a[s], p)

LEMMA DepthsType ==
  ASSUME NEW a \in Array, NEW p \in Positions, NEW s \in Occupied(a)
  PROVE  /\ a[s] \in Block /\ a[s].pos \in Positions
         /\ Depths(a[s], p) \in Levels /\ Depths(a[s], p) \in Nat
         /\ LevelOf(s) \in Levels /\ LevelOf(s) \in Nat /\ s \in SlotsOf(LevelOf(s))
<1>1. s \in Slots /\ ~is_empty(a[s]) /\ a[s] \in Block \cup {Empty}
  BY DEF Occupied, Array
<1>2. a[s] \in Block
  BY <1>1, EmptyBlock
<1>3. a[s].pos \in Positions
  BY <1>2 DEF Block
<1>4. \A i \in Levels : i \in Nat
  BY HeapAssumption DEF Levels
<1> QED
  BY <1>1, <1>2, <1>3, <1>4, SharedSuffix, LevelOfSlot DEF Depths

(* Every block keeps its slot or sinks, no deeper than it can go. *)
LEMMA BlocksSink ==
  ASSUME NEW a \in Array, NEW p \in Positions, InReach(a, p), NEW idx, NEW target,
         GreedyPlan(a, p, idx, target), NEW o, o = Outcome(a, idx, target), NEW s \in Occupied(a)
  PROVE  LET d == Dest(s, a, idx, target) IN
         d \in Occupied(o) /\ o[d] = a[s] /\ LevelOf(d) \in LevelOf(s) .. Depths(a[s], p)
<1> DEFINE d == Dest(s, a, idx, target)
           i == LevelOf(s)
<1>1. a \in Array /\ p \in Positions /\ Feasible(a, idx, target) /\ o = Outcome(a, idx, target)
  BY DEF GreedyPlan
<1>2. /\ d \in Slots /\ o[d] = a[s]
      /\ \/ target[i] # -1 /\ s = idx[i] /\ LevelOf(d) = target[i]
         \/ d = s
  BY <1>1, DestIs
<1>3. d \in Occupied(o)
  BY <1>2 DEF Occupied
<1>4. i \in Levels /\ i \in Nat /\ Depths(a[s], p) \in Nat /\ i <= Depths(a[s], p)
  BY <1>1, DepthsType DEF InReach
<1> HIDE DEF d
<1>5. CASE target[i] # -1 /\ s = idx[i] /\ LevelOf(d) = target[i]
  <2>1. target[i] \in i + 1 .. H - 1 /\ target[i] <= Depths(a[s], p)
    BY <1>1, <1>4, <1>5 DEF GreedyPlan, Feasible
  <2>2. target[i] \in Int /\ i <= target[i]
    BY <1>4, <2>1, HeapAssumption
  <2>3. LevelOf(d) \in i .. Depths(a[s], p)
    BY <1>4, <1>5, <2>1, <2>2
  <2> QED
    BY <1>2, <1>3, <2>3 DEF d
<1>6. CASE d = s
  <2>1. LevelOf(d) \in i .. Depths(a[s], p)
    BY <1>4, <1>6
  <2> QED
    BY <1>2, <1>3, <2>1 DEF d
<1> QED
  BY <1>2, <1>5, <1>6
-------------------------------------------------------------------------------
(* Remainders. *)

LEMMA DivMod ==
  ASSUME NEW x \in Int, NEW m \in Int, m > 0
  PROVE  /\ x % m \in Int /\ 0 <= x % m /\ x % m < m
         /\ x \div m \in Int /\ x = ((x \div m) * m) + (x % m)
OBVIOUS

LEMMA DivModUnique ==
  ASSUME NEW m \in Int, m > 0, NEW q \in Int, NEW r \in Int, 0 <= r, r < m
  PROVE  ((q * m) + r) % m = r /\ ((q * m) + r) \div m = q
OBVIOUS

(* The low-order bits of the low-order bits. *)
LEMMA ModHalf ==
  ASSUME NEW x \in Int, NEW m \in Int, m > 0, NEW n, n = 2 * m
  PROVE  (x % n) % m = x % m
<1> DEFINE y == x % n
           q == x \div n
           r == y % m
           e == y \div m
           f == 2 * q + e
<1>0. n \in Int /\ n > 0
  OBVIOUS
<1>1. x = (q * n) + y /\ q \in Int /\ y \in Int
  BY <1>0, DivMod
<1>2. y = (e * m) + r /\ e \in Int /\ r \in Int /\ 0 <= r /\ r < m
  BY <1>1, DivMod
<1> HIDE DEF y, q, r, e
<1>3. x = (f * m) + r /\ f \in Int
  BY <1>1, <1>2
<1> HIDE DEF f
<1>4. x % m = r
  BY <1>2, <1>3, DivModUnique
<1> QED
  BY <1>4 DEF r, y

-------------------------------------------------------------------------------
(* The nodes of a path. *)

(* Positions that agree in their low-order bits agree in fewer of them. *)
LEMMA FewerBits ==
  ASSUME NEW a \in Int, NEW b \in Int, NEW g \in 0 .. H, a % Pow2[g] = b % Pow2[g],
         NEW i \in 0 .. g
  PROVE  a % Pow2[i] = b % Pow2[i]
<1> DEFINE P == {j \in 0 .. g : a % Pow2[g - j] = b % Pow2[g - j]}
<1>0. g \in Nat /\ H \in Nat
  BY HeapAssumption
<1>1. 0 \in P
  BY <1>0
<1>2. ASSUME NEW j \in 1 .. g, j - 1 \in P
      PROVE  j \in P
  <2> DEFINE d == g - j
             m == Pow2[d]
             n == Pow2[d + 1]
  <2>1. d \in Int /\ d + 1 \in 1 .. H /\ d \in 0 .. H /\ (d + 1) - 1 = d /\ g - (j - 1) = d + 1
    BY <1>0
  <2>2. n = 2 * m /\ m \in Int /\ m > 0
    <3> HIDE DEF d
    <3> QED
      BY <2>1, PowersAre
  <2>3. a % n = b % n
    BY <1>2, <2>1
  <2> HIDE DEF n, m
  <2>4. (a % n) % m = a % m /\ (b % n) % m = b % m
    BY <2>2, ModHalf
  <2>5. a % m = b % m
    BY <2>3, <2>4
  <2> QED
    BY <1>0, <2>5 DEF m
<1>3. 0 .. g \subseteq P
  <2> HIDE DEF P
  <2> QED
    BY <1>0, <1>1, <1>2, Downwards
<1>4. g - i \in 0 .. g /\ g - (g - i) = i
  BY <1>0
<1>5. g - i \in P
  BY <1>3, <1>4
<1> QED
  BY <1>4, <1>5

LEMMA PowersGrow ==
  ASSUME NEW e \in 0 .. H, NEW d \in 0 .. e
  PROVE  Pow2[d] <= Pow2[e] /\ (d < e => 2 * Pow2[d] <= Pow2[e])
<1> DEFINE Grown(x) == \A y \in 0 .. x : Pow2[y] <= Pow2[x] /\ (y < x => 2 * Pow2[y] <= Pow2[x])
           P == {x \in 0 .. H : Grown(x)}
<1>0. H \in Nat
  BY HeapAssumption
<1>1. 0 \in P
  BY <1>0, PowersAre
<1>2. ASSUME NEW x \in 1 .. H, x - 1 \in P
      PROVE  x \in P
  <2>1. x - 1 \in 0 .. H /\ x \in 0 .. H /\ \A y \in 0 .. x : y = x \/ y \in 0 .. x - 1
    BY <1>0
  <2>2. Grown(x - 1)
    BY <1>2
  <2>3. ASSUME NEW y \in 0 .. x
        PROVE  Pow2[y] <= Pow2[x] /\ (y < x => 2 * Pow2[y] <= Pow2[x])
    <3>1. y \in 0 .. H
      BY <2>1, <1>0
    <3>2. /\ Pow2[y] \in Nat /\ Pow2[x] \in Nat /\ Pow2[x - 1] \in Nat
          /\ Pow2[x - 1] > 0 /\ Pow2[x] = 2 * Pow2[x - 1]
      BY <2>1, <3>1, PowersAre
    <3>3. CASE y = x
      BY <3>2, <3>3
    <3>4. CASE y \in 0 .. x - 1
      <4>1. Pow2[y] <= Pow2[x - 1]
        BY <2>2, <3>4
      <4> QED
        BY <4>1, <3>2
    <3> QED
      BY <2>1, <3>3, <3>4
  <2> QED
    BY <2>1, <2>3
<1>3. 0 .. H \subseteq P
  <2> HIDE DEF P
  <2> QED
    BY <1>0, <1>1, <1>2, Downwards
<1>4. Grown(e)
  BY <1>3
<1> QED
  BY <1>4

LEMMA LevelPowers ==
  ASSUME NEW d \in Levels
  PROVE  /\ d \in Nat /\ d \in 0 .. H /\ d + 1 \in 0 .. H
         /\ Pow2[d] \in Nat /\ Pow2[d] > 0 /\ Pow2[d + 1] \in Nat /\ Pow2[d + 1] = 2 * Pow2[d]
         /\ Pow2[d + 1] <= Pow2[H] /\ Pow2[H] \in Nat
<1>1. d \in Nat /\ H \in Nat /\ d \in 0 .. H /\ d + 1 \in 1 .. H /\ d + 1 \in 0 .. H
      /\ (d + 1) - 1 = d /\ H \in 0 .. H
  BY HeapAssumption DEF Levels
<1>2. Pow2[d + 1] <= Pow2[H]
  <2>1. d + 1 \in 0 .. H
    BY <1>1
  <2> QED
    BY <1>1, PowersGrow
<1> QED
  BY <1>1, <1>2, PowersAre

LEMMA IndexBounds ==
  ASSUME NEW d \in Levels, NEW p \in Positions
  PROVE  /\ get_index(d, p) \in Int /\ get_index(d, p) >= Pow2[d] - 1
         /\ get_index(d, p) <= Pow2[d + 1] - 2
         /\ get_index(d, p) \in Nodes /\ get_index(d, p) >= 0
<1> DEFINE m == Pow2[d]
           r == p % m
<1>1. m \in Nat /\ m > 0 /\ Pow2[d + 1] = 2 * m /\ 2 * m <= Pow2[H] /\ Pow2[H] \in Nat
  BY LevelPowers
<1>2. p \in Int
  BY HeapAssumption DEF Positions
<1> HIDE DEF m
<1>3. r \in Int /\ 0 <= r /\ r < m
  BY <1>1, <1>2, DivMod
<1>4. get_index(d, p) = (m - 1) + r
  BY DEF get_index, m, r
<1> HIDE DEF r
<1> QED
  BY <1>1, <1>3, <1>4 DEF Nodes, m

(* A deeper node has a greater index. *)
LEMMA DeeperIsGreater ==
  ASSUME NEW d \in Levels, NEW e \in Levels, d < e, NEW p \in Positions, NEW q \in Positions
  PROVE  get_index(d, p) < get_index(e, q)
<1>1. d + 1 \in 0 .. e /\ e \in 0 .. H
  BY HeapAssumption DEF Levels
<1>2. Pow2[d + 1] <= Pow2[e] /\ Pow2[d + 1] \in Nat /\ Pow2[e] \in Nat
  BY <1>1, PowersGrow, LevelPowers
<1>3. get_index(d, p) \in Int /\ get_index(d, p) <= Pow2[d + 1] - 2
  BY IndexBounds
<1>4. get_index(e, q) \in Int /\ get_index(e, q) >= Pow2[e] - 1
  BY IndexBounds
<1> QED
  BY <1>2, <1>3, <1>4

(* Two paths have a node in common exactly where their low-order bits agree.   *)
LEMMA SameNode ==
  ASSUME NEW d \in Levels, NEW e \in Levels, NEW p \in Positions, NEW q \in Positions
  PROVE  get_index(d, p) = get_index(e, q) <=> d = e /\ p % Pow2[d] = q % Pow2[d]
<1>1. ASSUME get_index(d, p) = get_index(e, q)
      PROVE  d = e
  <2>1. d \in Nat /\ e \in Nat /\ get_index(d, p) \in Int /\ get_index(e, q) \in Int
    BY LevelPowers, IndexBounds
  <2>2. ~ (d < e)
    BY <1>1, <2>1, DeeperIsGreater
  <2>3. ~ (e < d)
    BY <1>1, <2>1, DeeperIsGreater
  <2> QED
    BY <2>1, <2>2, <2>3
<1>2. get_index(d, p) = get_index(d, q) <=> p % Pow2[d] = q % Pow2[d]
  <2>1. Pow2[d] \in Int /\ Pow2[d] > 0 /\ p \in Int /\ q \in Int
    BY LevelPowers, HeapAssumption DEF Positions
  <2>2. p % Pow2[d] \in Int /\ q % Pow2[d] \in Int
    BY <2>1, DivMod
  <2> QED
    BY <2>1, <2>2 DEF get_index
<1> QED
  BY <1>1, <1>2

LEMMA DepthIs ==
  ASSUME NEW d \in Levels, NEW p \in Positions
  PROVE  Depth(get_index(d, p)) = d
<1> DEFINE n == get_index(d, p)
<1>1. n \in Int /\ n \in Pow2[d] - 1 .. Pow2[d + 1] - 2
  <2>1. Pow2[d] \in Int /\ Pow2[d + 1] \in Int
    BY LevelPowers
  <2> QED
    BY <2>1, IndexBounds
<1>2. ASSUME NEW e \in Levels, n \in Pow2[e] - 1 .. Pow2[e + 1] - 2
      PROVE  e = d
  <2> HIDE DEF n
  <2>1. /\ d \in Nat /\ e \in Nat /\ Pow2[d] \in Int /\ Pow2[d + 1] \in Int
        /\ Pow2[e] \in Int /\ Pow2[e + 1] \in Int
    BY LevelPowers
  <2>2. ASSUME d < e PROVE FALSE
    <3>1. d + 1 \in 0 .. e /\ e \in 0 .. H
      BY <2>1, <2>2, LevelPowers
    <3>2. Pow2[d + 1] <= Pow2[e]
      BY <3>1, PowersGrow
    <3> QED
      BY <1>1, <1>2, <2>1, <3>2
  <2>3. ASSUME e < d PROVE FALSE
    <3>1. e + 1 \in 0 .. d /\ d \in 0 .. H
      BY <2>1, <2>3, LevelPowers
    <3>2. Pow2[e + 1] <= Pow2[d]
      BY <3>1, PowersGrow
    <3> QED
      BY <1>1, <1>2, <2>1, <3>2
  <2> QED
    BY <2>1, <2>2, <2>3
<1> QED
  BY <1>1, <1>2 DEF Depth

-------------------------------------------------------------------------------
(* Stash and tree as one memory of cells, the slots of a path's array being    *)
(* the cells of the stash and of that path.                                    *)
Content == Block \cup {Empty}
Cells   == ({Stash} \X (0 .. S - 1)) \cup (Nodes \X (0 .. Z - 1))
Memory  == [Cells -> Content]
StashType == [0 .. S - 1 -> Content]
TreeType  == [Nodes -> [0 .. Z - 1 -> Content]]

Mem(st, t) == [c \in Cells |-> IF c[1] = Stash THEN st[c[2]] ELSE t[c[1]][c[2]]]

CellsOn(p) == {c \in Cells : c[1] \in {Stash} \cup PathNodes(p)}
CellOf(s, p) == IF s < S THEN <<Stash, s>>
                ELSE <<get_index((s - S) \div Z, p), (s - S) % Z>>
SlotAt(c) == IF c[1] = Stash THEN c[2] ELSE S + Depth(c[1]) * Z + c[2]

Load(m, p) == [s \in Slots |-> m[CellOf(s, p)]]
Store(m, arr, p) == [c \in Cells |-> IF c \in CellsOn(p) THEN arr[SlotAt(c)] ELSE m[c]]

LEMMA StashNoNode == Stash \notin Nodes /\ Stash < 0 /\ Stash \in Int
BY DEF Stash, Nodes

LEMMA SlotParts ==
  ASSUME NEW s \in Slots, s >= S
  PROVE  LET d == (s - S) \div Z
             z == (s - S) % Z
         IN  d \in Levels /\ z \in 0 .. Z - 1 /\ s = S + d * Z + z /\ LevelOf(s) = d
<1> DEFINE x == s - S
           d == x \div Z
           z == x % Z
<1>1. S \in Nat /\ Z \in Nat /\ Z > 0 /\ H \in Nat /\ H > 1 /\ S > 0
  BY HeapAssumption, EvictionAssumption
<1>2. H * Z \in Nat /\ x \in Nat /\ x < H * Z
  <2>1. H * Z \in Nat
    BY <1>1
  <2> QED
    BY <1>1, <2>1 DEF Slots
<1>3. s = S + x
  BY <1>1, <1>2 DEF Slots
<1> HIDE DEF x
<1>4. z \in Int /\ 0 <= z /\ z < Z /\ d \in Int /\ x = (d * Z) + z
  BY <1>1, <1>2, DivMod
<1> HIDE DEF d, z
<1>5. d >= 0
  <2> SUFFICES ASSUME d <= -1 PROVE FALSE
    BY <1>4
  <2>1. d * Z <= (-1) * Z
    BY <1>1, <1>4
  <2> QED
    BY <1>1, <1>2, <1>4, <2>1
<1>6. d < H
  <2> SUFFICES ASSUME d >= H PROVE FALSE
    BY <1>1, <1>4
  <2>1. d * Z >= H * Z
    BY <1>1, <1>4
  <2> QED
    BY <1>1, <1>2, <1>4, <2>1
<1>7. d \in Levels
  BY <1>1, <1>4, <1>5, <1>6 DEF Levels
<1>8. s \in SlotsOf(d)
  <2>1. d * Z \in Nat
    BY <1>7, SlotBounds
  <2>2. s = S + d * Z + z /\ s \in Int
    BY <1>1, <1>3, <1>4, <2>1
  <2>3. CASE d = 0
    <3>1. s = S + z
      BY <1>1, <1>4, <2>2, <2>3
    <3> QED
      BY <1>1, <1>4, <2>3, <3>1 DEF SlotsOf
  <2>4. CASE d # 0
    BY <1>1, <1>4, <2>1, <2>2, <2>4 DEF SlotsOf
  <2> QED
    BY <2>3, <2>4
<1>9. LevelOf(s) = d
  BY <1>7, <1>8, LevelOfSlot
<1>10. s = S + d * Z + z
  <2>1. d * Z \in Nat
    BY <1>7, SlotBounds
  <2> QED
    BY <1>1, <1>3, <1>4, <2>1
<1> QED
  BY <1>1, <1>4, <1>7, <1>9, <1>10 DEF d, z, x

LEMMA CellOfSlot ==
  ASSUME NEW s \in Slots, NEW p \in Positions
  PROVE  /\ CellOf(s, p) \in CellsOn(p) /\ CellOf(s, p) \in Cells
         /\ SlotAt(CellOf(s, p)) = s
         /\ s < S => CellOf(s, p) = <<Stash, s>> /\ LevelOf(s) = 0
         /\ s >= S => /\ CellOf(s, p)[1] = get_index(LevelOf(s), p)
                      /\ CellOf(s, p)[1] \in Nodes
<1>0. s \in Nat /\ S \in Nat /\ S > 0 /\ Z \in Nat /\ Z > 0
  <2>1. H * Z \in Nat
    BY HeapAssumption, EvictionAssumption
  <2> QED
    BY EvictionAssumption DEF Slots
<1>1. CASE s < S
  <2>1. CellOf(s, p) = <<Stash, s>>
    BY <1>1 DEF CellOf
  <2>2. s \in 0 .. S - 1
    BY <1>0, <1>1
  <2>3. s \in SlotsOf(0) /\ 0 \in Levels
    BY <1>0, <1>1, HeapAssumption DEF SlotsOf, Levels
  <2>4. LevelOf(s) = 0
    BY <2>3, LevelOfSlot
  <2> QED
    BY <1>0, <1>1, <2>1, <2>2, <2>4 DEF Cells, CellsOn, SlotAt
<1>2. CASE s >= S
  <2> DEFINE d == (s - S) \div Z
             z == (s - S) % Z
             n == get_index(d, p)
  <2>1. d \in Levels /\ z \in 0 .. Z - 1 /\ s = S + d * Z + z /\ LevelOf(s) = d
    BY <1>2, SlotParts
  <2>2. CellOf(s, p) = <<n, z>>
    BY <1>0, <1>2 DEF CellOf
  <2> HIDE DEF d, z
  <2>3. n \in Nodes /\ n \in PathNodes(p) /\ Depth(n) = d
    BY <2>1, IndexBounds, DepthIs DEF PathNodes
  <2> HIDE DEF n
  <2>4. <<n, z>> \in Cells /\ <<n, z>> \in CellsOn(p)
    BY <2>1, <2>3 DEF Cells, CellsOn
  <2>5. SlotAt(<<n, z>>) = s
    BY <2>1, <2>3, StashNoNode DEF SlotAt
  <2>6. CellOf(s, p)[1] = n /\ ~(s < S)
    BY <1>0, <1>2, <2>2
  <2> QED
    BY <1>0, <1>2, <2>1, <2>2, <2>3, <2>4, <2>5, <2>6 DEF n
<1> QED
  BY <1>0, <1>1, <1>2

LEMMA SlotOfCell ==
  ASSUME NEW p \in Positions, NEW c \in CellsOn(p)
  PROVE  SlotAt(c) \in Slots /\ CellOf(SlotAt(c), p) = c
<1>0. S \in Nat /\ S > 0 /\ Z \in Nat /\ Z > 0 /\ H \in Nat /\ H * Z \in Nat
  BY HeapAssumption, EvictionAssumption
<1>1. CASE c[1] = Stash
  <2>1. PICK s \in 0 .. S - 1 : c = <<Stash, s>>
    BY <1>1, StashNoNode DEF CellsOn, Cells
  <2>2. SlotAt(c) = s
    BY <2>1 DEF SlotAt
  <2>3. s \in Slots /\ s < S
    BY <1>0 DEF Slots
  <2> QED
    BY <2>1, <2>2, <2>3 DEF CellOf
<1>2. CASE c[1] # Stash
  <2>1. PICK n \in Nodes, z \in 0 .. Z - 1 : c = <<n, z>>
    BY <1>2 DEF CellsOn, Cells
  <2>2. n \in PathNodes(p)
    BY <1>2, <2>1 DEF CellsOn
  <2>3. PICK d \in Levels : n = get_index(d, p)
    BY <2>2 DEF PathNodes
  <2>4. Depth(n) = d /\ d * Z \in Nat /\ d * Z + Z <= H * Z /\ d \in Nat
    BY <2>3, DepthIs, SlotBounds
  <2> DEFINE s == S + d * Z + z
             x == d * Z + z
  <2>5. SlotAt(c) = s
    BY <1>2, <2>1, <2>4 DEF SlotAt
  <2>6. s \in Slots /\ ~(s < S) /\ s - S = x
    BY <1>0, <2>4 DEF Slots
  <2>7. x % Z = z /\ x \div Z = d
    BY <1>0, <2>4, DivModUnique
  <2> HIDE DEF x, s
  <2>8. CellOf(s, p) = <<get_index(d, p), z>>
    BY <2>6, <2>7 DEF CellOf
  <2> QED
    BY <2>1, <2>3, <2>5, <2>6, <2>8
<1> QED
  BY <1>1, <1>2

LEMMA CellShape ==
  /\ \A c \in Cells : c = <<c[1], c[2]>>
  /\ \A c \in Cells : c[1] = Stash => c[2] \in 0 .. S - 1
  /\ \A c \in Cells : c[1] # Stash => c[1] \in Nodes /\ c[2] \in 0 .. Z - 1
BY StashNoNode DEF Cells

LEMMA MemType ==
  ASSUME NEW st \in StashType, NEW t \in TreeType
  PROVE  Mem(st, t) \in Memory
<1>1. ASSUME NEW c \in Cells
      PROVE  (IF c[1] = Stash THEN st[c[2]] ELSE t[c[1]][c[2]]) \in Content
  BY StashNoNode DEF Cells, StashType, TreeType
<1> QED
  BY <1>1 DEF Mem, Memory

LEMMA LoadType ==
  ASSUME NEW m \in Memory, NEW p \in Positions
  PROVE  Load(m, p) \in Array
BY CellOfSlot DEF Load, Memory, Array, Content

LEMMA LoadAt ==
  ASSUME NEW m, NEW p \in Positions, NEW s \in Slots
  PROVE  Load(m, p)[s] = m[CellOf(s, p)]
BY DEF Load

(* The code's copies of a path into the array and back. *)
LEMMA ReadIs ==
  ASSUME NEW st \in StashType, NEW t \in TreeType, NEW p \in Positions
  PROVE  read_path(st, t, p) = Load(Mem(st, t), p)
<1>1. ASSUME NEW s \in Slots
      PROVE  Mem(st, t)[CellOf(s, p)]
             = IF s < S THEN st[s] ELSE t[get_index((s - S) \div Z, p)][(s - S) % Z]
  <2>1. CellOf(s, p) \in Cells /\ (~(s < S) => CellOf(s, p)[1] \in Nodes)
    <3>1. s < S \/ s >= S
      BY EvictionAssumption, HeapAssumption DEF Slots
    <3> QED
      BY <3>1, CellOfSlot
  <2>2. CASE s < S
    BY <2>1, <2>2 DEF Mem, CellOf
  <2>3. CASE ~(s < S)
    <3>1. CellOf(s, p) = <<get_index((s - S) \div Z, p), (s - S) % Z>>
      BY <2>3 DEF CellOf
    <3>2. CellOf(s, p)[1] # Stash
      BY <2>1, <2>3, StashNoNode
    <3> QED
      BY <2>1, <2>3, <3>1, <3>2 DEF Mem
  <2> QED
    BY <2>2, <2>3
<1> QED
  BY <1>1 DEF read_path, Load

LEMMA WriteIs ==
  ASSUME NEW st \in StashType, NEW t \in TreeType, NEW p \in Positions, NEW out \in Array,
         NEW top, top = [s \in 0 .. S - 1 |-> out[s]]
  PROVE  /\ top \in StashType /\ write_path(out, t, p) \in TreeType
         /\ Mem(top, write_path(out, t, p)) = Store(Mem(st, t), out, p)
<1> DEFINE u == write_path(out, t, p)
<1>1. ASSUME NEW c \in CellsOn(p)
      PROVE  out[SlotAt(c)] \in Content
  BY SlotOfCell DEF Array, Content
<1>2. ASSUME NEW s \in 0 .. S - 1
      PROVE  /\ <<Stash, s>> \in CellsOn(p) /\ SlotAt(<<Stash, s>>) = s
             /\ top[s] = out[s] /\ out[s] \in Content
  <2>1. <<Stash, s>> \in CellsOn(p)
    BY DEF CellsOn, Cells
  <2>2. SlotAt(<<Stash, s>>) = s
    BY DEF SlotAt
  <2> QED
    BY <1>1, <2>1, <2>2
<1>3. ASSUME NEW n \in PathNodes(p), NEW z \in 0 .. Z - 1
      PROVE  /\ n \in Nodes /\ <<n, z>> \in CellsOn(p) /\ SlotAt(<<n, z>>) = S + Depth(n) * Z + z
             /\ u[n][z] = out[S + Depth(n) * Z + z] /\ u[n][z] \in Content
             /\ u[n] = [y \in 0 .. Z - 1 |-> out[S + Depth(n) * Z + y]]
  <2>1. n \in Nodes
    BY IndexBounds DEF PathNodes
  <2>2. <<n, z>> \in CellsOn(p)
    BY <2>1 DEF CellsOn, Cells
  <2>3. SlotAt(<<n, z>>) = S + Depth(n) * Z + z
    BY <2>1, StashNoNode DEF SlotAt
  <2>4. u[n] = [y \in 0 .. Z - 1 |-> out[S + Depth(n) * Z + y]]
    BY <2>1 DEF write_path
  <2>5. u[n][z] = out[S + Depth(n) * Z + z]
    BY <2>4
  <2>6. u[n][z] \in Content
    BY <1>1, <2>2, <2>3, <2>5
  <2> QED
    BY <2>1, <2>2, <2>3, <2>4, <2>5, <2>6
<1>4. ASSUME NEW n \in Nodes, n \notin PathNodes(p)
      PROVE  u[n] = t[n]
  BY <1>4 DEF write_path
<1>5. top \in StashType
  BY <1>2 DEF StashType
<1>6. u \in TreeType
  <2>1. ASSUME NEW n \in Nodes
        PROVE  u[n] \in [0 .. Z - 1 -> Content]
    <3>1. CASE n \in PathNodes(p)
      <4>1. 0 \in 0 .. Z - 1
        BY EvictionAssumption
      <4>2. u[n] = [y \in 0 .. Z - 1 |-> out[S + Depth(n) * Z + y]]
        BY <1>3, <3>1, <4>1
      <4>3. \A y \in 0 .. Z - 1 : u[n][y] \in Content
        BY <1>3, <3>1
      <4> HIDE DEF u
      <4> QED
        BY <4>2, <4>3
    <3>2. CASE n \notin PathNodes(p)
      BY <1>4, <3>2 DEF TreeType
    <3> QED
      BY <3>1, <3>2
  <2>2. u = [n \in Nodes |-> u[n]]
    BY DEF write_path
  <2> HIDE DEF u
  <2> QED
    BY <2>1, <2>2 DEF TreeType
<1>7. ASSUME NEW c \in Cells
      PROVE  Mem(top, u)[c] = Store(Mem(st, t), out, p)[c]
  <2> HIDE DEF u
  <2>1. CASE c[1] = Stash
    <3>1. PICK s \in 0 .. S - 1 : c = <<Stash, s>>
      BY <2>1, StashNoNode DEF Cells
    <3> QED
      BY <1>2, <2>1, <3>1 DEF Mem, Store
  <2>2. ASSUME c[1] # Stash, NEW n \in Nodes, NEW z \in 0 .. Z - 1, c = <<n, z>>
        PROVE  Mem(top, u)[c] = Store(Mem(st, t), out, p)[c]
    <3>1. Mem(top, u)[c] = u[n][z] /\ Mem(st, t)[c] = t[n][z]
      BY <2>2 DEF Mem
    <3>2. CASE n \in PathNodes(p)
      BY <1>3, <2>2, <3>1, <3>2 DEF Store
    <3>3. CASE n \notin PathNodes(p)
      <4>1. c \notin CellsOn(p)
        BY <2>2, <3>3 DEF CellsOn
      <4> QED
        BY <1>4, <3>1, <3>3, <4>1 DEF Store
    <3> QED
      BY <3>2, <3>3
  <2>3. CASE c[1] # Stash
    <3>1. PICK n \in Nodes, z \in 0 .. Z - 1 : c = <<n, z>>
      BY <2>3 DEF Cells
    <3> QED
      BY <2>2, <2>3, <3>1
  <2> QED
    BY <2>1, <2>3
<1>8. Mem(top, u) = [c \in Cells |-> Mem(top, u)[c]]
      /\ Store(Mem(st, t), out, p) = [c \in Cells |-> Store(Mem(st, t), out, p)[c]]
  BY DEF Mem, Store
<1>9. Mem(top, u) = Store(Mem(st, t), out, p)
  <2> HIDE DEF u
  <2> QED
    BY <1>7, <1>8
<1> QED
  BY <1>5, <1>6, <1>9

LEMMA StoreType ==
  ASSUME NEW m \in Memory, NEW arr \in Array, NEW p \in Positions
  PROVE  Store(m, arr, p) \in Memory
<1>1. ASSUME NEW c \in Cells
      PROVE  (IF c \in CellsOn(p) THEN arr[SlotAt(c)] ELSE m[c]) \in Content
  BY SlotOfCell DEF Array, Content, Memory
<1> QED
  BY <1>1 DEF Store, Memory

LEMMA StoreAt ==
  ASSUME NEW m, NEW arr, NEW p \in Positions
  PROVE  /\ \A s \in Slots : Store(m, arr, p)[CellOf(s, p)] = arr[s]
         /\ \A c \in CellsOn(p) : Store(m, arr, p)[c] = arr[SlotAt(c)]
         /\ \A c \in Cells \ CellsOn(p) : Store(m, arr, p)[c] = m[c]
BY CellOfSlot DEF Store, CellsOn

LEMMA LoadStore ==
  ASSUME NEW m, NEW arr \in Array, NEW p \in Positions
  PROVE  Load(Store(m, arr, p), p) = arr
<1>1. \A s \in Slots : Load(Store(m, arr, p), p)[s] = arr[s]
  BY StoreAt, LoadAt
<1> QED
  BY <1>1 DEF Load, Array

LEMMA StoreStore ==
  ASSUME NEW m, NEW arr, NEW out, NEW p
  PROVE  Store(Store(m, arr, p), out, p) = Store(m, out, p)
BY DEF Store

-------------------------------------------------------------------------------
(* An eviction on the memory. *)

FullCells(m) == {c \in Cells : ~is_empty(m[c])}

(* No key is in two cells; every block is in the stash or on its own path.     *)
Distinct(m) == \A c, d \in FullCells(m) : m[c].key = m[d].key => c = d
OnPaths(m) == \A c \in FullCells(m) : c[1] \in {Stash} \cup PathNodes(m[c].pos)
Good(m) == m \in Memory /\ Distinct(m) /\ OnPaths(m)

(* A block stays in its place or goes down its path, and never into the root.  *)
Lower(a, b, pos) == b = a \/ (b > a /\ b > 0 /\ b \in PathNodes(pos))
Goes(m, n, c, d) == n[d] = m[c] /\ Lower(c[1], d[1], m[c].pos)

(* Each block of m is somewhere in n, and n has no others. *)
Sinks(m, n) == /\ \A c \in FullCells(m) : \E d \in FullCells(n) : Goes(m, n, c, d)
               /\ \A d \in FullCells(n) : \E c \in FullCells(m) : Goes(m, n, c, d)

LEMMA FullIsBlock ==
  ASSUME NEW m \in Memory, NEW c \in FullCells(m)
  PROVE  c \in Cells /\ m[c] \in Block /\ m[c].pos \in Positions /\ m[c].key \in Key
BY EmptyBlock DEF FullCells, Memory, Content, Block

(* A full cell on the path is an occupied slot of the array, and back. *)
LEMMA OccupiedIsFull ==
  ASSUME NEW m \in Memory, NEW p \in Positions
  PROVE  /\ \A s \in Occupied(Load(m, p)) : s \in Slots /\ CellOf(s, p) \in FullCells(m)
         /\ \A c \in FullCells(m) \cap CellsOn(p) :
              SlotAt(c) \in Occupied(Load(m, p)) /\ CellOf(SlotAt(c), p) = c
BY CellOfSlot, SlotOfCell, LoadAt DEF Occupied, FullCells

LEMMA LoadReach ==
  ASSUME NEW m, Good(m), NEW p \in Positions
  PROVE  InReach(Load(m, p), p)
<1> DEFINE a == Load(m, p)
<1>0. m \in Memory /\ a \in Array
  BY LoadType DEF Good
<1> SUFFICES ASSUME NEW s \in Occupied(a)
             PROVE  LevelOf(s) <= Depths(a[s], p)
  BY DEF InReach
<1> DEFINE c == CellOf(s, p)
           b == a[s]
           i == LevelOf(s)
<1>1. s \in Slots /\ c \in FullCells(m) /\ b = m[c]
  BY <1>0, OccupiedIsFull, LoadAt
<1>2. b.pos \in Positions /\ Depths(b, p) \in Nat /\ i \in Levels /\ i \in Nat
  BY <1>0, DepthsType
<1>3. CASE s < S
  BY <1>1, <1>2, <1>3, CellOfSlot
<1>4. CASE s >= S
  <2>1. c[1] = get_index(i, p) /\ c[1] # Stash
    BY <1>1, <1>4, CellOfSlot, StashNoNode
  <2>2. c[1] \in PathNodes(b.pos)
    BY <1>1, <2>1 DEF Good, OnPaths
  <2>3. PICK d \in Levels : c[1] = get_index(d, b.pos)
    BY <2>2 DEF PathNodes
  <2>4. i = d /\ p % Pow2[i] = b.pos % Pow2[i]
    <3> HIDE DEF i, b
    <3>1. get_index(i, p) = get_index(d, b.pos)
      BY <2>1, <2>3
    <3> QED
      BY <1>2, <3>1, SameNode
  <2>5. i \in Shared(b.pos, p)
    BY <1>2, <2>4 DEF Shared
  <2> QED
    BY <1>2, <2>5, SharedSuffix DEF Depths
<1>5. s < S \/ s >= S
  BY <1>1, HeapAssumption, EvictionAssumption DEF Slots
<1> QED
  BY <1>3, <1>4, <1>5

(* Down to where it shares bits with p, the path of p is a block's own path.   *)
LEMMA OwnPath ==
  ASSUME NEW b, b.pos \in Positions, NEW p \in Positions,
         NEW e \in Levels, e <= Depths(b, p)
  PROVE  get_index(e, p) \in PathNodes(b.pos)
<1> DEFINE g == Depths(b, p)
<1>1. g \in Levels /\ b.pos % Pow2[g] = p % Pow2[g]
  BY SharedSuffix DEF Depths, Shared
<1>2. g \in 0 .. H /\ e \in 0 .. g /\ b.pos \in Int /\ p \in Int
  BY <1>1, HeapAssumption DEF Levels, Positions
<1> HIDE DEF g
<1>3. b.pos % Pow2[e] = p % Pow2[e]
  BY <1>1, <1>2, FewerBits
<1>4. get_index(e, p) = get_index(e, b.pos)
  BY <1>3, SameNode
<1> QED
  BY <1>4 DEF PathNodes

LEMMA BlockGoes ==
  ASSUME NEW m, Good(m), NEW p \in Positions, NEW a, a = Load(m, p),
         NEW idx, NEW target, GreedyPlan(a, p, idx, target),
         NEW o, o = Outcome(a, idx, target), NEW s \in Occupied(a)
  PROVE  LET d == Dest(s, a, idx, target) IN
         /\ d \in Occupied(o)
         /\ Goes(m, Store(m, o, p), CellOf(s, p), CellOf(d, p))
<1> DEFINE d == Dest(s, a, idx, target)
           c == CellOf(s, p)
           e == CellOf(d, p)
           i == LevelOf(s)
           j == LevelOf(d)
<1>1. m \in Memory /\ a \in Array /\ InReach(a, p)
  BY LoadType, LoadReach DEF Good
<1>2. d \in Occupied(o) /\ o[d] = a[s] /\ j \in i .. Depths(a[s], p)
  BY <1>1, BlocksSink
<1>3. s \in Slots /\ d \in Slots /\ a[s] = m[c] /\ c \in FullCells(m)
  BY <1>1, <1>2, LoadAt, OccupiedIsFull DEF Occupied
<1>4. Store(m, o, p)[e] = m[c]
  BY <1>2, <1>3, StoreAt
<1>5. Lower(c[1], e[1], m[c].pos)
  <2>1. Feasible(a, idx, target)
    BY DEF GreedyPlan
  <2>2. \/ d = s
        \/ target[i] # -1 /\ j = target[i]
    BY <1>1, <2>1, DestIs
  <2>3. CASE d = s
    BY <2>3 DEF Lower
  <2>4. CASE target[i] # -1 /\ j = target[i]
    <3>1. i \in Levels /\ i \in Nat /\ a[s].pos \in Positions /\ Depths(a[s], p) \in Nat
      BY <1>1, DepthsType
    <3>2. j \in i + 1 .. H - 1
      BY <2>1, <2>4, <3>1 DEF Feasible
    <3>3. j \in Levels /\ i < j /\ 0 < j /\ 0 \in Levels /\ j <= Depths(a[s], p)
      BY <1>2, <3>1, <3>2, HeapAssumption DEF Levels
    <3> HIDE DEF i, j
    <3>4. ~ (d < S) /\ (d < S \/ d >= S) /\ (s < S \/ s >= S)
      <4>1. d < S => j = 0
        BY <1>3, CellOfSlot DEF j
      <4>2. \A x \in Slots : x < S \/ x >= S
        BY HeapAssumption, EvictionAssumption DEF Slots
      <4> QED
        BY <1>3, <3>3, <4>1, <4>2
    <3>5. e[1] = get_index(j, p)
      BY <1>3, <3>4, CellOfSlot DEF j
    <3>6. e[1] \in PathNodes(m[c].pos)
      BY <1>3, <3>1, <3>3, <3>5, OwnPath
    <3>7. e[1] > 0 /\ e[1] \in Int
      BY <3>3, <3>5, IndexBounds, DeeperIsGreater
    <3>8. e[1] > c[1]
      <4>1. CASE s < S
        <5>1. c[1] = Stash
          BY <1>3, <4>1, CellOfSlot
        <5> QED
          BY <3>7, <5>1, StashNoNode
      <4>2. CASE s >= S
        <5>1. c[1] = get_index(i, p)
          BY <1>3, <4>2, CellOfSlot DEF i
        <5>2. get_index(i, p) < get_index(j, p) /\ get_index(i, p) \in Int
          BY <3>1, <3>3, DeeperIsGreater, IndexBounds
        <5> QED
          BY <3>5, <3>7, <5>1, <5>2
      <4> QED
        BY <3>4, <4>1, <4>2
    <3> QED
      BY <3>6, <3>7, <3>8 DEF Lower
  <2> QED
    BY <2>2, <2>3, <2>4
<1> QED
  BY <1>2, <1>4, <1>5 DEF Goes

(* One eviction: the memory stays good and its blocks only sink.               *)
LEMMA EvictionSinksBlocks ==
  ASSUME NEW m, Good(m), NEW p \in Positions, NEW out \in evict_once_fast(Load(m, p), p),
         NEW n, n = Store(m, out, p)
  PROVE  out \in Array /\ Good(n) /\ Sinks(m, n)
<1> DEFINE a == Load(m, p)
<1>1. m \in Memory /\ a \in Array
  BY LoadType DEF Good
<1>2. PICK idx, target : GreedyPlan(a, p, idx, target) /\ out = Outcome(a, idx, target)
  BY <1>1, EvictionMoves
<1> HIDE DEF a
<1>3. Feasible(a, idx, target)
  BY <1>2 DEF GreedyPlan
<1>4. out \in Array
  BY <1>1, <1>2, <1>3, OutcomeArray
<1>5. n \in Memory
  BY <1>1, <1>4, StoreType
<1> DEFINE To(s) == Dest(s, a, idx, target)
<1>6. ASSUME NEW s \in Occupied(a)
      PROVE  /\ To(s) \in Slots /\ CellOf(To(s), p) \in FullCells(n) \cap CellsOn(p)
             /\ Goes(m, n, CellOf(s, p), CellOf(To(s), p))
  <2>1. To(s) \in Occupied(out) /\ Goes(m, n, CellOf(s, p), CellOf(To(s), p))
    BY <1>2, BlockGoes DEF a
  <2>2. To(s) \in Slots /\ ~is_empty(out[To(s)])
    BY <2>1 DEF Occupied
  <2> HIDE DEF To
  <2>3. CellOf(To(s), p) \in CellsOn(p) /\ CellOf(To(s), p) \in Cells
        /\ n[CellOf(To(s), p)] = out[To(s)]
    BY <2>2, CellOfSlot, StoreAt
  <2> QED
    BY <2>1, <2>2, <2>3 DEF FullCells
<1>7. ASSUME NEW c \in FullCells(m), c \notin CellsOn(p)
      PROVE  c \in FullCells(n) /\ Goes(m, n, c, c)
  BY <1>7, StoreAt DEF FullCells, Goes, Lower
<1> DEFINE From(c, d) ==
             \/ d \notin CellsOn(p) /\ c = d
             \/ \E s \in Occupied(a) : c = CellOf(s, p) /\ d = CellOf(To(s), p)
<1>8. ASSUME NEW d \in FullCells(n)
      PROVE  \E c \in FullCells(m) : Goes(m, n, c, d) /\ From(c, d)
  <2>1. CASE d \notin CellsOn(p)
    <3>1. d \in FullCells(m)
      BY <2>1, StoreAt DEF FullCells
    <3> QED
      BY <1>7, <2>1, <3>1
  <2>2. CASE d \in CellsOn(p)
    <3>1. SlotAt(d) \in Slots /\ CellOf(SlotAt(d), p) = d /\ n[d] = out[SlotAt(d)]
      BY <2>2, SlotOfCell, StoreAt
    <3>2. SlotAt(d) \in Occupied(out)
      BY <3>1 DEF Occupied, FullCells
    <3>3. PICK s \in Occupied(a) : To(s) = SlotAt(d)
      BY <1>1, <1>2, <1>3, <3>2, DestOnto
    <3>4. CellOf(s, p) \in FullCells(m)
      BY <1>1, OccupiedIsFull DEF a
    <3>5. d = CellOf(To(s), p)
      BY <3>1, <3>3
    <3>6. Goes(m, n, CellOf(s, p), d)
      BY <1>6, <3>5
    <3> HIDE DEF To
    <3> QED
      BY <3>4, <3>5, <3>6
  <2> QED
    BY <2>1, <2>2
<1>9. Sinks(m, n)
  <2>1. ASSUME NEW c \in FullCells(m)
        PROVE  \E d \in FullCells(n) : Goes(m, n, c, d)
    <3>1. CASE c \notin CellsOn(p)
      BY <1>7, <3>1
    <3>2. CASE c \in CellsOn(p)
      <4>1. SlotAt(c) \in Occupied(a) /\ CellOf(SlotAt(c), p) = c
        BY <1>1, <3>2, OccupiedIsFull DEF a
      <4> QED
        BY <1>6, <4>1
    <3> QED
      BY <3>1, <3>2
  <2> HIDE DEF From
  <2> QED
    BY <1>8, <2>1 DEF Sinks
<1>10. Distinct(n)
  <2> SUFFICES ASSUME NEW d \in FullCells(n), NEW e \in FullCells(n), n[d].key = n[e].key
               PROVE  d = e
    BY DEF Distinct
  <2>1. PICK c \in FullCells(m) : Goes(m, n, c, d) /\ From(c, d)
    BY <1>8
  <2>2. PICK b \in FullCells(m) : Goes(m, n, b, e) /\ From(b, e)
    BY <1>8
  <2>3. c = b
    BY <2>1, <2>2 DEF Goes, Good, Distinct
  <2>4. \A s \in Occupied(a) : CellOf(s, p) \in CellsOn(p) /\ SlotAt(CellOf(s, p)) = s
                               /\ CellOf(To(s), p) \in CellsOn(p)
    <3>1. \A s \in Occupied(a) : s \in Slots
      BY DEF Occupied
    <3> HIDE DEF To
    <3> QED
      BY <1>6, <3>1, CellOfSlot
  <2> HIDE DEF To
  <2> QED
    BY <2>1, <2>2, <2>3, <2>4
<1>11. OnPaths(n)
  <2> SUFFICES ASSUME NEW d \in FullCells(n)
               PROVE  d[1] \in {Stash} \cup PathNodes(n[d].pos)
    BY DEF OnPaths
  <2>1. PICK c \in FullCells(m) : Goes(m, n, c, d)
    BY <1>8
  <2> QED
    BY <2>1 DEF Goes, Lower, Good, OnPaths
<1> QED
  BY <1>4, <1>5, <1>9, <1>10, <1>11 DEF Good

LEMMA SinksTwice ==
  ASSUME NEW m \in Memory, NEW n \in Memory, NEW o \in Memory, Sinks(m, n), Sinks(n, o)
  PROVE  Sinks(m, o)
<1>1. ASSUME NEW c \in FullCells(m), NEW d \in FullCells(n), NEW e \in FullCells(o),
             Goes(m, n, c, d), Goes(n, o, d, e)
      PROVE  Goes(m, o, c, e)
  <2>1. \A x \in Cells : x[1] \in Int
    BY StashNoNode DEF Cells, Nodes
  <2>2. c[1] \in Int /\ d[1] \in Int /\ e[1] \in Int
    BY <2>1 DEF FullCells
  <2> QED
    BY <1>1, <2>2 DEF Goes, Lower
<1>2. ASSUME NEW c \in FullCells(m)
      PROVE  \E e \in FullCells(o) : Goes(m, o, c, e)
  <2>1. PICK d \in FullCells(n) : Goes(m, n, c, d)
    BY DEF Sinks
  <2>2. PICK e \in FullCells(o) : Goes(n, o, d, e)
    BY DEF Sinks
  <2> QED
    BY <1>1, <2>1, <2>2
<1>3. ASSUME NEW e \in FullCells(o)
      PROVE  \E c \in FullCells(m) : Goes(m, o, c, e)
  <2>1. PICK d \in FullCells(n) : Goes(n, o, d, e)
    BY DEF Sinks
  <2>2. PICK c \in FullCells(m) : Goes(m, n, c, d)
    BY DEF Sinks
  <2> QED
    BY <1>1, <2>1, <2>2
<1> QED
  BY <1>2, <1>3 DEF Sinks

-------------------------------------------------------------------------------
(* The scan of an operation. *)

HitCells(m, k, p) == {c \in FullCells(m) \cap CellsOn(p) : m[c].key = k}

(* The slots the scan of the code stops at. *)
LEMMA HitSlots ==
  ASSUME NEW m \in Memory, NEW k, NEW p \in Positions
  PROVE  /\ \A s \in Slots : Matches(Load(m, p)[s], k) => CellOf(s, p) \in HitCells(m, k, p)
         /\ \A c \in HitCells(m, k, p) :
              /\ SlotAt(c) \in Slots /\ CellOf(SlotAt(c), p) = c
              /\ Matches(Load(m, p)[SlotAt(c)], k)
<1>1. ASSUME NEW s \in Slots, Matches(Load(m, p)[s], k)
      PROVE  CellOf(s, p) \in HitCells(m, k, p)
  BY <1>1, CellOfSlot, LoadAt DEF Matches, HitCells, FullCells
<1>2. ASSUME NEW c \in HitCells(m, k, p)
      PROVE  /\ SlotAt(c) \in Slots /\ CellOf(SlotAt(c), p) = c
             /\ Matches(Load(m, p)[SlotAt(c)], k)
  <2>1. c \in CellsOn(p) /\ ~is_empty(m[c]) /\ m[c].key = k
    BY DEF HitCells, FullCells
  <2>2. SlotAt(c) \in Slots /\ CellOf(SlotAt(c), p) = c
    BY <2>1, SlotOfCell
  <2> QED
    BY <2>1, <2>2, LoadAt DEF Matches
<1> QED
  BY <1>1, <1>2

-------------------------------------------------------------------------------
(* Taking the block of a key off the path, and storing one in the stash.       *)

LEMMA RemovedIs ==
  ASSUME NEW m, Good(m), NEW k, NEW p \in Positions, NEW r, r = Removed(Load(m, p), k),
         NEW n, n = Store(m, r, p)
  PROVE  /\ r \in Array /\ Good(n) /\ Load(n, p) = r
         /\ FullCells(n) = FullCells(m) \ HitCells(m, k, p)
         /\ \A c \in FullCells(n) : n[c] = m[c]
<1>1. m \in Memory /\ Load(m, p) \in Array
  BY LoadType DEF Good
<1>2. r \in Array
  BY <1>1 DEF Removed, Array
<1>3. n \in Memory /\ Load(n, p) = r
  BY <1>1, <1>2, StoreType, LoadStore
<1>4. ASSUME NEW c \in Cells
      PROVE  n[c] = IF c \in HitCells(m, k, p) THEN Empty ELSE m[c]
  <2>1. CASE c \notin CellsOn(p)
    BY <2>1, StoreAt DEF HitCells
  <2>2. CASE c \in CellsOn(p)
    <3>1. SlotAt(c) \in Slots /\ CellOf(SlotAt(c), p) = c
      BY <2>2, SlotOfCell
    <3>2. n[c] = r[SlotAt(c)] /\ Load(m, p)[SlotAt(c)] = m[c]
      BY <2>2, <3>1, StoreAt, LoadAt
    <3>3. r[SlotAt(c)] = IF Matches(m[c], k) THEN Empty ELSE m[c]
      BY <3>1, <3>2 DEF Removed
    <3>4. Matches(m[c], k) <=> c \in HitCells(m, k, p)
      BY <2>2 DEF Matches, HitCells, FullCells
    <3> QED
      BY <3>2, <3>3, <3>4
  <2> QED
    BY <2>1, <2>2
<1>5. FullCells(n) = FullCells(m) \ HitCells(m, k, p)
  BY <1>4, EmptyBlock DEF FullCells
<1>6. \A c \in FullCells(n) : c \in FullCells(m) /\ c \notin HitCells(m, k, p) /\ n[c] = m[c]
  BY <1>4, <1>5 DEF FullCells
<1>7. Good(n)
  BY <1>3, <1>6 DEF Good, Distinct, OnPaths
<1> QED
  BY <1>2, <1>3, <1>5, <1>6, <1>7

LEMMA StoreLoad ==
  ASSUME NEW m \in Memory, NEW p \in Positions
  PROVE  Store(m, Load(m, p), p) = m
<1>1. ASSUME NEW c \in Cells
      PROVE  Store(m, Load(m, p), p)[c] = m[c]
  <2>1. CASE c \in CellsOn(p)
    BY <2>1, StoreAt, SlotOfCell, LoadAt
  <2>2. CASE c \notin CellsOn(p)
    BY <2>2, StoreAt
  <2> QED
    BY <2>1, <2>2
<1> QED
  BY <1>1 DEF Store, Memory

LEMMA FirstEmpty ==
  ASSUME NEW r, NEW block,
         NEW empties, empties = {s \in 0 .. S - 1 : is_empty(r[s])}
  PROVE  /\ empties = {} => write_block_to_empty_slot(r, block) = r
         /\ empties # {} => /\ First(empties) \in empties
                            /\ write_block_to_empty_slot(r, block)
                               = [r EXCEPT ![First(empties)] = block]
<1>1. empties # {} => First(empties) \in empties
  <2>1. empties \in SUBSET Nat
    BY EvictionAssumption
  <2> QED
    BY <2>1, FirstIs
<1> QED
  BY <1>1 DEF write_block_to_empty_slot

(* Storing an empty block changes nothing. *)
LEMMA NothingStored ==
  ASSUME NEW r \in Array
  PROVE  write_block_to_empty_slot(r, Empty) = r
<1> DEFINE empties == {s \in 0 .. S - 1 : is_empty(r[s])}
           f == First(empties)
<1>1. CASE empties = {}
  BY <1>1, FirstEmpty
<1>2. CASE empties # {}
  <2>1. f \in empties /\ write_block_to_empty_slot(r, Empty) = [r EXCEPT ![f] = Empty]
    BY <1>2, FirstEmpty
  <2>2. f \in Slots
    <3>1. H * Z \in Nat /\ S \in Nat
      BY HeapAssumption, EvictionAssumption
    <3> QED
      BY <2>1, <3>1 DEF Slots
  <2>3. r[f] = Empty
    BY <2>1, <2>2, EmptyBlock DEF Array
  <2> HIDE DEF f
  <2> QED
    BY <2>1, <2>2, <2>3 DEF Array
<1> QED
  BY <1>1, <1>2

LEMMA StashCell ==
  ASSUME NEW s \in 0 .. S - 1, NEW p \in Positions
  PROVE  /\ s \in Slots /\ CellOf(s, p) = <<Stash, s>> /\ <<Stash, s>> \in CellsOn(p)
         /\ <<Stash, s>> \in Cells /\ SlotAt(<<Stash, s>>) = s
<1>1. s \in Slots /\ s < S
  <2>1. H * Z \in Nat /\ S \in Nat
    BY HeapAssumption, EvictionAssumption
  <2> QED
    BY <2>1 DEF Slots
<1>2. CellOf(s, p) = <<Stash, s>>
  BY <1>1 DEF CellOf
<1> QED
  BY <1>1, <1>2, CellOfSlot

-------------------------------------------------------------------------------
(* One eviction from the slots of stash and tree, and back into them. *)

LEMMA EvictedIs ==
  ASSUME NEW st \in StashType, NEW t \in TreeType, NEW p \in Positions, NEW arr \in Array,
         NEW m, m = Store(Mem(st, t), arr, p), Good(m), NEW new \in Evicted(arr, p, t)
  PROVE  /\ new = [stash |-> new.stash, tree |-> new.tree]
         /\ new.stash \in StashType /\ new.tree \in TreeType
         /\ Good(Mem(new.stash, new.tree)) /\ Sinks(m, Mem(new.stash, new.tree))
         /\ \A c \in Cells \ CellsOn(p) : Mem(new.stash, new.tree)[c] = Mem(st, t)[c]
<1> DEFINE top(out) == [s \in 0 .. S - 1 |-> out[s]]
<1>1. PICK out \in evict_once_fast(arr, p) :
        new = [stash |-> top(out), tree |-> write_path(out, t, p)]
  BY DEF Evicted
<1>2. /\ new.stash = top(out) /\ new.tree = write_path(out, t, p)
      /\ new = [stash |-> new.stash, tree |-> new.tree]
  BY <1>1
<1>3. Load(m, p) = arr
  BY LoadStore
<1> DEFINE n == Store(m, out, p)
<1>4. out \in Array /\ Good(n) /\ Sinks(m, n)
  BY <1>1, <1>3, EvictionSinksBlocks
<1>5. n = Store(Mem(st, t), out, p)
  BY StoreStore
<1> HIDE DEF n
<1>6. /\ new.stash \in StashType /\ write_path(out, t, p) \in TreeType
      /\ Mem(new.stash, write_path(out, t, p)) = Store(Mem(st, t), out, p)
  BY <1>2, <1>4, WriteIs
<1>7. \A c \in Cells \ CellsOn(p) : Store(Mem(st, t), out, p)[c] = Mem(st, t)[c]
  BY StoreAt
<1> QED
  BY <1>2, <1>4, <1>5, <1>6, <1>7

LEMMA PerformedIs ==
  ASSUME NEW st \in StashType, NEW t \in TreeType, Good(Mem(st, t)), NEW p \in Positions,
         NEW new \in perform_eviction([stash |-> st, tree |-> t], p)
  PROVE  /\ new = [stash |-> new.stash, tree |-> new.tree]
         /\ new.stash \in StashType /\ new.tree \in TreeType
         /\ Good(Mem(new.stash, new.tree)) /\ Sinks(Mem(st, t), Mem(new.stash, new.tree))
<1> DEFINE m == Mem(st, t)
           a == Load(m, p)
<1>1. m \in Memory
  BY MemType
<1>2. a \in Array /\ Store(m, a, p) = m
  <2> HIDE DEF m
  <2> QED
    BY <1>1, LoadType, StoreLoad
<1>3. new \in Evicted(a, p, t)
  <2>1. read_path(st, t, p) = a
    BY ReadIs
  <2> HIDE DEF a
  <2> QED
    BY <2>1 DEF perform_eviction
<1> HIDE DEF a
<1> QED
  BY <1>2, <1>3, EvictedIs

-------------------------------------------------------------------------------
(* The full cells are the full slots of stash and tree. *)
UsedSlots(st) == {s \in 0 .. S - 1 : ~is_empty(st[s])}
UsedPlaces(t) == {x \in Nodes \X (0 .. Z - 1) : ~is_empty(t[x[1]][x[2]])}

LEMMA CellsCounted ==
  ASSUME NEW st, NEW t, NEW used, used = UsedSlots(st), NEW places, places = UsedPlaces(t)
  PROVE  /\ IsFiniteSet(FullCells(Mem(st, t)))
         /\ Cardinality(FullCells(Mem(st, t))) = Cardinality(used) + Cardinality(places)
<1> USE DEF UsedSlots, UsedPlaces
<1> DEFINE m == Mem(st, t)
           top == {<<Stash, s>> : s \in used}
           g == [s \in used |-> <<Stash, s>>]
<1>1. FullCells(m) = top \cup places
  <2>1. \A s \in 0 .. S - 1 : <<Stash, s>> \in Cells /\ m[<<Stash, s>>] = st[s]
    BY DEF Mem, Cells
  <2>2. \A c \in Nodes \X (0 .. Z - 1) : c \in Cells /\ m[c] = t[c[1]][c[2]]
    BY StashNoNode DEF Mem, Cells
  <2> HIDE DEF m
  <2>3. top \subseteq FullCells(m)
    BY <2>1 DEF FullCells
  <2>4. places \subseteq FullCells(m)
    BY <2>2 DEF FullCells
  <2>5. ASSUME NEW c \in FullCells(m)
        PROVE  c \in top \cup places
    <3>1. CASE c[1] = Stash
      BY <2>1, <3>1, CellShape DEF FullCells
    <3>2. CASE c[1] # Stash
      BY <2>2, <3>2, CellShape DEF FullCells, Cells
    <3> QED
      BY <3>1, <3>2
  <2> QED
    BY <2>3, <2>4, <2>5
<1> HIDE DEF m
<1>2. IsFiniteSet(used) /\ Cardinality(used) \in Nat
  <2>1. 0 \in Int /\ S - 1 \in Int
    BY EvictionAssumption
  <2>2. IsFiniteSet(0 .. S - 1)
    BY <2>1, FS_Interval
  <2> QED
    BY <2>2, FS_Subset, FS_CardinalityType
<1>3. IsFiniteSet(places) /\ Cardinality(places) \in Nat
  <2>1. /\ 0 \in Int /\ Z - 1 \in Int /\ Pow2[H] - 2 \in Int
    <3>1. H \in 0 .. H
      BY HeapAssumption
    <3> QED
      BY <3>1, EvictionAssumption, PowersAre
  <2>2. IsFiniteSet(Nodes) /\ IsFiniteSet(0 .. Z - 1)
    BY <2>1, FS_Interval DEF Nodes
  <2>3. IsFiniteSet(Nodes \X (0 .. Z - 1))
    BY <2>2, FS_Product
  <2> QED
    BY <2>3, FS_Subset, FS_CardinalityType
<1>4. IsFiniteSet(top) /\ Cardinality(top) = Cardinality(used)
  <2>1. \A x, y : <<Stash, x>> = <<Stash, y>> => x = y
    OBVIOUS
  <2>2. g \in Bijection(used, top)
    BY <2>1 DEF Bijection, Injection, Surjection, IsInjective
  <2> HIDE DEF g, top
  <2> QED
    BY <1>2, <2>2, FS_Bijection DEF ExistsBijection
<1>5. top \cap places = {}
  <2>1. \A c \in top : c[1] = Stash
    OBVIOUS
  <2>2. \A c \in places : c[1] \in Nodes
    OBVIOUS
  <2> QED
    BY <2>1, <2>2, StashNoNode
<1> HIDE DEF top
<1>6. /\ IsFiniteSet(FullCells(m))
      /\ Cardinality(FullCells(m)) = Cardinality(used) + Cardinality(places)
  <2>1. Cardinality(top \cap places) = 0
    BY <1>5, FS_EmptySet
  <2>2. /\ IsFiniteSet(top \cup places)
        /\ Cardinality(top \cup places)
           = Cardinality(top) + Cardinality(places) - Cardinality(top \cap places)
    BY <1>3, <1>4, FS_Union
  <2> QED
    BY <1>1, <1>2, <1>3, <1>4, <2>1, <2>2
<1> QED
  BY <1>6 DEF m
===============================================================================
