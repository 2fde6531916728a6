------------------------------ MODULE ArraysProofs ------------------------------
(* A RecursivePositionMap is a table of positions, for every size, number of   *)
(* levels and fan-out: each level has all of its nodes, where the level above  *)
(* says, and the keys that an access takes apart select one entry per residue. *)
(* And the arrays over such tables, of every kind and size, are plain ones.    *)
EXTENDS Arrays, RecursivePositionMap, FiniteSetTheorems, WellFoundedInduction, TLAPS

KeysOf(i) == 0 .. Width(i) - 1

(* The node of a key, where the level above says it is, and its block.         *)
NodeOf(i, j) == (CHOOSE b \in levels[i] : b.key = j).node
Position(i, j) ==
  IF i = 0 THEN linear[j] ELSE NodeOf(i - 1, j \div FAN_OUT)[j % FAN_OUT]
BlockOf(i, j) == [key |-> j, pos |-> Position(i, j), node |-> NodeOf(i, j)]

Entire(i) ==
  \A j \in KeysOf(i) : /\ {c \in levels[i] : c.key = j} = {BlockOf(i, j)}
                       /\ DOMAIN NodeOf(i, j) = Digits

(* The inductive invariant. *)
IInv == /\ DOMAIN linear = 0 .. Min({Entries(n), LINEAR_MAP_SIZE}) - 1
        /\ \A i \in 0 .. h - 1 : Entire(i)

-------------------------------------------------------------------------------
(* Numbers. *)

LEMMA LeastNatural ==
  ASSUME NEW T \in SUBSET Nat, T # {}
  PROVE  \E m \in T : \A x \in T : m <= x
<1> DEFINE R == OpToRel(<, Nat)
<1>1. \E m \in T : \A k \in T : <<k, m>> \notin R
  BY NatLessThanWellFounded, WFMin
<1>2. \A k, m \in Nat : k < m => <<k, m>> \in R
  BY DEF OpToRel
<1> HIDE DEF R
<1>3. PICK m \in T : \A k \in T : <<k, m>> \notin R
  BY <1>1
<1>4. \A k \in T : ~(k < m)
  BY <1>2, <1>3
<1>5. \A k \in T : m <= k
  BY <1>4
<1> QED
  BY <1>5

LEMMA Induction ==
  ASSUME NEW P, 0 \in P, \A i \in Nat : i \in P => i + 1 \in P
  PROVE  Nat \subseteq P
<1> DEFINE Bad == {k \in Nat : k \notin P}
<1> SUFFICES ASSUME Bad # {} PROVE FALSE
  OBVIOUS
<1>1. PICK k \in Bad : \A j \in Bad : k <= j
  BY LeastNatural
<1>2. k - 1 \in Nat /\ k - 1 \notin Bad /\ k = (k - 1) + 1
  BY <1>1
<1> QED
  BY <1>1, <1>2

LEMMA LevelInduction ==
  ASSUME NEW P, NEW m \in Nat, 0 \in P, \A i \in 1 .. m : i - 1 \in P => i \in P
  PROVE  0 .. m \subseteq P
<1> DEFINE Q == P \cup {i \in Nat : i > m}
<1>1. ASSUME NEW i \in Nat, i \in Q PROVE i + 1 \in Q
  <2>1. CASE i + 1 > m
    BY <2>1
  <2>2. CASE i + 1 <= m
    <3>1. i \in P /\ i + 1 \in 1 .. m /\ (i + 1) - 1 = i
      BY <1>1, <2>2
    <3> QED
      BY <3>1
  <2> QED
    BY <2>1, <2>2
<1>2. 0 \in Q
  OBVIOUS
<1> HIDE DEF Q
<1>3. Nat \subseteq Q
  BY <1>1, <1>2, Induction
<1> QED
  BY <1>3 DEF Q

LEMMA DivMod ==
  ASSUME NEW x \in Nat, NEW m \in Nat, m > 0
  PROVE  /\ x % m \in 0 .. m - 1 /\ x \div m \in Nat
         /\ x = ((x \div m) * m) + (x % m)
OBVIOUS

LEMMA DivModUnique ==
  ASSUME NEW m \in Nat, NEW q \in Int, NEW r \in 0 .. m - 1
  PROVE  ((q * m) + r) % m = r /\ ((q * m) + r) \div m = q
OBVIOUS

LEMMA MinIs ==
  ASSUME NEW a \in Int, NEW b \in Int
  PROVE  Min({a, b}) = IF a <= b THEN a ELSE b
BY DEF Min

(* A function that is defined by recursion over 0 .. m exists. *)
Steps(m, D) == [1 .. m -> [D -> D]]
Solutions(m, D, a, step) ==
  {f \in [0 .. m -> D] : f[0] = a /\ \A i \in 1 .. m : f[i] = step[i][f[i - 1]]}

LEMMA RecursionExists ==
  ASSUME NEW D, NEW m \in Nat, NEW a \in D, NEW step \in Steps(m, D)
  PROVE  Solutions(m, D, a, step) # {}
<1> DEFINE Upto(k, f) == f \in [0 .. k -> D] /\ f[0] = a
                         /\ \A i \in 1 .. k : f[i] = step[i][f[i - 1]]
           P == {k \in 0 .. m : \E f : Upto(k, f)}
<1>1. 0 \in P
  <2> DEFINE f == [i \in 0 .. 0 |-> a]
  <2>1. Upto(0, f)
    OBVIOUS
  <2> HIDE DEF f
  <2> QED
    BY <2>1
<1>2. ASSUME NEW k \in 1 .. m, k - 1 \in P PROVE k \in P
  <2>1. PICK f : Upto(k - 1, f)
    BY <1>2
  <2> DEFINE g == [i \in 0 .. k |-> IF i = k THEN step[k][f[k - 1]] ELSE f[i]]
  <2>2. step[k][f[k - 1]] \in D /\ \A i \in 0 .. k : i # k => f[i] \in D
    <3>1. f[k - 1] \in D /\ step[k] \in [D -> D]
      BY <2>1 DEF Steps
    <3>2. step[k][f[k - 1]] \in D
      BY <3>1
    <3>3. \A i \in 0 .. k : i # k => i \in 0 .. k - 1
      OBVIOUS
    <3> QED
      BY <2>1, <3>2, <3>3
  <2>3. g \in [0 .. k -> D]
    BY <2>2
  <2>4. g[0] = a
    BY <2>1
  <2>5. ASSUME NEW i \in 1 .. k PROVE g[i] = step[i][g[i - 1]]
    <3>1. g[i - 1] = f[i - 1]
      OBVIOUS
    <3>2. CASE i = k
      BY <3>1, <3>2
    <3>3. CASE i # k
      <4>1. i \in 1 .. k - 1 /\ g[i] = f[i]
        BY <3>3
      <4> QED
        BY <2>1, <3>1, <4>1
    <3> QED
      BY <3>2, <3>3
  <2>6. Upto(k, g)
    BY <2>3, <2>4, <2>5
  <2> HIDE DEF Upto, g
  <2> QED
    BY <2>6
<1>3. m \in P
  <2> HIDE DEF P
  <2>1. 0 .. m \subseteq P
    BY <1>1, <1>2, LevelInduction
  <2> QED
    BY <2>1
<1> QED
  BY <1>3 DEF Solutions
-------------------------------------------------------------------------------
(* The sizes of the levels. *)

(* The recursive function of the powers exists, so it satisfies its equation.  *)
Powers(base) == CHOOSE f : f = [i \in Nat |-> IF i = 0 THEN 1 ELSE base * f[i - 1]]

LEMMA PowersAre ==
  ASSUME NEW base \in Nat, base > 1
  PROVE  /\ Powers(base)[0] = 1
         /\ \A i \in Nat : Powers(base)[i + 1] = base * Powers(base)[i]
         /\ \A i \in Nat : Powers(base)[i] \in Nat \ {0} /\ Powers(base)[i] > i
<1> DEFINE p == Powers(base)
           Upto(k, f) == f \in [0 .. k -> Nat] /\ f[0] = 1
                         /\ \A i \in 1 .. k : f[i] = base * f[i - 1]
           F(k) == CHOOSE f : Upto(k, f)
           all == [i \in Nat |-> F(i)[i]]
           Agrees(k) == {i \in Nat : i > k \/ F(k)[i] = F(k + 1)[i]}
           Grown == {i \in Nat : p[i] \in Nat \ {0} /\ p[i] > i}
<1>1. base \in Nat /\ base > 1
  OBVIOUS
<1>2. ASSUME NEW k \in Nat PROVE Upto(k, F(k))
  <2> DEFINE step == [i \in 1 .. k |-> [v \in Nat |-> base * v]]
  <2>1. step \in Steps(k, Nat)
    BY <1>1 DEF Steps
  <2>2. \A i \in 1 .. k : \A v \in Nat : step[i][v] = base * v
    OBVIOUS
  <2> HIDE DEF step
  <2>3. PICK f \in [0 .. k -> Nat] : f[0] = 1 /\ \A i \in 1 .. k : f[i] = step[i][f[i - 1]]
    <3>1. 1 \in Nat
      OBVIOUS
    <3>2. Solutions(k, Nat, 1, step) # {}
      BY <2>1, <3>1, RecursionExists
    <3> QED
      BY <3>2 DEF Solutions
  <2>4. \A i \in 1 .. k : f[i] = step[i][f[i - 1]] /\ f[i - 1] \in Nat
    BY <2>3
  <2>5. Upto(k, f)
    BY <2>2, <2>3, <2>4
  <2> HIDE DEF Upto
  <2> QED
    BY <2>5
<1>3. ASSUME NEW k \in Nat PROVE F(k)[k] = F(k + 1)[k]
  <2>1. Upto(k, F(k)) /\ Upto(k + 1, F(k + 1))
    <3>1. k + 1 \in Nat
      OBVIOUS
    <3> HIDE DEF F, Upto
    <3> QED
      BY <1>2, <3>1
  <2> HIDE DEF F
  <2>2. 0 \in Agrees(k)
    BY <2>1
  <2>3. ASSUME NEW i \in Nat, i \in Agrees(k) PROVE i + 1 \in Agrees(k)
    <3>1. CASE i + 1 > k
      BY <3>1
    <3>2. CASE i + 1 <= k
      <4>1. i + 1 \in 1 .. k /\ i + 1 \in 1 .. k + 1 /\ (i + 1) - 1 = i
        BY <3>2
      <4>2. F(k)[i + 1] = base * F(k)[i] /\ F(k + 1)[i + 1] = base * F(k + 1)[i]
        BY <2>1, <4>1
      <4> QED
        BY <2>3, <3>2, <4>2
    <3> QED
      BY <3>1, <3>2
  <2> HIDE DEF Agrees
  <2>4. Nat \subseteq Agrees(k)
    BY <2>2, <2>3, Induction
  <2> QED
    BY <2>4 DEF Agrees
<1>4. ASSUME NEW i \in Nat PROVE all[i] = IF i = 0 THEN 1 ELSE base * all[i - 1]
  <2>1. Upto(i, F(i))
    BY <1>2
  <2>2. CASE i = 0
    BY <2>1, <2>2
  <2>3. CASE i # 0
    <3>1. i - 1 \in Nat /\ (i - 1) + 1 = i
      BY <2>3
    <3>2. F(i - 1)[i - 1] = F((i - 1) + 1)[i - 1]
      BY <1>3, <3>1
    <3>3. F(i - 1)[i - 1] = F(i)[i - 1]
      BY <3>1, <3>2
    <3> HIDE DEF F
    <3>4. F(i)[i] = base * F(i)[i - 1]
      <4>1. i \in 1 .. i
        BY <3>1
      <4> QED
        BY <2>1, <4>1
    <3> HIDE DEF Upto
    <3> QED
      BY <3>1, <3>3, <3>4
  <2> QED
    BY <2>2, <2>3
<1>5. \E f : f = [i \in Nat |-> IF i = 0 THEN 1 ELSE base * f[i - 1]]
  <2>1. all = [i \in Nat |-> all[i]]
    OBVIOUS
  <2> HIDE DEF all
  <2>2. all = [i \in Nat |-> IF i = 0 THEN 1 ELSE base * all[i - 1]]
    BY <1>4, <2>1
  <2> QED
    BY <2>2
<1> HIDE DEF F, all, Upto, Agrees
<1>6. p = [i \in Nat |-> IF i = 0 THEN 1 ELSE base * p[i - 1]]
  BY <1>5 DEF Powers
<1> HIDE DEF p
<1>7. \A i \in Nat : p[i] = IF i = 0 THEN 1 ELSE base * p[i - 1]
  BY <1>6, Zenon
<1>8. p[0] = 1
  BY <1>7
<1>9. ASSUME NEW i \in Nat PROVE p[i + 1] = base * p[i]
  <2>1. i + 1 \in Nat /\ i + 1 # 0 /\ (i + 1) - 1 = i
    OBVIOUS
  <2> QED
    BY <1>7, <2>1
<1>10. 0 \in Grown
  BY <1>8
<1>11. ASSUME NEW i \in Nat, i \in Grown PROVE i + 1 \in Grown
  <2>1. p[i] \in Nat /\ p[i] >= i + 1
    BY <1>11
  <2>2. base * p[i] \in Nat /\ base * p[i] >= 2 * p[i]
    BY <1>1, <2>1
  <2> QED
    BY <1>9, <2>1, <2>2
<1> HIDE DEF Grown
<1>12. Nat \subseteq Grown
  BY <1>10, <1>11, Induction
<1> QED
  BY <1>8, <1>9, <1>12 DEF Grown, p

LEMMA PowerIs ==
  /\ Power[0] = 1
  /\ \A i \in Nat : Power[i + 1] = FAN_OUT * Power[i]
  /\ \A i \in Nat : Power[i] \in Nat \ {0} /\ Power[i] > i
<1>1. FAN_OUT \in Nat /\ FAN_OUT > 1
  BY PositionTableAssumption
<1>2. Power = Powers(FAN_OUT)
  BY DEF Power, Powers
<1> QED
  BY <1>1, <1>2, PowersAre

LEMMA LinearSize ==
  /\ FAN_OUT \in Nat /\ FAN_OUT > 1
  /\ LEVEL_0_BUCKETS \in Nat /\ LEVEL_0_BUCKETS > 0
  /\ LINEAR_MAP_SIZE \in Nat /\ LINEAR_MAP_SIZE > 0
<1>1. LEVEL_0_BUCKETS \in Nat /\ LEVEL_0_BUCKETS > 0 /\ FAN_OUT \in Nat /\ FAN_OUT > 1
  BY PositionTableAssumption
<1> QED
  BY <1>1 DEF LINEAR_MAP_SIZE

LEMMA Sizes ==
  /\ FAN_OUT \in Nat /\ FAN_OUT > 1
  /\ LINEAR_MAP_SIZE \in Nat /\ LINEAR_MAP_SIZE > 0
  /\ n \in Nat /\ n > 0
BY LinearSize, PositionMapAssumption

LEMMA WidthIs ==
  /\ Width(0) = LINEAR_MAP_SIZE
  /\ \A i \in Nat : Width(i) \in Nat /\ Width(i) > 0 /\ Width(i + 1) = Width(i) * FAN_OUT
<1>1. Width(0) = LINEAR_MAP_SIZE
  BY PowerIs, Sizes DEF Width
<1>2. ASSUME NEW i \in Nat
      PROVE Width(i) \in Nat /\ Width(i) > 0 /\ Width(i + 1) = Width(i) * FAN_OUT
  <2> DEFINE p == Power[i]
  <2>1. p \in Nat /\ p > 0 /\ Power[i + 1] = FAN_OUT * p
    BY PowerIs
  <2> HIDE DEF p
  <2>2. LINEAR_MAP_SIZE * p \in Nat /\ LINEAR_MAP_SIZE * p > 0
    BY <2>1, Sizes
  <2>3. LINEAR_MAP_SIZE * (FAN_OUT * p) = (LINEAR_MAP_SIZE * p) * FAN_OUT
    BY <2>1, Sizes
  <2> QED
    BY <2>1, <2>2, <2>3 DEF Width, p
<1> QED
  BY <1>1, <1>2

(* `new` always finds a height, that of the levels that m keys need; only a    *)
(* small map has no levels but the linear.                                     *)
LEMMA HeightOf ==
  ASSUME NEW m \in Nat, m > 0
  PROVE  /\ Height(m) \in Nat /\ (Height(m) > 0 <=> m > LINEAR_MAP_SIZE)
         /\ Span(m) \in Nat /\ m <= Span(m)
<1>1. CASE m <= LINEAR_MAP_SIZE
  <2>1. Height(m) = 0
    BY <1>1 DEF Height
  <2>2. Span(m) = LINEAR_MAP_SIZE
    BY <2>1, PowerIs, LinearSize DEF Span
  <2> QED
    BY <1>1, <2>1, <2>2, LinearSize
<1>2. CASE m > LINEAR_MAP_SIZE
  <2> DEFINE whole == m \div LINEAR_MAP_SIZE
             Above == {e \in Nat : whole < Power[e]}
  <2>1. whole \in Nat /\ whole > 0 /\ whole <= m
    <3>1. whole \in Nat /\ m % LINEAR_MAP_SIZE \in 0 .. LINEAR_MAP_SIZE - 1
          /\ m = (whole * LINEAR_MAP_SIZE) + (m % LINEAR_MAP_SIZE)
      BY LinearSize, DivMod
    <3> HIDE DEF whole
    <3>2. whole # 0
      BY <1>2, <3>1, LinearSize
    <3>3. whole * LINEAR_MAP_SIZE >= whole
      BY <3>1, LinearSize
    <3> QED
      BY <3>1, <3>2, <3>3, LinearSize
  <2> HIDE DEF whole
  <2>2. PICK top \in Above : \A x \in Above : top <= x
    <3>1. whole \in Above
      BY <2>1, PowerIs
    <3> QED
      BY <3>1, LeastNatural
  <2>3. top \in Nat /\ top # 0 /\ whole < Power[top]
    BY <2>1, <2>2, PowerIs
  <2>4. top - 1 \in Nat /\ (top - 1) + 1 = top /\ top - 1 \notin Above
    BY <2>2, <2>3
  <2>5. Power[top - 1] \in Nat /\ Power[top - 1] > top - 1 /\ Power[top - 1] <= whole
    BY <2>1, <2>4, PowerIs
  <2>6. top - 1 \in 0 .. m /\ Power[top - 1] <= whole /\ whole < Power[(top - 1) + 1]
    BY <2>1, <2>3, <2>4, <2>5, LinearSize
  <2> DEFINE ilog == CHOOSE e \in 0 .. m : Power[e] <= whole /\ whole < Power[e + 1]
  <2>7. ilog \in 0 .. m /\ whole < Power[ilog + 1]
    BY <2>6
  <2>8. Height(m) = IF LINEAR_MAP_SIZE * Power[ilog] < m THEN ilog + 1 ELSE ilog
    BY <1>2, LinearSize DEF Height, whole
  <2> HIDE DEF ilog
  <2>9. Height(m) \in Nat /\ Height(m) > 0
    <3>1. ilog = 0 => LINEAR_MAP_SIZE * Power[ilog] < m
      BY <1>2, PowerIs, LinearSize
    <3> QED
      BY <2>7, <2>8, <3>1
  <2>10. Span(m) \in Nat /\ m <= Span(m)
    <3>1. /\ ilog \in Nat /\ ilog + 1 \in Nat /\ Power[ilog] \in Nat /\ Power[ilog + 1] \in Nat
          /\ whole + 1 <= Power[ilog + 1]
      BY <2>1, <2>7, PowerIs
    <3>2. LINEAR_MAP_SIZE * Power[ilog + 1] \in Nat /\ LINEAR_MAP_SIZE * Power[ilog] \in Nat
      BY <3>1, LinearSize
    <3>3. LINEAR_MAP_SIZE * (whole + 1) <= LINEAR_MAP_SIZE * Power[ilog + 1]
      BY <2>1, <3>1, LinearSize
    <3>4. m <= LINEAR_MAP_SIZE * (whole + 1)
      <4>1. m = (whole * LINEAR_MAP_SIZE) + (m % LINEAR_MAP_SIZE)
            /\ m % LINEAR_MAP_SIZE \in 0 .. LINEAR_MAP_SIZE - 1
        BY LinearSize, DivMod DEF whole
      <4>2. LINEAR_MAP_SIZE * (whole + 1) = (whole * LINEAR_MAP_SIZE) + LINEAR_MAP_SIZE
        BY <2>1, LinearSize
      <4> QED
        BY <2>1, <4>1, <4>2, LinearSize
    <3>5. CASE LINEAR_MAP_SIZE * Power[ilog] < m
      <4>1. Span(m) = LINEAR_MAP_SIZE * Power[ilog + 1]
        BY <2>8, <3>5 DEF Span
      <4> QED
        BY <2>1, <3>1, <3>2, <3>3, <3>4, <4>1, LinearSize
    <3>6. CASE ~(LINEAR_MAP_SIZE * Power[ilog] < m)
      <4>1. Span(m) = LINEAR_MAP_SIZE * Power[ilog]
        BY <2>8, <3>6 DEF Span
      <4> QED
        BY <3>2, <3>6, <4>1
    <3> QED
      BY <3>5, <3>6
  <2> QED
    BY <1>2, <2>9, <2>10
<1> QED
  BY <1>1, <1>2, LinearSize

LEMMA HeightIs == h \in Nat /\ (h > 0 => n > LINEAR_MAP_SIZE)
BY Sizes, HeightOf DEF h

LEMMA EntriesAre ==
  /\ h > 0 => Entries(n) = Width(h)
  /\ h = 0 => Entries(n) \in 1 .. LINEAR_MAP_SIZE
  /\ Min({Entries(n), LINEAR_MAP_SIZE}) = IF h = 0 THEN Entries(n) ELSE LINEAR_MAP_SIZE
<1>1. CASE h = 0
  <2> DEFINE a == (n + FAN_OUT - 1) \div FAN_OUT
             l == Min({a, LEVEL_0_BUCKETS})
  <2>1. a \in Nat /\ a > 0
    <3> DEFINE x == n + FAN_OUT - 1
    <3>1. x \in Nat /\ x >= FAN_OUT
      BY Sizes
    <3>2. a \in Nat /\ x % FAN_OUT \in 0 .. FAN_OUT - 1 /\ x = (a * FAN_OUT) + (x % FAN_OUT)
      BY <3>1, Sizes, DivMod
    <3> HIDE DEF a, x
    <3> QED
      BY <3>1, <3>2, Sizes
  <2>2. l \in 1 .. LEVEL_0_BUCKETS
    BY <2>1, MinIs, PositionTableAssumption
  <2>3. Entries(n) = FAN_OUT * l
    BY <1>1 DEF Entries, h
  <2> HIDE DEF l
  <2>4. FAN_OUT * l \in 1 .. LINEAR_MAP_SIZE
    <3>1. l \in Nat /\ l > 0 /\ l <= LEVEL_0_BUCKETS /\ LEVEL_0_BUCKETS \in Nat
      BY <2>2, PositionTableAssumption
    <3>2. FAN_OUT * l \in Nat /\ FAN_OUT * l > 0 /\ FAN_OUT * l <= LEVEL_0_BUCKETS * FAN_OUT
      BY <3>1, Sizes
    <3> QED
      BY <3>2, Sizes DEF LINEAR_MAP_SIZE
  <2> QED
    BY <1>1, <2>3, <2>4, MinIs, Sizes
<1>2. CASE h > 0
  <2>1. Entries(n) = Width(h)
    BY <1>2 DEF Entries, Span, Width, h
  <2>2. LINEAR_MAP_SIZE <= Width(h)
    <3> DEFINE p == Power[h]
    <3>1. p \in Nat /\ p > 0
      BY HeightIs, PowerIs
    <3> HIDE DEF p
    <3>2. LINEAR_MAP_SIZE <= LINEAR_MAP_SIZE * p
      BY <3>1, Sizes
    <3> QED
      BY <3>2 DEF Width, p
  <2>3. Min({Width(h), LINEAR_MAP_SIZE}) = LINEAR_MAP_SIZE
    <3>1. Width(h) \in Int /\ LINEAR_MAP_SIZE \in Int
      BY HeightIs, WidthIs, Sizes
    <3>2. Min({Width(h), LINEAR_MAP_SIZE}) = IF Width(h) <= LINEAR_MAP_SIZE THEN Width(h) ELSE LINEAR_MAP_SIZE
      BY <3>1, MinIs
    <3> QED
      BY <2>2, <3>1, <3>2
  <2> QED
    BY <1>2, <2>1, <2>3
<1> QED
  BY <1>1, <1>2, HeightIs
-------------------------------------------------------------------------------
(* The keys of the nodes that an access passes. *)

LEMMA DigitIs ==
  ASSUME NEW k \in Nat, NEW i \in Nat
  PROVE  Digit(k, i) \in Digits /\ Digit(k, i) \in Nat
<1> DEFINE q == k \div Width(i)
<1>1. q \in Nat
  BY WidthIs, DivMod
<1> HIDE DEF q
<1>2. q % FAN_OUT \in 0 .. FAN_OUT - 1
  BY <1>1, Sizes, DivMod
<1> QED
  BY <1>2, Sizes DEF Digit, Digits, q

LEMMA KeyAtIs ==
  ASSUME NEW k \in Nat
  PROVE  /\ KeyAt(k)[0] = k % LINEAR_MAP_SIZE
         /\ \A i \in 1 .. h : KeyAt(k)[i] = KeyAt(k)[i - 1] * FAN_OUT + Digit(k, i - 1)
         /\ \A i \in 0 .. h : KeyAt(k)[i] \in KeysOf(i)
<1> DEFINE top == k % LINEAR_MAP_SIZE
           step == [i \in 1 .. h |-> [v \in Nat |-> v * FAN_OUT + Digit(k, i - 1)]]
           Is(f) == f = [i \in 0 .. h |-> IF i = 0 THEN k % LINEAR_MAP_SIZE
                                         ELSE f[i - 1] * FAN_OUT + Digit(k, i - 1)]
<1>1. top \in Nat /\ top < LINEAR_MAP_SIZE
  BY Sizes, DivMod
<1>2. h \in Nat
  BY HeightIs
<1>3. \E f : Is(f)
  <2> HIDE DEF top
  <2>1. step \in Steps(h, Nat)
    <3> SUFFICES ASSUME NEW i \in 1 .. h, NEW v \in Nat PROVE v * FAN_OUT + Digit(k, i - 1) \in Nat
      BY DEF Steps
    <3>1. i - 1 \in Nat
      BY <1>2
    <3>2. Digit(k, i - 1) \in Nat
      BY <3>1, DigitIs
    <3>3. v * FAN_OUT \in Nat
      BY Sizes
    <3> QED
      BY <3>2, <3>3
  <2>2. \A i \in 1 .. h : \A v \in Nat : step[i][v] = v * FAN_OUT + Digit(k, i - 1)
    OBVIOUS
  <2> HIDE DEF step
  <2>3. PICK f \in [0 .. h -> Nat] : f[0] = top /\ \A i \in 1 .. h : f[i] = step[i][f[i - 1]]
    <3>1. Solutions(h, Nat, top, step) # {}
      BY <1>1, <1>2, <2>1, RecursionExists
    <3> QED
      BY <3>1 DEF Solutions
  <2>4. ASSUME NEW i \in 0 .. h
        PROVE f[i] = IF i = 0 THEN top ELSE f[i - 1] * FAN_OUT + Digit(k, i - 1)
    <3>1. CASE i = 0
      BY <2>3, <3>1
    <3>2. CASE i # 0
      <4>1. i \in 1 .. h /\ f[i - 1] \in Nat
        BY <1>2, <3>2, <2>3
      <4> QED
        BY <2>2, <2>3, <3>2, <4>1
    <3> QED
      BY <3>1, <3>2
  <2>5. f = [i \in 0 .. h |-> f[i]]
    BY <2>3
  <2>6. Is(f)
    BY <2>4, <2>5 DEF top
  <2> QED
    BY <2>6
<1>4. Is(KeyAt(k))
  BY <1>3, Zenon DEF KeyAt
<1>5. \A i \in 0 .. h : KeyAt(k)[i] = IF i = 0 THEN k % LINEAR_MAP_SIZE
                                     ELSE KeyAt(k)[i - 1] * FAN_OUT + Digit(k, i - 1)
  BY <1>4, Zenon
<1>6. /\ KeyAt(k)[0] = k % LINEAR_MAP_SIZE
      /\ \A i \in 1 .. h : KeyAt(k)[i] = KeyAt(k)[i - 1] * FAN_OUT + Digit(k, i - 1)
  BY <1>2, <1>5
<1> DEFINE P == {i \in 0 .. h : KeyAt(k)[i] \in KeysOf(i)}
<1>7. 0 \in P
  BY <1>1, <1>2, <1>6, WidthIs, Sizes DEF KeysOf
<1>8. ASSUME NEW i \in 1 .. h, i - 1 \in P PROVE i \in P
  <2> DEFINE a == KeyAt(k)[i - 1]
             w == Width(i - 1)
             d == Digit(k, i - 1)
  <2>1. i - 1 \in Nat /\ (i - 1) + 1 = i
    BY <1>2
  <2>2. w \in Nat /\ w > 0 /\ Width(i) = w * FAN_OUT
    BY <2>1, WidthIs
  <2>3. a \in 0 .. w - 1
    BY <1>8 DEF KeysOf
  <2>4. d \in 0 .. FAN_OUT - 1
    BY <2>1, DigitIs DEF Digits
  <2>5. KeyAt(k)[i] = a * FAN_OUT + d
    BY <1>6
  <2> HIDE DEF a, w, d
  <2>6. a * FAN_OUT + d \in 0 .. (w * FAN_OUT) - 1
    <3>1. a + 1 <= w /\ a \in Nat
      BY <2>2, <2>3
    <3>2. (a + 1) * FAN_OUT <= w * FAN_OUT
      BY <2>2, <3>1, Sizes
    <3>3. (a + 1) * FAN_OUT = a * FAN_OUT + FAN_OUT /\ a * FAN_OUT \in Nat
      BY <3>1, Sizes
    <3> QED
      BY <2>2, <2>4, <3>2, <3>3, Sizes
  <2> QED
    BY <2>2, <2>5, <2>6 DEF KeysOf
<1> HIDE DEF P
<1>9. 0 .. h \subseteq P
  BY <1>2, <1>7, <1>8, LevelInduction
<1> QED
  BY <1>6, <1>9 DEF P

(* The key of a node is that of its parent and a digit. *)
LEMMA ParentKey ==
  ASSUME NEW k \in Nat, NEW i \in 1 .. h
  PROVE  /\ KeyAt(k)[i] \div FAN_OUT = KeyAt(k)[i - 1]
         /\ KeyAt(k)[i] % FAN_OUT = Digit(k, i - 1)
         /\ i - 1 \in 0 .. h - 1 /\ KeyAt(k)[i - 1] \in KeysOf(i - 1)
<1> DEFINE a == KeyAt(k)[i - 1]
           d == Digit(k, i - 1)
<1>1. i - 1 \in Nat /\ i - 1 \in 0 .. h /\ i - 1 \in 0 .. h - 1
  BY HeightIs
<1>2. a \in KeysOf(i - 1) /\ KeyAt(k)[i] = a * FAN_OUT + d
  BY <1>1, KeyAtIs
<1>3. a \in Int /\ d \in 0 .. FAN_OUT - 1
  <2>1. d \in 0 .. FAN_OUT - 1
    BY <1>1, DigitIs DEF Digits
  <2>2. Width(i - 1) \in Nat
    BY <1>1, WidthIs
  <2> QED
    BY <1>2, <2>1, <2>2 DEF KeysOf
<1> HIDE DEF a, d
<1>4. (a * FAN_OUT + d) % FAN_OUT = d /\ (a * FAN_OUT + d) \div FAN_OUT = a
  BY <1>3, Sizes, DivModUnique
<1> QED
  BY <1>1, <1>2, <1>4 DEF a, d

LEMMA ChildKey ==
  ASSUME NEW i \in Nat, NEW j \in KeysOf(i + 1)
  PROVE  /\ j \div FAN_OUT \in KeysOf(i) /\ j % FAN_OUT \in Digits
         /\ j = ((j \div FAN_OUT) * FAN_OUT) + (j % FAN_OUT)
<1> DEFINE q == j \div FAN_OUT
           r == j % FAN_OUT
           w == Width(i)
<1>1. w \in Nat /\ w > 0 /\ Width(i + 1) = w * FAN_OUT
  BY WidthIs
<1>2. j \in Nat /\ j < w * FAN_OUT
  <2>1. w * FAN_OUT \in Nat
    BY <1>1, Sizes
  <2> QED
    BY <1>1, <2>1 DEF KeysOf
<1>3. q \in Nat /\ r \in 0 .. FAN_OUT - 1 /\ j = q * FAN_OUT + r
  BY <1>2, Sizes, DivMod
<1> HIDE DEF q, r, w
<1>4. q < w
  <2> SUFFICES ASSUME w <= q PROVE FALSE
    BY <1>1, <1>3
  <2>1. w * FAN_OUT <= q * FAN_OUT /\ q * FAN_OUT \in Nat
    BY <1>1, <1>3, Sizes
  <2> QED
    BY <1>1, <1>2, <1>3, <2>1, Sizes
<1> QED
  BY <1>1, <1>3, <1>4 DEF q, r, w, KeysOf, Digits

(* k modulo the product of w and f: the low part and one more digit.           *)
LEMMA ModProduct ==
  ASSUME NEW k \in Nat, NEW w \in Nat, w > 0, NEW f \in Nat, f > 0
  PROVE  k % (w * f) = (((k \div w) % f) * w) + (k % w)
<1> DEFINE q == k \div w
           r == k % w
           c == q \div f
           d == q % f
           m == w * f
           s == d * w + r
<1>1. q \in Nat /\ r \in 0 .. w - 1 /\ k = (q * w) + r
  BY DivMod
<1>2. c \in Nat /\ d \in 0 .. f - 1 /\ q = (c * f) + d
  <2> HIDE DEF q
  <2> QED
    BY <1>1, DivMod
<1> HIDE DEF q, r, c, d
<1>3. m \in Nat /\ m > 0
  OBVIOUS
<1>4. s \in 0 .. m - 1
  <2>1. (d + 1) * w <= f * w /\ (d + 1) * w = d * w + w /\ d * w \in Nat /\ f * w = m
    BY <1>2
  <2> HIDE DEF m
  <2> QED
    BY <1>1, <1>2, <1>3, <2>1
<1>5. k = (c * m) + s
  <2>1. q * w = (c * f) * w + d * w
    BY <1>1, <1>2
  <2>2. (c * f) * w = c * m
    BY <1>2
  <2>3. c * m \in Nat /\ d * w \in Nat
    BY <1>2
  <2> HIDE DEF m
  <2> QED
    BY <1>1, <2>1, <2>2, <2>3
<1> HIDE DEF m, s
<1>6. k % m = s
  BY <1>2, <1>3, <1>4, <1>5, DivModUnique
<1> QED
  BY <1>6 DEF m, s, d, q, r

(* Two keys lead to the same node of a level exactly if they agree modulo its  *)
(* width: no two entries of the table have one place in the levels.            *)
LEMMA SameNode ==
  ASSUME NEW s \in Nat, NEW k \in Nat, NEW i \in 0 .. h
  PROVE  KeyAt(s)[i] = KeyAt(k)[i] <=> s % Width(i) = k % Width(i)
<1> DEFINE P == {e \in 0 .. h : KeyAt(s)[e] = KeyAt(k)[e] <=> s % Width(e) = k % Width(e)}
<1>1. h \in Nat
  BY HeightIs
<1>2. 0 \in P
  <2>1. KeyAt(s)[0] = s % LINEAR_MAP_SIZE /\ KeyAt(k)[0] = k % LINEAR_MAP_SIZE
    BY KeyAtIs
  <2>2. KeyAt(s)[0] = KeyAt(k)[0] <=> s % Width(0) = k % Width(0)
    BY <2>1, WidthIs
  <2> QED
    BY <1>1, <2>2
<1>3. ASSUME NEW e \in 1 .. h, e - 1 \in P PROVE e \in P
  <2> DEFINE w == Width(e - 1)
             a == KeyAt(s)[e - 1]
             b == KeyAt(k)[e - 1]
             x == Digit(s, e - 1)
             y == Digit(k, e - 1)
             u == s % w
             v == k % w
  <2>1. e - 1 \in Nat /\ (e - 1) + 1 = e
    BY <1>1
  <2>2. w \in Nat /\ w > 0 /\ Width(e) = w * FAN_OUT
    BY <2>1, WidthIs
  <2>3. /\ KeyAt(s)[e] \div FAN_OUT = a /\ KeyAt(s)[e] % FAN_OUT = x
        /\ KeyAt(k)[e] \div FAN_OUT = b /\ KeyAt(k)[e] % FAN_OUT = y
    BY ParentKey
  <2>4. KeyAt(s)[e] = a * FAN_OUT + x /\ KeyAt(k)[e] = b * FAN_OUT + y
    BY KeyAtIs
  <2>5. KeyAt(s)[e] = KeyAt(k)[e] <=> a = b /\ x = y
    BY <2>3, <2>4
  <2>6. s % Width(e) = x * w + u /\ k % Width(e) = y * w + v
    <3>1. \A m \in Nat : m % (w * FAN_OUT) = (((m \div w) % FAN_OUT) * w) + (m % w)
      <4>1. w \in Nat /\ w > 0 /\ FAN_OUT \in Nat /\ FAN_OUT > 0
        BY <2>2, Sizes
      <4> HIDE DEF w
      <4> QED
        BY <4>1, ModProduct, Zenon
    <3> QED
      BY <2>2, <3>1 DEF Digit
  <2>7. u \in 0 .. w - 1 /\ v \in 0 .. w - 1 /\ x \in Nat /\ y \in Nat
    BY <2>1, <2>2, DivMod, DigitIs
  <2>8. a = b <=> u = v
    BY <1>3
  <2> HIDE DEF w, a, b, x, y, u, v
  <2>9. /\ (x * w + u) % w = u /\ (x * w + u) \div w = x
        /\ (y * w + v) % w = v /\ (y * w + v) \div w = y
    <3>1. x \in Int /\ y \in Int /\ w \in Nat
      BY <2>2, <2>7
    <3>2. ((x * w) + u) % w = u /\ ((x * w) + u) \div w = x
      BY <2>7, <3>1, DivModUnique
    <3>3. ((y * w) + v) % w = v /\ ((y * w) + v) \div w = y
      BY <2>7, <3>1, DivModUnique
    <3> QED
      BY <3>2, <3>3
  <2>10. s % Width(e) = k % Width(e) <=> x = y /\ u = v
    BY <2>6, <2>9
  <2> QED
    BY <2>5, <2>8, <2>10
<1> HIDE DEF P
<1>4. 0 .. h \subseteq P
  BY <1>1, <1>2, <1>3, LevelInduction
<1> QED
  BY <1>4 DEF P
-------------------------------------------------------------------------------
(* An access. *)

LEMMA LinearKey ==
  ASSUME IInv, NEW k \in Nat
  PROVE  h > 0 => KeyAt(k)[0] \in DOMAIN linear
<1>1. h > 0 => DOMAIN linear = KeysOf(0)
  BY EntriesAre, WidthIs DEF IInv, KeysOf
<1>2. KeyAt(k)[0] \in KeysOf(0)
  BY HeightIs, KeyAtIs
<1> QED
  BY <1>1, <1>2

(* A scan at the position that the level above has meets the block of the key. *)
LEMMA MetIs ==
  ASSUME IInv, NEW i \in 0 .. h - 1, NEW j \in KeysOf(i)
  PROVE  /\ Met(i, j, Position(i, j)) = {BlockOf(i, j)}
         /\ Node(i, j, Position(i, j)) = NodeOf(i, j)
<1>1. {c \in levels[i] : c.key = j} = {BlockOf(i, j)}
  BY DEF IInv, Entire
<1>2. BlockOf(i, j).pos = Position(i, j) /\ BlockOf(i, j).node = NodeOf(i, j)
  BY DEF BlockOf
<1>3. Met(i, j, Position(i, j)) = {BlockOf(i, j)}
  BY <1>1, <1>2 DEF Met
<1> QED
  BY <1>2, <1>3 DEF Node

(* The positions found on the way to k are those of the nodes of its keys.     *)
LEMMA TrailIs ==
  ASSUME IInv, NEW k \in Nat
  PROVE  \A i \in 0 .. h :
           Trail(k)[i] = IF i = 0 /\ KeyAt(k)[0] \notin DOMAIN linear THEN DUMMY_POS
                         ELSE Position(i, KeyAt(k)[i])
<1> DEFINE key == KeyAt(k)
           top == IF key[0] \in DOMAIN linear THEN linear[key[0]] ELSE DUMMY_POS
           Way(f) == f = [i \in 0 .. h |->
                            IF i = 0 THEN IF key[0] \in DOMAIN linear THEN linear[key[0]] ELSE DUMMY_POS
                            ELSE Node(i - 1, key[i - 1], f[i - 1])[Digit(k, i - 1)]]
           way == [i \in 0 .. h |-> IF i = 0 THEN top ELSE Position(i, key[i])]
           Right(f, i) == f[i] = IF i = 0 THEN top ELSE Position(i, key[i])
<1>1. h \in Nat
  BY HeightIs
<1>2. ASSUME NEW f, NEW i \in 1 .. h, Right(f, i - 1)
      PROVE Node(i - 1, key[i - 1], f[i - 1])[Digit(k, i - 1)] = Position(i, key[i])
  <2>1. /\ key[i] \div FAN_OUT = key[i - 1] /\ key[i] % FAN_OUT = Digit(k, i - 1)
        /\ i - 1 \in 0 .. h - 1 /\ key[i - 1] \in KeysOf(i - 1)
    BY ParentKey
  <2>2. f[i - 1] = Position(i - 1, key[i - 1])
    BY <1>1, <1>2, LinearKey DEF Position
  <2>3. Node(i - 1, key[i - 1], f[i - 1]) = NodeOf(i - 1, key[i - 1])
    BY <2>1, <2>2, MetIs
  <2>4. i # 0
    OBVIOUS
  <2> QED
    BY <2>1, <2>3, <2>4 DEF Position
<1>3. \E f : Way(f)
  <2>1. ASSUME NEW i \in 0 .. h
        PROVE way[i] = IF i = 0 THEN top ELSE Node(i - 1, key[i - 1], way[i - 1])[Digit(k, i - 1)]
    <3>1. CASE i = 0
      BY <3>1
    <3>2. CASE i # 0
      <4>1. i \in 1 .. h /\ i - 1 \in 0 .. h
        BY <1>1, <3>2
      <4>2. Right(way, i - 1)
        BY <4>1
      <4> HIDE DEF way
      <4>3. Node(i - 1, key[i - 1], way[i - 1])[Digit(k, i - 1)] = Position(i, key[i])
        BY <1>2, <4>1, <4>2
      <4> QED
        BY <3>2, <4>1, <4>3 DEF way
    <3> QED
      BY <3>1, <3>2
  <2>2. way = [i \in 0 .. h |-> way[i]]
    OBVIOUS
  <2> HIDE DEF way
  <2>3. Way(way)
    BY <2>1, <2>2
  <2> QED
    BY <2>3
<1>4. Way(Trail(k))
  BY <1>3, Zenon DEF Trail
<1>5. \A i \in 0 .. h : Trail(k)[i] = IF i = 0 THEN top
                         ELSE Node(i - 1, key[i - 1], Trail(k)[i - 1])[Digit(k, i - 1)]
  BY <1>4, Zenon
<1> DEFINE P == {i \in 0 .. h : Right(Trail(k), i)}
<1>6. 0 \in P
  BY <1>1, <1>5
<1>7. ASSUME NEW i \in 1 .. h, i - 1 \in P PROVE i \in P
  <2>1. i # 0 /\ i \in 0 .. h /\ Right(Trail(k), i - 1)
    BY <1>1, <1>7
  <2>2. Node(i - 1, key[i - 1], Trail(k)[i - 1])[Digit(k, i - 1)] = Position(i, key[i])
    BY <1>2, <2>1
  <2> QED
    BY <1>5, <2>1, <2>2
<1> HIDE DEF P
<1>8. 0 .. h \subseteq P
  BY <1>1, <1>6, <1>7, LevelInduction
<1> QED
  BY <1>8 DEF P, Position

LEMMA TrailEnds ==
  ASSUME IInv, NEW k \in Nat
  PROVE  Trail(k)[h] = IF h = 0 /\ KeyAt(k)[0] \notin DOMAIN linear THEN DUMMY_POS
                       ELSE Position(h, KeyAt(k)[h])
<1>1. h \in 0 .. h
  BY HeightIs
<1> QED
  BY <1>1, TrailIs

(* What an access to k does: the nodes of its keys move, and no others.        *)
LEMMA Accessed ==
  ASSUME IInv, NEW k \in Nat, NEW new_pos, access_position(k, new_pos)
  PROVE  /\ DOMAIN linear' = DOMAIN linear
         /\ \E new \in [0 .. h -> Int] :
              /\ new[h] = new_pos
              /\ \A i \in 0 .. h - 1 : Entire(i)'
              /\ \A i \in 0 .. h : \A j \in KeysOf(i) :
                   i > 0 \/ j \in DOMAIN linear =>
                     Position(i, j)' = IF j = KeyAt(k)[i] THEN new[i] ELSE Position(i, j)
<1> DEFINE key == KeyAt(k)
           old == Trail(k)
<1>1. PICK new \in [0 .. h -> Int] :
        /\ new[h] = new_pos
        /\ linear' = [e \in DOMAIN linear |-> IF e = key[0] THEN new[0] ELSE linear[e]]
        /\ levels' = [i \in 0 .. h - 1 |->
                        Updated(i, key[i], old[i], new[i], Digit(k, i), new[i + 1])]
  <2> HIDE DEF key, old
  <2>1. PICK new \in {f \in [0 .. h -> 0 .. RandomBound - 1] :
                       /\ f[h] = new_pos
                       /\ \A i \in 0 .. h - 1 : f[i] \in PositionsOf(i, RandomBound)} :
          /\ linear' = [e \in DOMAIN linear |-> IF e = key[0] THEN new[0] ELSE linear[e]]
          /\ levels' = [i \in 0 .. h - 1 |->
                          Updated(i, key[i], old[i], new[i], Digit(k, i), new[i + 1])]
    <3>1. PICK kk \in {KeyAt(k)}, oo \in {Trail(k)},
               new \in {f \in [0 .. h -> 0 .. RandomBound - 1] :
                          /\ f[h] = new_pos
                          /\ \A i \in 0 .. h - 1 : f[i] \in PositionsOf(i, RandomBound)} :
            /\ linear' = [e \in DOMAIN linear |-> IF e = kk[0] THEN new[0] ELSE linear[e]]
            /\ levels' = [i \in 0 .. h - 1 |->
                            Updated(i, kk[i], oo[i], new[i], Digit(k, i), new[i + 1])]
      BY Zenon DEF access_position
    <3>2. kk = key /\ oo = old
      BY DEF key, old
    <3> QED
      BY <3>1, <3>2, Zenon
  <2>2. new \in [0 .. h -> Int] /\ new[h] = new_pos
    OBVIOUS
  <2> QED
    BY <2>1, <2>2
<1>2. h \in Nat
  BY HeightIs
<1> DEFINE Renewed(i, j) == IF j = key[i] THEN [NodeOf(i, j) EXCEPT ![Digit(k, i)] = new[i + 1]]
                            ELSE NodeOf(i, j)
<1>3. ASSUME NEW i \in 0 .. h - 1, NEW j \in KeysOf(i)
      PROVE  /\ {c \in levels'[i] : c.key = j}
                  = {[key |-> j, pos |-> IF j = key[i] THEN new[i] ELSE Position(i, j),
                      node |-> Renewed(i, j)]}
             /\ NodeOf(i, j)' = Renewed(i, j)
             /\ DOMAIN NodeOf(i, j)' = Digits
  <2>1. key[i] \in KeysOf(i) /\ i \in 0 .. h
    BY <1>2, KeyAtIs
  <2>2. old[i] = Position(i, key[i])
    <3>1. ~(i = 0 /\ key[0] \notin DOMAIN linear)
      BY <1>2, LinearKey
    <3> QED
      BY <2>1, <3>1, TrailIs
  <2> DEFINE moved == [key |-> key[i], pos |-> new[i],
                       node |-> [NodeOf(i, key[i]) EXCEPT ![Digit(k, i)] = new[i + 1]]]
             block == [key |-> j, pos |-> IF j = key[i] THEN new[i] ELSE Position(i, j),
                       node |-> Renewed(i, j)]
  <2>3. levels'[i] = (levels[i] \ {BlockOf(i, key[i])}) \cup {moved}
    <3>1. Met(i, key[i], old[i]) = {BlockOf(i, key[i])} /\ Node(i, key[i], old[i]) = NodeOf(i, key[i])
      BY <2>1, <2>2, MetIs
    <3> QED
      BY <1>1, <3>1 DEF Updated
  <2>4. /\ {c \in levels[i] : c.key = j} = {BlockOf(i, j)}
        /\ {c \in levels[i] : c.key = key[i]} = {BlockOf(i, key[i])}
        /\ DOMAIN NodeOf(i, j) = Digits
    BY <2>1 DEF IInv, Entire
  <2>5. BlockOf(i, key[i]).key = key[i] /\ BlockOf(i, j).key = j /\ moved.key = key[i]
    BY DEF BlockOf
  <2>6. {c \in levels'[i] : c.key = j} = {block}
    <3>1. CASE j = key[i]
      <4>1. block = moved
        BY <3>1
      <4> HIDE DEF block, moved
      <4>2. {c \in levels'[i] : c.key = j} = {moved}
        BY <2>3, <2>4, <2>5, <3>1
      <4> QED
        BY <4>1, <4>2
    <3>2. CASE j # key[i]
      <4>1. block = BlockOf(i, j)
        BY <3>2 DEF BlockOf
      <4> HIDE DEF block, moved
      <4>2. {c \in levels'[i] : c.key = j} = {BlockOf(i, j)}
        BY <2>3, <2>4, <2>5, <3>2
      <4> QED
        BY <4>1, <4>2
    <3> QED
      BY <3>1, <3>2
  <2>7. NodeOf(i, j)' = Renewed(i, j)
    <3>1. NodeOf(i, j)' = (CHOOSE b \in levels'[i] : b.key = j).node
      BY DEF NodeOf
    <3>2. block.node = Renewed(i, j)
      OBVIOUS
    <3> HIDE DEF block, Renewed
    <3>3. (CHOOSE b \in levels'[i] : b.key = j) = block
      BY <2>6
    <3> QED
      BY <3>1, <3>2, <3>3
  <2>8. DOMAIN Renewed(i, j) = Digits
    BY <2>4
  <2> QED
    BY <2>6, <2>7, <2>8
<1>4. ASSUME NEW i \in 0 .. h, NEW j \in KeysOf(i), i > 0 \/ j \in DOMAIN linear
      PROVE  Position(i, j)' = IF j = key[i] THEN new[i] ELSE Position(i, j)
  <2>1. CASE i = 0
    BY <1>1, <1>4, <2>1 DEF Position
  <2>2. CASE i # 0
    <3> DEFINE q == j \div FAN_OUT
               d == j % FAN_OUT
    <3>1. i \in 1 .. h /\ i - 1 \in 0 .. h - 1 /\ i - 1 \in Nat /\ (i - 1) + 1 = i
      BY <1>2, <2>2
    <3>2. q \in KeysOf(i - 1) /\ d \in Digits /\ j = (q * FAN_OUT) + d
      BY <3>1, ChildKey
    <3>3. /\ key[i] \div FAN_OUT = key[i - 1] /\ key[i] % FAN_OUT = Digit(k, i - 1)
          /\ key[i] = (key[i - 1] * FAN_OUT) + Digit(k, i - 1)
      BY <3>1, ParentKey, KeyAtIs
    <3>4. j = key[i] <=> q = key[i - 1] /\ d = Digit(k, i - 1)
      BY <3>2, <3>3
    <3>5. NodeOf(i - 1, q)' = Renewed(i - 1, q) /\ DOMAIN NodeOf(i - 1, q) = Digits
      BY <1>3, <3>1, <3>2 DEF IInv, Entire
    <3>6. Position(i, j)' = NodeOf(i - 1, q)'[d] /\ Position(i, j) = NodeOf(i - 1, q)[d]
      BY <2>2 DEF Position
    <3> HIDE DEF q, d
    <3>7. NodeOf(i - 1, q)'[d] = IF q = key[i - 1] /\ d = Digit(k, i - 1) THEN new[i]
                                ELSE NodeOf(i - 1, q)[d]
      BY <3>1, <3>2, <3>5
    <3> QED
      BY <3>4, <3>6, <3>7
  <2> QED
    BY <2>1, <2>2
<1>5. ASSUME NEW i \in 0 .. h - 1 PROVE Entire(i)'
  <2> SUFFICES ASSUME NEW j \in KeysOf(i)
               PROVE  /\ {c \in levels'[i] : c.key = j} = {BlockOf(i, j)'}
                      /\ DOMAIN NodeOf(i, j)' = Digits
    BY DEF Entire, KeysOf, Width
  <2>1. i \in 0 .. h /\ (i > 0 \/ j \in DOMAIN linear)
    <3>1. h > 0 => DOMAIN linear = KeysOf(0)
      BY EntriesAre, WidthIs DEF IInv, KeysOf
    <3> QED
      BY <1>2, <3>1
  <2>2. Position(i, j)' = IF j = key[i] THEN new[i] ELSE Position(i, j)
    BY <1>4, <2>1
  <2>3. BlockOf(i, j)' = [key |-> j, pos |-> Position(i, j)', node |-> NodeOf(i, j)']
    BY DEF BlockOf
  <2> QED
    BY <1>3, <2>2, <2>3
<1>6. DOMAIN linear' = DOMAIN linear
  BY <1>1
<1> QED
  BY <1>1, <1>4, <1>5, <1>6
-------------------------------------------------------------------------------
(* `new` fills the levels so that every node is where the level above says.    *)
LEMMA NewIs ==
  ASSUME New
  PROVE  /\ IInv
         /\ \E drawn :
              /\ \A i \in 0 .. h : \A j \in KeysOf(i) : drawn[<<i, j>>] \in PositionsOf(i, InitialBound)
              /\ \A i \in 0 .. h : \A j \in KeysOf(i) :
                   i > 0 \/ j \in DOMAIN linear =>
                     Position(i, j) = IF i = 0 /\ j >= n THEN DUMMY_POS ELSE drawn[<<i, j>>]
<1> DEFINE places == UNION {{<<i, j>> : j \in 0 .. Width(i) - 1} : i \in 0 .. h}
<1>1. PICK drawn \in [places -> 0 .. InitialBound - 1] :
        /\ \A p \in places : drawn[p] \in PositionsOf(p[1], InitialBound)
        /\ linear = [k \in 0 .. Min({Entries(n), LINEAR_MAP_SIZE}) - 1 |->
                       IF k < n THEN drawn[<<0, k>>] ELSE DUMMY_POS]
        /\ levels = [i \in 0 .. h - 1 |->
                       {[key |-> j, pos |-> drawn[<<i, j>>],
                         node |-> [d \in Digits |-> drawn[<<i + 1, j * FAN_OUT + d>>]]] :
                          j \in 0 .. Width(i) - 1}]
  BY DEF New
<1>2. h \in Nat
  BY HeightIs
<1>3. \A i \in 0 .. h : \A j \in KeysOf(i) : drawn[<<i, j>>] \in PositionsOf(i, InitialBound)
  <2> SUFFICES ASSUME NEW i \in 0 .. h, NEW j \in KeysOf(i)
               PROVE  drawn[<<i, j>>] \in PositionsOf(i, InitialBound)
    OBVIOUS
  <2>1. <<i, j>> \in places /\ <<i, j>>[1] = i
    BY DEF KeysOf
  <2> HIDE DEF places
  <2> QED
    BY <1>1, <2>1
<1> HIDE DEF places
<1> DEFINE Fresh(i, j) == [d \in Digits |-> drawn[<<i + 1, j * FAN_OUT + d>>]]
           block(i, j) == [key |-> j, pos |-> drawn[<<i, j>>], node |-> Fresh(i, j)]
<1>4. ASSUME NEW i \in 0 .. h - 1, NEW j \in KeysOf(i)
      PROVE  {c \in levels[i] : c.key = j} = {block(i, j)} /\ NodeOf(i, j) = Fresh(i, j)
  <2>1. levels[i] = {block(i, m) : m \in KeysOf(i)}
    BY <1>1 DEF KeysOf
  <2>2. \A m : block(i, m).key = m
    OBVIOUS
  <2>3. block(i, j).node = Fresh(i, j)
    OBVIOUS
  <2> HIDE DEF block, Fresh
  <2>4. {c \in levels[i] : c.key = j} = {block(i, j)}
    BY <2>1, <2>2
  <2>5. (CHOOSE b \in levels[i] : b.key = j) = block(i, j)
    BY <2>4
  <2> QED
    BY <2>3, <2>4, <2>5 DEF NodeOf
<1>5. ASSUME NEW i \in 0 .. h, NEW j \in KeysOf(i), i > 0 \/ j \in DOMAIN linear
      PROVE  Position(i, j) = IF i = 0 /\ j >= n THEN DUMMY_POS ELSE drawn[<<i, j>>]
  <2>1. CASE i = 0
    <3>1. j \in Int
      BY <2>1, <1>2, WidthIs DEF KeysOf
    <3>2. Position(i, j) = IF j < n THEN drawn[<<0, j>>] ELSE DUMMY_POS
      BY <1>1, <1>5, <2>1 DEF Position
    <3> QED
      BY <2>1, <3>1, <3>2, Sizes
  <2>2. CASE i # 0
    <3> DEFINE q == j \div FAN_OUT
               d == j % FAN_OUT
    <3>1. i - 1 \in 0 .. h - 1 /\ i - 1 \in Nat /\ (i - 1) + 1 = i
      BY <1>2, <2>2
    <3>2. q \in KeysOf(i - 1) /\ d \in Digits /\ j = (q * FAN_OUT) + d
      BY <3>1, ChildKey
    <3>3. NodeOf(i - 1, q) = Fresh(i - 1, q)
      BY <1>4, <3>1, <3>2
    <3>4. Position(i, j) = NodeOf(i - 1, q)[d]
      BY <2>2 DEF Position
    <3> HIDE DEF q, d
    <3>5. Fresh(i - 1, q)[d] = drawn[<<i, j>>]
      BY <3>1, <3>2
    <3> QED
      BY <2>2, <3>3, <3>4, <3>5
  <2> QED
    BY <2>1, <2>2
<1>6. DOMAIN linear = 0 .. Min({Entries(n), LINEAR_MAP_SIZE}) - 1
  BY <1>1
<1>7. ASSUME NEW i \in 0 .. h - 1 PROVE Entire(i)
  <2> SUFFICES ASSUME NEW j \in KeysOf(i)
               PROVE  /\ {c \in levels[i] : c.key = j} = {BlockOf(i, j)}
                      /\ DOMAIN NodeOf(i, j) = Digits
    BY DEF Entire
  <2>1. h > 0 /\ i \in 0 .. h
    BY <1>2
  <2>2. DOMAIN linear = KeysOf(0) /\ \A m \in KeysOf(0) : m < n
    <3>1. DOMAIN linear = 0 .. LINEAR_MAP_SIZE - 1
      BY <1>6, <2>1, EntriesAre
    <3>2. n > LINEAR_MAP_SIZE
      BY <2>1, HeightIs
    <3>3. KeysOf(0) = 0 .. LINEAR_MAP_SIZE - 1
      BY WidthIs DEF KeysOf
    <3> QED
      BY <3>1, <3>2, <3>3, Sizes
  <2>3. Position(i, j) = drawn[<<i, j>>]
    <3>1. j \in Int
      BY <2>1, <1>2, WidthIs DEF KeysOf
    <3>2. i = 0 => ~(j >= n)
      BY <2>2, <3>1, Sizes
    <3>3. i > 0 \/ j \in DOMAIN linear
      BY <1>2, <2>2
    <3> QED
      BY <1>5, <2>1, <3>2, <3>3
  <2>4. NodeOf(i, j) = Fresh(i, j) /\ {c \in levels[i] : c.key = j} = {block(i, j)}
    BY <1>4
  <2>5. DOMAIN Fresh(i, j) = Digits
    OBVIOUS
  <2>6. BlockOf(i, j) = block(i, j)
    <3> HIDE DEF Fresh
    <3> QED
      BY <2>3, <2>4 DEF BlockOf
  <2> HIDE DEF Fresh, block
  <2> QED
    BY <2>4, <2>5, <2>6
<1> QED
  BY <1>3, <1>5, <1>6, <1>7 DEF IInv

LEMMA InitIsIInv == New => IInv
BY NewIs

LEMMA Inductive == IInv /\ [Accesses]_mapVars => IInv'
<1> SUFFICES ASSUME IInv, [Accesses]_mapVars PROVE IInv'
  OBVIOUS
<1>1. CASE Accesses
  <2>1. PICK k \in Keys, new_pos \in PositionsOf(h, RandomBound) : access_position(k, new_pos)
    BY <1>1 DEF Accesses
  <2>2. k \in Nat
    BY PositionMapAssumption
  <2>3. DOMAIN linear' = DOMAIN linear /\ \A i \in 0 .. h - 1 : Entire(i)'
    BY <2>1, <2>2, Accessed
  <2> QED
    BY <2>3 DEF IInv
<1>2. CASE UNCHANGED mapVars
  <2>1. linear' = linear /\ levels' = levels
    BY <1>2 DEF mapVars
  <2>2. \A i, j : NodeOf(i, j)' = NodeOf(i, j) /\ Position(i, j)' = Position(i, j)
    BY <2>1 DEF NodeOf, Position
  <2>3. \A i, j : BlockOf(i, j)' = BlockOf(i, j)
    BY <2>2 DEF BlockOf
  <2>4. \A i : Entire(i)' <=> Entire(i)
    BY <2>1, <2>2, <2>3 DEF Entire
  <2> QED
    BY <2>1, <2>4 DEF IInv
<1> QED
  BY <1>1, <1>2

LEMMA Invariant == MapSpec => []IInv
BY InitIsIInv, Inductive, PTL DEF MapSpec

(* No access of any key ever misses a node: whatever number of levels there    *)
(* are, each has every node once, where the level above points.                *)
THEOREM PointersNeverDangle == MapSpec => []PointersAgree
<1>1. IInv => PointersAgree
  <2> SUFFICES ASSUME IInv, NEW i \in 0 .. h - 1, NEW j \in 0 .. Width(i) - 1
               PROVE  \E b \in levels[i] : /\ {c \in levels[i] : c.key = j} = {b}
                                           /\ PointerTo(i, j) = {b.pos}
    BY DEF PointersAgree
  <2>1. {c \in levels[i] : c.key = j} = {BlockOf(i, j)} /\ BlockOf(i, j).pos = Position(i, j)
    BY DEF IInv, Entire, KeysOf, BlockOf
  <2>2. PointerTo(i, j) = {Position(i, j)}
    <3>1. CASE i = 0
      BY <3>1 DEF PointerTo, Position
    <3>2. CASE i # 0
      <4> DEFINE q == j \div FAN_OUT
      <4>1. i - 1 \in 0 .. h - 1 /\ i - 1 \in Nat /\ (i - 1) + 1 = i
        BY <3>2, HeightIs
      <4>2. q \in KeysOf(i - 1)
        BY <4>1, ChildKey DEF KeysOf
      <4>3. {c \in levels[i - 1] : c.key = q} = {BlockOf(i - 1, q)}
        BY <4>1, <4>2 DEF IInv, Entire
      <4>4. BlockOf(i - 1, q).node = NodeOf(i - 1, q)
        BY DEF BlockOf
      <4>5. PointerTo(i, j) = {b.node[j % FAN_OUT] : b \in {c \in levels[i - 1] : c.key = q}}
        BY <3>2 DEF PointerTo
      <4>6. Position(i, j) = NodeOf(i - 1, q)[j % FAN_OUT]
        BY <3>2 DEF Position
      <4> HIDE DEF q
      <4> QED
        BY <4>3, <4>4, <4>5, <4>6
    <3> QED
      BY <3>1, <3>2
  <2> QED
    BY <2>1, <2>2
<1> QED
  BY <1>1, Invariant, PTL
-------------------------------------------------------------------------------
(* The refinement: first, the operators of PositionMap are those used here.    *)

LEMMA SameTables ==
  /\ PM!NewTables(n) = NewTables(n)
  /\ PM!Span(n) = Span(n)
  /\ \A k, pos : PM!Access(k, pos) = Access(k, pos)
  /\ PM!DUMMY_POS = DUMMY_POS
<1>1. PM!Power = Power
  BY DEF PM!Power, Power
<1>2. PM!LINEAR_MAP_SIZE = LINEAR_MAP_SIZE /\ PM!DUMMY_POS = DUMMY_POS
  BY DEF PM!LINEAR_MAP_SIZE, LINEAR_MAP_SIZE, PM!DUMMY_POS, DUMMY_POS
<1>3. PM!Height(n) = Height(n)
  BY <1>1, <1>2 DEF PM!Height, Height
<1>4. PM!Span(n) = Span(n)
  BY <1>1, <1>2, <1>3 DEF PM!Span, Span
<1>5. \A T : PM!Min(T) = Min(T)
  BY DEF PM!Min, Min
<1>6. PM!Entries(n) = Entries(n)
  BY <1>3, <1>4, <1>5 DEF PM!Entries, Entries
<1>7. PM!Random(n, InitialBound) = Random(n, InitialBound)
  BY <1>5 DEF PM!Random, Random
<1>8. PM!NewTables(n) = NewTables(n)
  BY <1>2, <1>3, <1>6, <1>7 DEF PM!NewTables, NewTables
<1>9. \A k, pos : PM!Access(k, pos) = Access(k, pos)
  BY DEF PM!Access, Access
<1> QED
  BY <1>2, <1>4, <1>8, <1>9

LEMMA TableIs ==
  ASSUME IInv, NEW k \in 0 .. Entries(n) - 1
  PROVE  /\ k \in Nat /\ KeyAt(k)[h] \in KeysOf(h)
         /\ h > 0 \/ KeyAt(k)[h] \in DOMAIN linear
         /\ h = 0 => KeyAt(k)[h] = k
         /\ Trail(k)[h] = Position(h, KeyAt(k)[h])
<1>1. h \in Nat /\ Entries(n) \in Nat
  BY HeightIs, EntriesAre, WidthIs, Sizes
<1>2. k \in Nat
  BY <1>1
<1>3. KeyAt(k)[h] \in KeysOf(h)
  BY <1>1, <1>2, KeyAtIs
<1>4. h = 0 => KeyAt(k)[h] = k /\ k \in DOMAIN linear
  <2> SUFFICES ASSUME h = 0 PROVE KeyAt(k)[0] = k /\ k \in DOMAIN linear
    OBVIOUS
  <2>1. DOMAIN linear = 0 .. Entries(n) - 1 /\ k \in 0 .. LINEAR_MAP_SIZE - 1
    BY EntriesAre, Sizes DEF IInv
  <2>2. (0 * LINEAR_MAP_SIZE) + k = k
    BY <1>2, Sizes
  <2>3. k % LINEAR_MAP_SIZE = k
    BY <2>1, <2>2, Sizes, DivModUnique
  <2> QED
    BY <1>2, <2>1, <2>3, KeyAtIs
<1>5. Trail(k)[h] = Position(h, KeyAt(k)[h])
  BY <1>2, <1>4, TrailEnds
<1> QED
  BY <1>1, <1>2, <1>3, <1>4, <1>5

LEMMA TableReads ==
  IInv => \A k \in 0 .. Entries(n) - 1 : Trail(k)[h] = Position(h, KeyAt(k)[h])
BY TableIs

LEMMA TableReadsNext ==
  IInv' => (\A k \in 0 .. Entries(n) - 1 : Trail(k)[h] = Position(h, KeyAt(k)[h]))'
BY TableReads, PTL

LEMMA InitIsTable == New => PM!Init
<1> SUFFICES ASSUME New PROVE PM!Init
  OBVIOUS
<1> DEFINE table == [k \in 0 .. Entries(n) - 1 |-> Trail(k)[h]]
<1>1. IInv
  BY NewIs
<1>2. PICK drawn :
        /\ \A i \in 0 .. h : \A j \in KeysOf(i) : drawn[<<i, j>>] \in PositionsOf(i, InitialBound)
        /\ \A i \in 0 .. h : \A j \in KeysOf(i) :
             i > 0 \/ j \in DOMAIN linear =>
               Position(i, j) = IF i = 0 /\ j >= n THEN DUMMY_POS ELSE drawn[<<i, j>>]
  BY NewIs
<1>3. h \in Nat /\ h \in 0 .. h
  BY HeightIs
<1>4. ASSUME NEW k \in 0 .. Entries(n) - 1
      PROVE  Trail(k)[h] = IF h = 0 /\ k >= n THEN DUMMY_POS ELSE drawn[<<h, KeyAt(k)[h]>>]
  BY <1>1, <1>2, <1>3, TableIs
<1>5. ASSUME NEW k \in 0 .. Entries(n) - 1
      PROVE  drawn[<<h, KeyAt(k)[h]>>] \in Random(n, InitialBound)
  <2>1. KeyAt(k)[h] \in KeysOf(h)
    BY <1>1, TableIs
  <2> QED
    BY <1>2, <1>3, <2>1 DEF PositionsOf
<1>6. DUMMY_POS \notin Random(n, InitialBound)
  BY DEF DUMMY_POS, Random
<1>7. table \in [0 .. Entries(n) - 1 -> Random(n, InitialBound) \cup {DUMMY_POS}]
  BY <1>4, <1>5
<1>8. \A k \in DOMAIN table : table[k] = DUMMY_POS <=> Height(n) = 0 /\ k >= n
  BY <1>4, <1>5, <1>6 DEF h
<1> HIDE DEF table
<1>9. table \in NewTables(n)
  BY <1>7, <1>8 DEF NewTables
<1>10. ret = Access(0, DUMMY_POS)
  BY DEF New
<1> QED
  BY <1>9, <1>10, SameTables DEF PM!Init, table

(* An access to k looks up, and replaces, the entry of k's residue.            *)
LEMMA AccessIsLookup ==
  ASSUME IInv, NEW k \in Nat, NEW new_pos, access_position(k, new_pos)
  PROVE  PM!access_position(k, new_pos)
<1> DEFINE table == [e \in 0 .. Entries(n) - 1 |-> Trail(e)[h]]
           slot == k % Span(n)
<1>1. h \in Nat /\ h \in 0 .. h /\ Span(n) = Width(h)
  BY HeightIs DEF Span, Width, h
<1>2. Width(h) \in Nat /\ Width(h) > 0
  BY <1>1, WidthIs
<1>3. slot \in 0 .. Width(h) - 1 /\ slot \in Nat
  BY <1>1, <1>2, DivMod
<1>4. slot % Width(h) = slot
  <2>1. (0 * Width(h)) + slot = slot
    BY <1>2, <1>3
  <2> QED
    BY <1>2, <1>3, <2>1, DivModUnique
<1>5. KeyAt(slot)[h] = KeyAt(k)[h]
  BY <1>1, <1>3, <1>4, SameNode
<1>6. \A e \in 0 .. Entries(n) - 1 : KeyAt(e)[h] = KeyAt(k)[h] <=> e = slot
  <2> SUFFICES ASSUME NEW e \in 0 .. Entries(n) - 1
               PROVE  KeyAt(e)[h] = KeyAt(k)[h] <=> e = slot
    OBVIOUS
  <2>1. e \in Nat /\ e \in 0 .. Width(h) - 1
    BY <1>1, <1>2, EntriesAre, WidthIs
  <2>2. e % Width(h) = e
    <3>1. (0 * Width(h)) + e = e
      BY <1>2, <2>1
    <3> QED
      BY <1>2, <2>1, <3>1, DivModUnique
  <2>3. KeyAt(e)[h] = KeyAt(k)[h] <=> e % Width(h) = k % Width(h)
    BY <1>1, <2>1, SameNode
  <2> QED
    BY <1>1, <2>2, <2>3
<1>7. slot \in DOMAIN table <=> h > 0 \/ KeyAt(k)[0] \in DOMAIN linear
  <2>1. CASE h > 0
    BY <1>1, <1>3, <2>1, EntriesAre
  <2>2. CASE h = 0
    <3>1. DOMAIN linear = 0 .. Entries(n) - 1
      BY <2>2, EntriesAre DEF IInv
    <3>2. KeyAt(k)[0] = slot
      BY <1>1, <2>2, KeyAtIs, WidthIs
    <3> QED
      BY <2>2, <3>1, <3>2
  <2> QED
    BY <1>1, <2>1, <2>2
<1>8. Trail(k)[h] = IF slot \in DOMAIN table THEN table[slot] ELSE DUMMY_POS
  <2>1. CASE slot \in DOMAIN table
    <3>1. Trail(slot)[h] = Position(h, KeyAt(k)[h])
      BY <1>5, <2>1, TableIs
    <3>2. Trail(k)[h] = Position(h, KeyAt(k)[h])
      BY <1>1, <1>7, <2>1, TrailEnds
    <3> QED
      BY <2>1, <3>1, <3>2
  <2>2. CASE slot \notin DOMAIN table
    BY <1>1, <1>7, <2>2, TrailEnds
  <2> QED
    BY <2>1, <2>2
<1>9. PICK new \in [0 .. h -> Int] :
        /\ new[h] = new_pos
        /\ \A i \in 0 .. h : \A j \in KeysOf(i) :
             i > 0 \/ j \in DOMAIN linear =>
               Position(i, j)' = IF j = KeyAt(k)[i] THEN new[i] ELSE Position(i, j)
  BY Accessed
<1>10. DOMAIN linear' = DOMAIN linear /\ IInv'
  <2>1. DOMAIN linear' = DOMAIN linear /\ \A i \in 0 .. h - 1 : Entire(i)'
    BY Accessed
  <2> QED
    BY <2>1 DEF IInv
<1>11. ASSUME NEW e \in 0 .. Entries(n) - 1
       PROVE  (Trail(e)[h])' = IF e = slot THEN new_pos ELSE Trail(e)[h]
  <2>1. /\ KeyAt(e)[h] \in KeysOf(h) /\ (h > 0 \/ KeyAt(e)[h] \in DOMAIN linear)
        /\ Trail(e)[h] = Position(h, KeyAt(e)[h])
    BY TableIs
  <2>2. (Trail(e)[h])' = Position(h, KeyAt(e)[h])'
    BY <1>10, TableReadsNext
  <2>3. Position(h, KeyAt(e)[h])' = IF KeyAt(e)[h] = KeyAt(k)[h] THEN new[h] ELSE Position(h, KeyAt(e)[h])
    BY <1>1, <1>9, <2>1
  <2> QED
    BY <1>6, <1>9, <2>1, <2>2, <2>3
<1>12. table' = [e \in 0 .. Entries(n) - 1 |-> (Trail(e)[h])']
  OBVIOUS
<1> HIDE DEF slot
<1>13. table' = [e \in DOMAIN table |-> IF e = slot THEN new_pos ELSE table[e]]
  BY <1>11, <1>12
<1>14. ret' = Access(k, Trail(k)[h])
  BY DEF access_position
<1> HIDE DEF table
<1> QED
  BY <1>8, <1>13, <1>14, SameTables
  DEF PM!access_position, PM!Looked, PM!Stored, PM!Slot, table, slot

(* An access returns the position last stored for its key, stores the new one, *)
(* and changes that of no other key, for every number of levels.               *)
THEOREM MapIsTable == MapSpec => ImplementsPositionMap
<1>1. ASSUME IInv, [Accesses]_mapVars PROVE [PM!Next]_mapVars
  <2>1. CASE Accesses
    <3>1. PICK k \in Keys, new_pos \in PositionsOf(h, RandomBound) : access_position(k, new_pos)
      BY <2>1 DEF Accesses
    <3>2. k \in Nat
      BY PositionMapAssumption
    <3>3. PM!access_position(k, new_pos)
      BY <1>1, <3>1, <3>2, AccessIsLookup
    <3> QED
      BY <3>3 DEF PM!Next
  <2> QED
    BY <1>1, <2>1
<1> QED
  BY <1>1, InitIsTable, Invariant, PTL DEF MapSpec, ImplementsPositionMap
-------------------------------------------------------------------------------
(* The arrays.  First the sizes: a leaf for every element, an entry for every  *)
(* index.                                                                      *)

LEMMA LeavesAre ==
  ASSUME NEW m \in Nat, m > 0
  PROVE  Leaves(m) \in Nat /\ m <= Leaves(m)
<1>1. /\ TwoTo[0] = 1
      /\ \A i \in Nat : TwoTo[i + 1] = 2 * TwoTo[i]
      /\ \A i \in Nat : TwoTo[i] \in Nat \ {0} /\ TwoTo[i] > i
  <2>1. TwoTo = Powers(2)
    BY DEF TwoTo, Powers
  <2> QED
    BY <2>1, PowersAre
<1> DEFINE Above == {e \in Nat : m <= TwoTo[e]}
<1>2. PICK e \in Above : \A x \in Above : e <= x
  <2>1. m \in Above
    BY <1>1
  <2> QED
    BY <2>1, LeastNatural
<1>3. e \in 0 .. m /\ m <= TwoTo[e] /\ TwoTo[e] < 2 * m
  <2>1. CASE e = 0
    BY <1>1, <1>2, <2>1
  <2>2. CASE e # 0
    <3>1. e - 1 \in Nat /\ (e - 1) + 1 = e /\ e - 1 \notin Above
      BY <1>2, <2>2
    <3>2. TwoTo[e - 1] \in Nat /\ TwoTo[e - 1] > e - 1 /\ TwoTo[e - 1] < m
          /\ TwoTo[e] = 2 * TwoTo[e - 1]
      BY <1>1, <3>1
    <3> QED
      BY <1>2, <3>1, <3>2
  <2> QED
    BY <2>1, <2>2
<1>4. TwoTo[e] \in {TwoTo[x] : x \in 0 .. m}
  BY <1>3
<1>5. Leaves(m) \in {TwoTo[x] : x \in 0 .. m} /\ m <= Leaves(m)
  BY <1>3, <1>4 DEF Leaves
<1>6. \A y \in {TwoTo[x] : x \in 0 .. m} : y \in Nat
  <2>1. \A x \in 0 .. m : TwoTo[x] \in Nat
    BY <1>1
  <2> QED
    BY <2>1
<1> QED
  BY <1>5, <1>6

LEMMA EntriesOf ==
  ASSUME NEW m \in Nat, m > 0
  PROVE  /\ Entries(m) \in Nat /\ m <= Entries(m)
         /\ \A i \in 0 .. m - 1 : i \in 0 .. Entries(m) - 1 /\ Slot(m, i) = i
<1>1. Height(m) \in Nat /\ (Height(m) > 0 <=> m > LINEAR_MAP_SIZE)
      /\ Span(m) \in Nat /\ m <= Span(m)
  BY HeightOf
<1>2. Entries(m) \in Nat /\ m <= Entries(m)
  <2>1. CASE Height(m) > 0
    BY <1>1, <2>1 DEF Entries
  <2>2. CASE ~(Height(m) > 0)
    <3> DEFINE x == m + FAN_OUT - 1
               a == x \div FAN_OUT
               l == Min({a, LEVEL_0_BUCKETS})
    <3>1. x \in Nat
      BY LinearSize
    <3>2. a \in Nat /\ x % FAN_OUT \in 0 .. FAN_OUT - 1 /\ x = (a * FAN_OUT) + (x % FAN_OUT)
      BY <3>1, LinearSize, DivMod
    <3>3. Entries(m) = FAN_OUT * l
      BY <2>2 DEF Entries
    <3>4. m <= FAN_OUT * a /\ FAN_OUT * a \in Nat
      <4> HIDE DEF a
      <4>1. FAN_OUT * a = a * FAN_OUT /\ a * FAN_OUT \in Nat
        BY <3>2, LinearSize
      <4> HIDE DEF x
      <4>2. x = m + FAN_OUT - 1
        BY DEF x
      <4> QED
        BY <3>1, <3>2, <4>1, <4>2, LinearSize
    <3>5. m <= FAN_OUT * LEVEL_0_BUCKETS /\ FAN_OUT * LEVEL_0_BUCKETS \in Nat
      BY <1>1, <2>2, LinearSize DEF LINEAR_MAP_SIZE
    <3>6. l = IF a <= LEVEL_0_BUCKETS THEN a ELSE LEVEL_0_BUCKETS
      BY <3>2, LinearSize, MinIs
    <3> HIDE DEF a, l
    <3> QED
      BY <3>3, <3>4, <3>5, <3>6
  <2> QED
    BY <2>1, <2>2
<1>3. ASSUME NEW i \in 0 .. m - 1 PROVE Slot(m, i) = i
  <2>1. i \in 0 .. Span(m) - 1 /\ Span(m) \in Nat
    BY <1>1
  <2>2. (0 * Span(m)) + i = i
    BY <2>1
  <2>3. ((0 * Span(m)) + i) % Span(m) = i
    BY <2>1, DivModUnique
  <2> QED
    BY <2>2, <2>3 DEF Slot
<1> QED
  BY <1>2, <1>3

(* The position of an index of a table. *)
TableOf(m) == [0 .. Entries(m) - 1 -> Int]

LEMMA RandomIs == \A m, bound : Random(m, bound) \subseteq Int
BY DEF Random

LEMMA NewTablesAre == \A m : NewTables(m) \subseteq TableOf(m)
BY RandomIs DEF NewTables, TableOf, DUMMY_POS

LEMMA TableStores ==
  ASSUME NEW m \in Nat, m > 0, NEW t \in TableOf(m), NEW k, NEW pos \in Int
  PROVE  /\ Stored(t, m, k, pos) \in TableOf(m)
         /\ Looked(t, m, k) \in Int
         /\ \A i \in 0 .. m - 1 : /\ Looked(t, m, i) = t[i]
                                  /\ Stored(t, m, k, pos)[i] = IF i = Slot(m, k) THEN pos ELSE t[i]
<1> DEFINE E == 0 .. Entries(m) - 1
           new == Stored(t, m, k, pos)
<1>1. \A i \in 0 .. m - 1 : i \in E /\ Slot(m, i) = i
  BY EntriesOf
<1>2. DOMAIN t = E /\ \A j \in E : t[j] \in Int
  BY DEF TableOf
<1>3. new = [j \in E |-> IF j = Slot(m, k) THEN pos ELSE t[j]]
  BY <1>2 DEF Stored
<1> HIDE DEF E, new
<1>4. new \in [E -> Int]
  BY <1>2, <1>3
<1>5. Looked(t, m, k) \in Int
  BY <1>2 DEF Looked, DUMMY_POS
<1>6. \A i \in 0 .. m - 1 : Looked(t, m, i) = t[i]
  BY <1>1, <1>2 DEF Looked
<1>7. \A i \in 0 .. m - 1 : new[i] = IF i = Slot(m, k) THEN pos ELSE t[i]
  BY <1>1, <1>3
<1> QED
  BY <1>4, <1>5, <1>6, <1>7 DEF TableOf, E, new
-------------------------------------------------------------------------------
(* The blocks of an ORAM.                                                      *)

BlockType == [key : Nat, pos : Int, value : Value]

(* The blocks of a key, and the keys that have one. *)
BlocksFor(blocks, key) == {b \in blocks : b.key = key}
Keyed(blocks) == {b.key : b \in blocks}
ValueIn(blocks, key) == (CHOOSE b \in blocks : b.key = key).value

Unique(blocks) == \A b, c \in blocks : b.key = c.key => b = c

LEMMA BlockIs ==
  ASSUME NEW key, NEW pos, NEW v
  PROVE  LET b == Block(key, pos, v) IN
         /\ b.key = key /\ b.pos = pos /\ b.value = v
         /\ key \in Nat /\ pos \in Int /\ v \in Value => b \in BlockType
BY DEF Block, BlockType

LEMMA KeyedIs == \A blocks, key : key \in Keyed(blocks) <=> \E b \in blocks : b.key = key
BY DEF Keyed

LEMMA ValueOfBlock ==
  ASSUME NEW blocks, Unique(blocks), NEW b \in blocks
  PROVE  /\ BlocksFor(blocks, b.key) = {b} /\ ValueIn(blocks, b.key) = b.value
<1>1. \A c \in blocks : c.key = b.key => c = b
  BY DEF Unique
<1>2. (CHOOSE c \in blocks : c.key = b.key) = b
  BY <1>1
<1> QED
  BY <1>1, <1>2 DEF BlocksFor, ValueIn

(* A scan at the position where the block of its key is, meets it.             *)
LEMMA MeetsOnly ==
  ASSUME NEW blocks, NEW key, NEW pos, \A b \in blocks : b.key = key => b.pos = pos
  PROVE  Meets(blocks, key, pos) = {BlocksFor(blocks, key)}
<1>1. {b \in blocks : b.key = key /\ b.pos = pos} = BlocksFor(blocks, key)
  BY DEF BlocksFor
<1>2. {b \in blocks : b.key = key /\ b.pos # pos} = {}
  OBVIOUS
<1>3. Meets(blocks, key, pos) = {BlocksFor(blocks, key) \cup chance : chance \in SUBSET {}}
  BY <1>1, <1>2 DEF Meets
<1>4. BlocksFor(blocks, key) \cup {} = BlocksFor(blocks, key)
  OBVIOUS
<1>5. SUBSET {} = {{}}
  OBVIOUS
<1> QED
  BY <1>3, <1>4, <1>5, Zenon

(* Every block has a key of its own, so the other blocks are less than the     *)
(* keys.                                                                       *)
LEMMA NoneTooMany ==
  ASSUME NEW blocks, Unique(blocks), NEW key, NEW K, Keyed(blocks) \cup {key} \subseteq K,
         IsFiniteSet(K), NEW l \in Nat, Cardinality(K) <= l
  PROVE  Cardinality(blocks \ BlocksFor(blocks, key)) < l
<1> DEFINE rest == blocks \ BlocksFor(blocks, key)
           T == K \ {key}
           f == [b \in rest |-> b.key]
<1>1. IsFiniteSet(T) /\ Cardinality(T) = Cardinality(K) - 1
  <2>1. key \in K
    OBVIOUS
  <2> QED
    BY <2>1, FS_RemoveElement
<1>2. Cardinality(K) \in Nat
  BY FS_CardinalityType
<1>3. \A b \in rest : b \in blocks /\ b.key \in T
  BY DEF BlocksFor, Keyed
<1>4. f \in Injection(rest, T)
  BY <1>3 DEF Injection, IsInjective, Unique
<1> HIDE DEF rest, T, f
<1>5. Cardinality(rest) <= Cardinality(T) /\ IsFiniteSet(rest)
  BY <1>1, <1>4, FS_Injection
<1>6. Cardinality(rest) \in Nat
  BY <1>5, FS_CardinalityType
<1> QED
  BY <1>1, <1>2, <1>5, <1>6 DEF rest

LEMMA StoredWhole ==
  ASSUME NEW blocks, NEW block, NEW m, Cardinality(blocks) < Leaves(m)
  PROVE  StoredIn(blocks, block, m) = {blocks \cup {block}}
BY DEF StoredIn

(* Replacing the block of a key, by X, a block or nothing. *)
Replacement(blocks, key, X) == (blocks \ BlocksFor(blocks, key)) \cup X

Replaces(X, key, pos, v) ==
  X \subseteq {Block(key, pos, v)} /\ key \in Nat /\ pos \in Int /\ v \in Value

LEMMA Replaced ==
  ASSUME NEW blocks, blocks \in SUBSET BlockType, Unique(blocks),
         NEW key, NEW pos, NEW v, NEW X, Replaces(X, key, pos, v)
  PROVE  LET new == Replacement(blocks, key, X) IN
         /\ new \in SUBSET BlockType /\ Unique(new)
         /\ Keyed(new) = (Keyed(blocks) \ {key}) \cup Keyed(X)
         /\ \A k : k # key => BlocksFor(new, k) = BlocksFor(blocks, k)
         /\ BlocksFor(new, key) = X
         /\ \A k \in Keyed(blocks) : k # key => ValueIn(new, k) = ValueIn(blocks, k)
         /\ X # {} => ValueIn(new, key) = v
<1> DEFINE mine == Block(key, pos, v)
           new == Replacement(blocks, key, X)
<1>1. mine.key = key /\ mine.pos = pos /\ mine.value = v /\ mine \in BlockType
  BY BlockIs DEF Replaces
<1> HIDE DEF mine
<1>2. \A b \in X : b = mine
  BY DEF mine, Replaces
<1>3. \A b : b \in new <=> (b \in blocks /\ b.key # key) \/ b \in X
  BY DEF BlocksFor, Replacement
<1> HIDE DEF new
<1>4. new \in SUBSET BlockType /\ Unique(new)
  <2>1. \A b \in new : b \in BlockType
    BY <1>1, <1>2, <1>3
  <2>2. \A b, c \in new : b.key = c.key => b = c
    BY <1>1, <1>2, <1>3 DEF Unique
  <2> QED
    BY <2>1, <2>2 DEF Unique
<1>5. Keyed(new) = (Keyed(blocks) \ {key}) \cup Keyed(X)
  <2>1. \A k : k \in Keyed(new) <=> k \in (Keyed(blocks) \ {key}) \cup Keyed(X)
    BY <1>3, KeyedIs
  <2> QED
    BY <2>1
<1>6. ASSUME NEW k, k # key PROVE BlocksFor(new, k) = BlocksFor(blocks, k)
  BY <1>1, <1>2, <1>3, <1>6 DEF BlocksFor
<1>7. BlocksFor(new, key) = X
  BY <1>1, <1>2, <1>3 DEF BlocksFor
<1>8. ASSUME NEW k \in Keyed(blocks), k # key PROVE ValueIn(new, k) = ValueIn(blocks, k)
  <2>1. PICK b \in blocks : b.key = k
    BY KeyedIs
  <2>2. b \in new
    BY <1>3, <1>8, <2>1
  <2> QED
    BY <1>4, <2>1, <2>2, ValueOfBlock
<1>9. ASSUME X # {} PROVE ValueIn(new, key) = v
  <2>1. mine \in new
    BY <1>2, <1>3, <1>9
  <2> QED
    BY <1>1, <1>4, <2>1, ValueOfBlock
<1> QED
  BY <1>4, <1>5, <1>6, <1>7, <1>8, <1>9 DEF new
-------------------------------------------------------------------------------
(* The inductive invariant: every block is where the position map has it, so   *)
(* it is met, and there is a leaf for all keys that are or may be stored.      *)

Kinds == {"short", "long", "dynamic", "multiway", "vector"}

KeysDue == Keyed(data) \cup (IF kind = "multiway" THEN {} ELSE 0 .. size - 1)

InPlace == \A w \in Subarrays : \A i \in 0 .. size - 1 : \A b \in data :
             b.key = get_real_index(<<w, i>>) => b.pos = pos_map[w][i]

InOram == /\ pos_map \in [Subarrays -> TableOf(size)]
          /\ data \in SUBSET BlockType /\ Unique(data)
          /\ InPlace
          /\ IsFiniteSet(KeysDue) /\ Cardinality(KeysDue) <= Leaves(size)
          /\ kind = "vector" => 0 .. len - 1 \subseteq Keyed(data)

Good == /\ kind \in Kinds
        /\ size \in Nat \ {0} /\ len \in 0 .. size /\ (kind # "vector" => len = 0)
        /\ IF kind = "short" THEN data \in [0 .. size - 1 -> Value] ELSE InOram

ArrayInv == harmed \in BOOLEAN /\ (~harmed => Good)

(* The cells that an array has, though a vector may be shorter.                *)
AllCells == Subarrays \X (0 .. size - 1)

LEMMA CellsAre ==
  ASSUME Good
  PROVE  /\ Cells \subseteq AllCells
         /\ Length \in 0 .. size /\ (kind # "vector" => Length = size)
         /\ Subarrays \subseteq 0 .. W - 1 /\ 0 \in 0 .. W - 1
         /\ kind # "multiway" => Subarrays = {0}
         /\ \A c \in AllCells : c = <<c[1], c[2]>> /\ c[1] \in Subarrays /\ c[2] \in 0 .. size - 1
<1>1. W \in Nat /\ W > 0
  BY ArraysAssumption
<1>2. Length \in 0 .. size /\ (kind # "vector" => Length = size)
  BY DEF Good, Length
<1>3. Subarrays \subseteq 0 .. W - 1 /\ 0 \in 0 .. W - 1 /\ (kind # "multiway" => Subarrays = {0})
  BY <1>1 DEF Subarrays
<1> QED
  BY <1>2, <1>3 DEF Cells, AllCells, Good

LEMMA CellsInside == Good => Cells \subseteq AllCells
BY CellsAre

LEMMA CellsInsideNext == (Good => Cells \subseteq AllCells)'
BY CellsInside, PTL

(* Each cell has a key of its own.                                             *)
LEMMA RealIndex ==
  ASSUME Good
  PROVE  /\ \A c \in AllCells : get_real_index(c) \in Nat
         /\ \A c, d \in AllCells : get_real_index(c) = get_real_index(d) => c = d
         /\ kind # "multiway" => \A c \in AllCells : get_real_index(c) = c[2]
<1>1. W \in Nat /\ W > 0
  BY ArraysAssumption
<1>2. \A c \in AllCells : c = <<c[1], c[2]>> /\ c[1] \in Subarrays /\ c[2] \in Nat
  BY CellsAre DEF Good
<1>3. CASE kind = "multiway"
  <2>1. \A c \in AllCells : get_real_index(c) = c[2] * W + c[1] /\ c[1] \in 0 .. W - 1
    BY <1>2, <1>3 DEF get_real_index, Subarrays
  <2>2. ASSUME NEW c \in AllCells, NEW d \in AllCells, get_real_index(c) = get_real_index(d)
        PROVE  c = d
    <3>1. /\ ((c[2] * W) + c[1]) % W = c[1] /\ ((c[2] * W) + c[1]) \div W = c[2]
          /\ ((d[2] * W) + d[1]) % W = d[1] /\ ((d[2] * W) + d[1]) \div W = d[2]
      BY <1>1, <1>2, <2>1, DivModUnique
    <3>2. (c[2] * W) + c[1] = (d[2] * W) + d[1]
      BY <2>1, <2>2
    <3> QED
      BY <1>2, <3>1, <3>2
  <2>3. \A c \in AllCells : c[2] * W \in Nat
    BY <1>1, <1>2
  <2> QED
    BY <1>3, <2>1, <2>2, <2>3
<1>4. CASE kind # "multiway"
  <2>1. \A c \in AllCells : get_real_index(c) = c[2] /\ c[1] = 0
    BY <1>2, <1>4 DEF get_real_index, Subarrays
  <2> QED
    BY <1>2, <1>4, <2>1
<1> QED
  BY <1>3, <1>4

(* What the abstract array sees. *)
Memory == IF kind = "short" THEN [c \in Cells |-> data[c[2]]]
          ELSE [c \in {x \in Cells : Findable(x) # {}} |->
                  (CHOOSE b \in Findable(c) : TRUE).value]

Filled(c) == kind = "short" \/ get_real_index(c) \in Keyed(data)
ValueAt(c) == IF kind = "short" THEN data[c[2]] ELSE ValueIn(data, get_real_index(c))

(* An access to a cell looks for its block where it is.                        *)
LEMMA CellMeets ==
  ASSUME Good, kind # "short", NEW c \in AllCells
  PROVE  /\ Looked(pos_map[c[1]], size, c[2]) \in Int
         /\ Findable(c) = BlocksFor(data, get_real_index(c))
         /\ Meets(data, get_real_index(c), Looked(pos_map[c[1]], size, c[2]))
              = {BlocksFor(data, get_real_index(c))}
<1> DEFINE key == get_real_index(c)
           pos == Looked(pos_map[c[1]], size, c[2])
<1>1. InOram /\ size \in Nat /\ size > 0
  BY DEF Good
<1>2. c = <<c[1], c[2]>> /\ c[1] \in Subarrays /\ c[2] \in 0 .. size - 1
  BY CellsAre
<1>3. pos_map[c[1]] \in TableOf(size)
  BY <1>1, <1>2 DEF InOram
<1>4. pos = pos_map[c[1]][c[2]] /\ pos \in Int
  <2>1. 0 \in Int
    OBVIOUS
  <2> QED
    BY <1>1, <1>2, <1>3, <2>1, TableStores
<1>5. \A b \in data : b.key = key => b.pos = pos
  BY <1>1, <1>2, <1>4 DEF InOram, InPlace
<1>6. Findable(c) = BlocksFor(data, key)
  BY <1>5 DEF Findable, BlocksFor
<1> HIDE DEF key, pos
<1>7. Meets(data, key, pos) = {BlocksFor(data, key)}
  BY <1>5, MeetsOnly
<1> QED
  BY <1>4, <1>6, <1>7 DEF key, pos

LEMMA MemoryIs == Good => Memory = [c \in {x \in Cells : Filled(x)} |-> ValueAt(c)]
<1> SUFFICES ASSUME Good PROVE Memory = [c \in {x \in Cells : Filled(x)} |-> ValueAt(c)]
  OBVIOUS
<1>1. CASE kind = "short"
  <2>1. {x \in Cells : Filled(x)} = Cells
    BY <1>1 DEF Filled
  <2> QED
    BY <1>1, <2>1 DEF Memory, ValueAt
<1>2. CASE kind # "short"
  <2>1. ASSUME NEW c \in Cells
        PROVE  /\ Findable(c) # {} <=> Filled(c)
               /\ Filled(c) => (CHOOSE b \in Findable(c) : TRUE).value = ValueAt(c)
    <3> DEFINE key == get_real_index(c)
    <3>1. Findable(c) = BlocksFor(data, key)
      BY <1>2, CellsAre, CellMeets
    <3>2. Filled(c) <=> key \in Keyed(data)
      BY <1>2 DEF Filled
    <3> HIDE DEF key
    <3>3. BlocksFor(data, key) # {} <=> key \in Keyed(data)
      BY DEF BlocksFor, Keyed
    <3>4. ASSUME NEW b \in data, b.key = key
          PROVE  (CHOOSE x \in BlocksFor(data, key) : TRUE).value = ValueIn(data, key)
      <4>1. Unique(data)
        BY <1>2 DEF Good, InOram
      <4>2. BlocksFor(data, key) = {b} /\ ValueIn(data, key) = b.value
        BY <3>4, <4>1, ValueOfBlock
      <4> QED
        BY <4>2
    <3>5. Filled(c) => (CHOOSE x \in BlocksFor(data, key) : TRUE).value = ValueIn(data, key)
      BY <3>2, <3>4, KeyedIs
    <3> QED
      BY <1>2, <3>1, <3>2, <3>3, <3>5 DEF ValueAt, key
  <2>2. {x \in Cells : Findable(x) # {}} = {x \in Cells : Filled(x)}
    BY <2>1
  <2>3. Memory = [c \in {x \in Cells : Filled(x)} |-> (CHOOSE b \in Findable(c) : TRUE).value]
    BY <1>2, <2>2 DEF Memory
  <2>4. \A c \in {x \in Cells : Filled(x)} : (CHOOSE b \in Findable(c) : TRUE).value = ValueAt(c)
    BY <2>1
  <2> QED
    BY <2>3, <2>4
<1> QED
  BY <1>1, <1>2

LEMMA MemoryIsNext ==
  (Good => Memory = [c \in {x \in Cells : Filled(x)} |-> ValueAt(c)])'
BY MemoryIs, PTL
-------------------------------------------------------------------------------
(* One access: the block of a cell goes, and X, the new one if any, comes.     *)

Stores(c, pos, X) ==
  /\ pos_map' = [pos_map EXCEPT ![c[1]] = Stored(pos_map[c[1]], size, c[2], pos)]
  /\ data' = Replacement(data, get_real_index(c), X)

AccessOf(c, pos, v, X) ==
  /\ c \in AllCells /\ pos \in Int /\ v \in Value
  /\ X \subseteq {Block(get_real_index(c), pos, v)}
  /\ X = {} => get_real_index(c) \notin Keyed(data)
  /\ Stores(c, pos, X)
  /\ kind' = kind /\ size' = size /\ len' \in 0 .. size /\ (kind # "vector" => len' = 0)
  /\ IsFiniteSet(KeysDue \cup Keyed(X)) /\ Cardinality(KeysDue \cup Keyed(X)) <= Leaves(size)
  /\ kind = "vector" => 0 .. len' - 1 \subseteq Keyed(data) \cup Keyed(X)

LEMMA AccessKeeps ==
  ASSUME Good, kind # "short", NEW c, NEW pos, NEW v, NEW X, AccessOf(c, pos, v, X)
  PROVE  /\ Good'
         /\ Keyed(data') = Keyed(data) \cup Keyed(X)
         /\ \A k \in Keyed(data) : k # get_real_index(c) => ValueIn(data', k) = ValueIn(data, k)
         /\ X # {} => ValueIn(data', get_real_index(c)) = v
         /\ X # {} => Keyed(X) = {get_real_index(c)}
<1> USE DEF AccessOf
<1> DEFINE key == get_real_index(c)
<1>1. InOram /\ size \in Nat /\ size > 0 /\ kind \in Kinds
  BY DEF Good
<1>2. c = <<c[1], c[2]>> /\ c[1] \in Subarrays /\ c[2] \in 0 .. size - 1 /\ key \in Nat
  BY CellsAre, RealIndex
<1>3. \A d : get_real_index(d)' = get_real_index(d)
  BY DEF get_real_index
<1>4. Subarrays' = Subarrays
  BY DEF Subarrays
<1>5. /\ \A b \in X : b = Block(key, pos, v) /\ b.key = key /\ b.pos = pos
      /\ X # {} => Keyed(X) = {key}
      /\ X = {} => Keyed(X) = {}
  BY BlockIs DEF Keyed
<1> HIDE DEF key
<1>6. data' = Replacement(data, key, X)
  BY DEF Stores, key
<1>7. /\ data' \in SUBSET BlockType /\ Unique(data')
      /\ Keyed(data') = (Keyed(data) \ {key}) \cup Keyed(X)
      /\ \A k : k # key => BlocksFor(data', k) = BlocksFor(data, k)
      /\ BlocksFor(data', key) = X
      /\ \A k \in Keyed(data) : k # key => ValueIn(data', k) = ValueIn(data, k)
      /\ X # {} => ValueIn(data', key) = v
  <2>1. data \in SUBSET BlockType /\ Unique(data) /\ Replaces(X, key, pos, v)
    BY <1>1, <1>2 DEF InOram, Replaces, key
  <2> QED
    BY <1>6, <2>1, Replaced
<1>8. Keyed(data') = Keyed(data) \cup Keyed(X)
  BY <1>5, <1>7 DEF key
<1>9. pos_map' \in [Subarrays -> TableOf(size)]
      /\ \A w \in Subarrays : \A i \in 0 .. size - 1 :
           pos_map'[w][i] = IF w = c[1] /\ i = c[2] THEN pos ELSE pos_map[w][i]
  <2> DEFINE t == Stored(pos_map[c[1]], size, c[2], pos)
  <2>1. pos_map \in [Subarrays -> TableOf(size)] /\ pos_map[c[1]] \in TableOf(size)
    BY <1>1, <1>2 DEF InOram
  <2>2. t \in TableOf(size)
        /\ \A i \in 0 .. size - 1 : t[i] = IF i = Slot(size, c[2]) THEN pos ELSE pos_map[c[1]][i]
    BY <1>1, <2>1, TableStores
  <2>3. Slot(size, c[2]) = c[2]
    BY <1>1, <1>2, EntriesOf
  <2>4. pos_map' = [pos_map EXCEPT ![c[1]] = t]
    BY DEF Stores
  <2> HIDE DEF t
  <2> QED
    BY <1>2, <2>1, <2>2, <2>3, <2>4
<1>10. InPlace'
  <2> SUFFICES ASSUME NEW w \in Subarrays, NEW i \in 0 .. size - 1, NEW b \in data',
                      b.key = get_real_index(<<w, i>>)
               PROVE  b.pos = pos_map'[w][i]
    BY <1>3, <1>4 DEF InPlace
  <2>1. <<w, i>> \in AllCells
    BY DEF AllCells
  <2>2. CASE b.key = key
    <3>1. <<w, i>> = c
      BY <2>1, <2>2, RealIndex DEF key
    <3>2. b \in X
      BY <1>7, <2>2 DEF BlocksFor
    <3> QED
      BY <1>2, <1>5, <1>9, <3>1, <3>2
  <2>3. CASE b.key # key
    <3>1. b \in data
      BY <1>5, <1>6, <2>3 DEF Replacement
    <3>2. <<w, i>> # c
      BY <2>3 DEF key
    <3>3. pos_map'[w][i] = pos_map[w][i]
      BY <1>2, <1>9, <3>2
    <3>4. b.pos = pos_map[w][i]
      BY <1>1, <3>1 DEF InOram, InPlace
    <3> QED
      BY <3>3, <3>4
  <2> QED
    BY <2>2, <2>3
<1>11. IsFiniteSet(KeysDue') /\ Cardinality(KeysDue') <= Leaves(size')
  <2>1. KeysDue' = KeysDue \cup Keyed(X)
    BY <1>8 DEF KeysDue
  <2> QED
    BY <2>1
<1>12. InOram'
  <2>1. kind' = "vector" => 0 .. len' - 1 \subseteq Keyed(data')
    BY <1>8
  <2>2. pos_map' \in [Subarrays' -> TableOf(size')]
    BY <1>4, <1>9 DEF TableOf
  <2> QED
    BY <1>7, <1>10, <1>11, <2>1, <2>2 DEF InOram
<1>13. Good'
  BY <1>1, <1>12 DEF Good
<1> QED
  BY <1>5, <1>7, <1>8, <1>13 DEF key

(* A stored block always finds a leaf, so the stash never overflows.           *)
LEMMA RoomFor ==
  ASSUME Good, kind # "short", NEW c \in AllCells,
         HasRoom(c) \/ get_real_index(c) \in Keyed(data)
  PROVE  LET key == get_real_index(c)
             K == KeysDue \cup {key}
         IN /\ IsFiniteSet(K) /\ Cardinality(K) <= Leaves(size)
            /\ Cardinality(data \ BlocksFor(data, key)) < Leaves(size)
<1> DEFINE key == get_real_index(c)
           K == KeysDue \cup {key}
<1>1. InOram /\ size \in Nat /\ size > 0
  BY DEF Good
<1>2. Leaves(size) \in Nat /\ size <= Leaves(size)
  BY <1>1, LeavesAre
<1>3. IsFiniteSet(K)
  BY <1>1, FS_AddElement DEF InOram
<1>4. Cardinality(K) \in Nat
  BY <1>3, FS_CardinalityType
<1>5. key \in Keyed(data) => K = KeysDue
  BY DEF KeysDue
<1>6. kind # "multiway" => K = KeysDue
  <2>1. kind # "multiway" => key \in 0 .. size - 1
    BY CellsAre, RealIndex
  <2> QED
    BY <2>1 DEF KeysDue
<1>7. kind = "multiway" /\ HasRoom(c) => Cardinality(K) <= size
  BY DEF HasRoom, KeysDue, Keyed
<1>8. Cardinality(K) <= Leaves(size)
  <2>1. Cardinality(KeysDue) <= Leaves(size)
    BY <1>1 DEF InOram
  <2>2. CASE K = KeysDue
    BY <2>1, <2>2
  <2>3. CASE K # KeysDue
    <3>1. Cardinality(K) <= size
      BY <1>5, <1>6, <1>7, <2>3
    <3> QED
      BY <1>1, <1>2, <1>4, <3>1
  <2> QED
    BY <2>2, <2>3
<1>9. Keyed(data) \cup {key} \subseteq K
  BY DEF KeysDue
<1> HIDE DEF key, K
<1>10. Cardinality(data \ BlocksFor(data, key)) < Leaves(size)
  BY <1>1, <1>2, <1>3, <1>8, <1>9, NoneTooMany DEF InOram
<1> QED
  BY <1>3, <1>8, <1>10 DEF key, K

LEMMA WrittenSome ==
  ASSUME NEW st, NEW m, NEW i, NEW key, NEW v, NEW new \in Written(st, m, i, key, v)
  PROVE  \E pos \in Random(m, RandomBound) :
         \E met \in Meets(st.blocks, key, Looked(st.table, m, i)) :
         \E blocks \in StoredIn(st.blocks \ met, Block(key, pos, v), m) :
           new = Contents(Stored(st.table, m, i, pos), blocks)
<1> DEFINE Each(pos, met) ==
             {Contents(Stored(st.table, m, i, pos), blocks) :
                blocks \in StoredIn(st.blocks \ met, Block(key, pos, v), m)}
           Scanned == Meets(st.blocks, key, Looked(st.table, m, i))
<1>1. new \in UNION {UNION {Each(pos, met) : met \in Scanned} : pos \in Random(m, RandomBound)}
  BY DEF Written
<1>2. PICK pos \in Random(m, RandomBound), met \in Scanned : new \in Each(pos, met)
  <2> HIDE DEF Each, Scanned
  <2> QED
    BY <1>1
<1>3. PICK blocks \in StoredIn(st.blocks \ met, Block(key, pos, v), m) :
        new = Contents(Stored(st.table, m, i, pos), blocks)
  BY <1>2
<1> QED
  BY <1>3

(* The scan meets just these blocks, and there is a leaf for one more.         *)
Sought(table, blocks, m, i, key, met) ==
  /\ Meets(blocks, key, Looked(table, m, i)) = {met}
  /\ Cardinality(blocks \ met) < Leaves(m)

LEMMA WrittenIs ==
  ASSUME NEW table, NEW blocks, NEW m, NEW i, NEW key, NEW v, NEW met,
         Sought(table, blocks, m, i, key, met),
         NEW new \in Written(Contents(table, blocks), m, i, key, v)
  PROVE  \E pos \in Random(m, RandomBound) :
           new = Contents(Stored(table, m, i, pos), (blocks \ met) \cup {Block(key, pos, v)})
<1> DEFINE old == Contents(table, blocks)
<1>1. old.table = table /\ old.blocks = blocks
  BY DEF Contents
<1> HIDE DEF old
<1>2. \E pos \in Random(m, RandomBound) : \E y \in Meets(old.blocks, key, Looked(old.table, m, i)) :
        \E bs \in StoredIn(old.blocks \ y, Block(key, pos, v), m) :
          new = Contents(Stored(old.table, m, i, pos), bs)
  <2>1. new \in Written(old, m, i, key, v)
    BY DEF old
  <2> QED
    BY <2>1, WrittenSome
<1>3. PICK pos \in Random(m, RandomBound) : \E y \in Meets(blocks, key, Looked(table, m, i)) :
         \E bs \in StoredIn(blocks \ y, Block(key, pos, v), m) :
           new = Contents(Stored(table, m, i, pos), bs)
  BY <1>1, <1>2
<1>4. PICK bs \in StoredIn(blocks \ met, Block(key, pos, v), m) :
         new = Contents(Stored(table, m, i, pos), bs)
  BY <1>3 DEF Sought
<1>5. bs = (blocks \ met) \cup {Block(key, pos, v)}
  BY <1>4, StoredWhole DEF Sought
<1> QED
  BY <1>4, <1>5

(* What the abstract array sees of an access.                                  *)
MemoryAfter(c, v, X) ==
  [x \in {y \in Cells' : Filled(y) \/ (y = c /\ X # {})} |->
     IF x = c /\ X # {} THEN v ELSE ValueAt(x)]

LEMMA AccessMemory ==
  ASSUME Good, kind # "short", NEW c, NEW pos, NEW v, NEW X, AccessOf(c, pos, v, X)
  PROVE  /\ Good'
         /\ X = {} => ~Filled(c)
         /\ Memory' = MemoryAfter(c, v, X)
<1> DEFINE key == get_real_index(c)
<1>1. /\ Good'
      /\ Keyed(data') = Keyed(data) \cup Keyed(X)
      /\ \A k \in Keyed(data) : k # key => ValueIn(data', k) = ValueIn(data, k)
      /\ X # {} => ValueIn(data', key) = v
      /\ X # {} => Keyed(X) = {key}
  BY AccessKeeps
<1>2. /\ kind' = kind /\ size' = size /\ c \in AllCells
      /\ X = {} => key \notin Keyed(data) /\ Keyed(X) = {}
  BY DEF AccessOf, Keyed
<1>3. \A d : get_real_index(d)' = get_real_index(d)
  BY <1>2 DEF get_real_index
<1>4. Cells' \subseteq AllCells
  <2>1. AllCells' = AllCells
    BY <1>2 DEF AllCells, Subarrays
  <2> QED
    BY <1>1, <2>1, CellsInsideNext
<1>5. \A x \in AllCells : get_real_index(x) = key <=> x = c
  BY <1>2, RealIndex
<1> HIDE DEF key
<1>6. \A x \in AllCells : /\ Filled(x) <=> get_real_index(x) \in Keyed(data)
                          /\ Filled(x)' <=> get_real_index(x) \in Keyed(data')
                          /\ ValueAt(x) = ValueIn(data, get_real_index(x))
                          /\ ValueAt(x)' = ValueIn(data', get_real_index(x))
  BY <1>2, <1>3 DEF Filled, ValueAt
<1>7. ASSUME NEW x \in AllCells
      PROVE  /\ Filled(x)' <=> Filled(x) \/ (x = c /\ X # {})
             /\ Filled(x)' => ValueAt(x)' = IF x = c /\ X # {} THEN v ELSE ValueAt(x)
  <2>1. CASE x = c
    <3>1. get_real_index(x) = key
      BY <1>5, <2>1
    <3>2. CASE X = {}
      BY <1>1, <1>2, <1>6, <2>1, <3>1, <3>2
    <3>3. CASE X # {}
      BY <1>1, <1>6, <2>1, <3>1, <3>3
    <3> QED
      BY <3>2, <3>3
  <2>2. CASE x # c
    <3>1. get_real_index(x) # key
      BY <1>5, <2>2
    <3>2. get_real_index(x) \in Keyed(data') <=> get_real_index(x) \in Keyed(data)
      BY <1>1, <1>2, <3>1
    <3>3. Filled(x)' <=> Filled(x)
      BY <1>6, <3>2
    <3>4. Filled(x) => ValueAt(x)' = ValueAt(x)
      BY <1>1, <1>6, <3>1
    <3> QED
      BY <2>2, <3>3, <3>4
  <2> QED
    BY <2>1, <2>2
<1>8. Memory' = [x \in {y \in Cells' : Filled(y)'} |-> ValueAt(x)']
  BY <1>1, MemoryIsNext
<1>9. {y \in Cells' : Filled(y)'} = {y \in Cells' : Filled(y) \/ (y = c /\ X # {})}
  BY <1>4, <1>7
<1>10. \A x \in {y \in Cells' : Filled(y) \/ (y = c /\ X # {})} :
         ValueAt(x)' = IF x = c /\ X # {} THEN v ELSE ValueAt(x)
  BY <1>4, <1>7
<1>11. Memory' = [x \in {y \in Cells' : Filled(y) \/ (y = c /\ X # {})} |-> ValueAt(x)']
  BY <1>8, <1>9
<1>12. X = {} => ~Filled(c)
  BY <1>2, <1>6 DEF key
<1> QED
  BY <1>1, <1>10, <1>11, <1>12 DEF MemoryAfter

-------------------------------------------------------------------------------
(* The operations of PlainArray, of what it sees.                              *)

LEMMA AbstractRead ==
  ASSUME NEW c, Memory' = Memory, Length' = Length,
         answer' = Answer("read", c, c \in DOMAIN Memory,
                          IF c \in DOMAIN Memory THEN Memory[c] ELSE NoValue)
  PROVE  PA!Read(c)
BY DEF PA!Read, PA!IsWritten, PA!ValueOr, PA!Answer, Answer, Memory

LEMMA AbstractWrite ==
  ASSUME NEW c, NEW v, Memory' = With(Memory, c, v), Length' = Length,
         answer' = Answer("write", c, TRUE, v)
  PROVE  PA!Write(c, v)
BY DEF PA!Write, PA!With, With, PA!Answer, Answer, Memory

LEMMA AbstractUpdate ==
  ASSUME NEW c, NEW v, Memory' = With(Memory, c, v), Length' = Length,
         answer' = Answer("update", c, c \in DOMAIN Memory,
                          IF c \in DOMAIN Memory THEN Memory[c] ELSE Default)
  PROVE  PA!Update(c, v)
BY DEF PA!Update, PA!IsWritten, PA!ValueOr, PA!With, With, PA!Answer, Answer, Memory

LEMMA AbstractResize ==
  ASSUME NEW m, Length' = m, answer' = Answer("resize", NoCell, TRUE, NoValue),
         Memory' = [c \in {x \in {0} \X (0 .. Length - 1) : x[2] < m} |->
                      IF c \in DOMAIN Memory THEN Memory[c] ELSE Default]
  PROVE  PA!Resize(m)
BY DEF PA!Resize, PA!IsWritten, PA!ValueOr, PA!Answer, Answer, PA!NoCell, NoCell, Memory

LEMMA AbstractPush ==
  ASSUME NEW v, Memory' = With(Memory, <<0, Length>>, v), Length' = Length + 1,
         answer' = Answer("push_back", NoCell, TRUE, v)
  PROVE  PA!Push(v)
BY DEF PA!Push, PA!With, With, PA!Answer, Answer, PA!NoCell, NoCell, Memory

LEMMA AbstractPop ==
  ASSUME Length > 0, <<0, Length - 1>> \in DOMAIN Memory,
         Memory' = Without(Memory, <<0, Length - 1>>), Length' = Length - 1,
         answer' = Answer("pop_back", NoCell, TRUE, Memory[<<0, Length - 1>>])
  PROVE  PA!Pop
BY DEF PA!Pop, PA!IsWritten, PA!Without, Without, PA!Answer, Answer, PA!NoCell, NoCell, Memory
-------------------------------------------------------------------------------
(* The calls.  First what they read.                                           *)

LEMMA MemoryAt ==
  ASSUME Good
  PROVE  /\ DOMAIN Memory = {x \in Cells : Filled(x)}
         /\ \A c \in Cells : Filled(c) => Memory[c] = ValueAt(c)
BY MemoryIs

(* What a scan for the block of a cell finds, and what moving it leaves.       *)
LEMMA ScanIs ==
  ASSUME Good, kind # "short", NEW c \in AllCells, NEW pos \in Random(size, RandomBound),
         NEW met \in Meets(data, get_real_index(c), Looked(pos_map[c[1]], size, c[2]))
  PROVE  LET key == get_real_index(c) IN
         /\ met = BlocksFor(data, key) /\ pos \in Int
         /\ met = {} <=> ~Filled(c)
         /\ \A b \in met :
              /\ b.key = key /\ b.value \in Value /\ b.value = ValueAt(c)
              /\ StoredIn(data \ met, Block(key, pos, b.value), size)
                   = {Replacement(data, key, {Block(key, pos, b.value)})}
<1> DEFINE key == get_real_index(c)
<1>1. met = BlocksFor(data, key)
  BY CellMeets
<1>2. pos \in Int
  BY RandomIs
<1>3. Filled(c) <=> key \in Keyed(data)
  BY DEF Filled
<1>4. ValueAt(c) = ValueIn(data, key)
  BY DEF ValueAt
<1>5. HasRoom(c) \/ key \in Keyed(data) => Cardinality(data \ BlocksFor(data, key)) < Leaves(size)
  BY RoomFor
<1>6. data \in SUBSET BlockType /\ Unique(data)
  BY DEF Good, InOram
<1> HIDE DEF key
<1>7. met = {} <=> ~Filled(c)
  BY <1>1, <1>3 DEF BlocksFor, Keyed
<1>8. ASSUME NEW b \in met
      PROVE  /\ b.key = key /\ b.value \in Value /\ b.value = ValueAt(c)
             /\ StoredIn(data \ met, Block(key, pos, b.value), size)
                  = {Replacement(data, key, {Block(key, pos, b.value)})}
  <2>1. b \in data /\ b.key = key
    BY <1>1 DEF BlocksFor
  <2>2. b.value \in Value
    BY <1>6, <2>1 DEF BlockType
  <2>3. ValueIn(data, key) = b.value
    BY <1>6, <2>1, ValueOfBlock
  <2>4. Cardinality(data \ met) < Leaves(size)
    BY <1>1, <1>3, <1>5, <1>7
  <2>5. StoredIn(data \ met, Block(key, pos, b.value), size)
          = {(data \ met) \cup {Block(key, pos, b.value)}}
    BY <2>4, StoredWhole
  <2> QED
    BY <1>1, <1>4, <2>1, <2>2, <2>3, <2>5 DEF Replacement
<1> QED
  BY <1>1, <1>2, <1>7, <1>8 DEF key

(* A scan that moves the block it finds.                                       *)
Scans(c, pos, met) ==
  /\ pos_map' = [pos_map EXCEPT ![c[1]] = Stored(pos_map[c[1]], size, c[2], pos)]
  /\ IF met = {} THEN data' = data
     ELSE \E b \in met : data' \in StoredIn(data \ met, Block(b.key, pos, b.value), size)
  /\ kind' = kind /\ size' = size /\ len' \in 0 .. len

LEMMA ScanKeeps ==
  ASSUME Good, kind # "short", NEW c \in AllCells, NEW pos \in Random(size, RandomBound),
         NEW met \in Meets(data, get_real_index(c), Looked(pos_map[c[1]], size, c[2])),
         Scans(c, pos, met)
  PROVE  Good' /\ Memory' = [x \in {y \in Cells' : Filled(y)} |-> ValueAt(x)]
<1> DEFINE key == get_real_index(c)
<1>1. InOram /\ size \in Nat /\ size > 0 /\ len \in 0 .. size
  BY DEF Good
<1>2. /\ met = BlocksFor(data, key) /\ pos \in Int
      /\ met = {} <=> ~Filled(c)
      /\ \A b \in met :
           /\ b.key = key /\ b.value \in Value /\ b.value = ValueAt(c)
           /\ StoredIn(data \ met, Block(key, pos, b.value), size)
                = {Replacement(data, key, {Block(key, pos, b.value)})}
  BY ScanIs
<1>3. Filled(c) <=> key \in Keyed(data)
  BY DEF Filled
<1>4. IsFiniteSet(KeysDue) /\ Cardinality(KeysDue) <= Leaves(size)
  BY <1>1 DEF InOram
<1>5. len' \in 0 .. size /\ (kind # "vector" => len' = 0)
      /\ (kind = "vector" => 0 .. len' - 1 \subseteq Keyed(data))
  <2>1. len' \in 0 .. size /\ kind' = kind /\ (kind # "vector" => len' = 0)
    BY <1>1 DEF Scans, Good
  <2>2. 0 .. len' - 1 \subseteq 0 .. len - 1
    <3>1. len' \in Int /\ len \in Int /\ len' <= len
      BY <1>1 DEF Scans
    <3>2. \A a, b \in Int : a <= b => 0 .. a - 1 \subseteq 0 .. b - 1
      OBVIOUS
    <3> QED
      BY <3>1, <3>2
  <2>3. kind = "vector" => 0 .. len - 1 \subseteq Keyed(data)
    BY <1>1 DEF InOram
  <2> QED
    BY <2>1, <2>2, <2>3
<1> HIDE DEF key
<1>6. CASE met = {}
  <2>1. data' = Replacement(data, key, {})
    BY <1>2, <1>6 DEF Scans, Replacement
  <2>2. Stores(c, pos, {})
    BY <2>1 DEF Stores, Scans, key
  <2>3. KeysDue \cup Keyed({}) = KeysDue
    BY DEF Keyed
  <2>4. key \notin Keyed(data)
    BY <1>2, <1>3, <1>6
  <2>5. AccessOf(c, pos, Default, {})
    BY <1>2, <1>4, <1>5, <2>2, <2>3, <2>4, ArraysAssumption DEF AccessOf, Scans, key
  <2>6. Good' /\ Memory' = MemoryAfter(c, Default, {})
    BY <2>5, AccessMemory
  <2> QED
    BY <2>6 DEF MemoryAfter
<1>7. CASE met # {}
  <2>1. PICK b \in met : data' \in StoredIn(data \ met, Block(b.key, pos, b.value), size)
    BY <1>7 DEF Scans
  <2> DEFINE v == b.value
             X == {Block(key, pos, v)}
  <2>2. data' = Replacement(data, key, X) /\ v \in Value /\ v = ValueAt(c)
    BY <1>2, <2>1
  <2>3. Stores(c, pos, X)
    BY <2>2 DEF Stores, Scans, key
  <2>4. key \in Keyed(data)
    BY <1>2, <1>3, <1>7
  <2>5. Keyed(X) = {key}
    BY BlockIs DEF Keyed
  <2>6. KeysDue \cup Keyed(X) = KeysDue
    BY <2>4, <2>5 DEF KeysDue
  <2>7. AccessOf(c, pos, v, X)
    <3>1. X # {} /\ X \subseteq {Block(key, pos, v)}
      OBVIOUS
    <3> HIDE DEF X, v
    <3> QED
      BY <1>2, <1>4, <1>5, <2>2, <2>3, <2>6, <3>1 DEF AccessOf, Scans, key
  <2>8. X # {}
    OBVIOUS
  <2> HIDE DEF X, v
  <2>9. Good' /\ Memory' = MemoryAfter(c, v, X)
    BY <2>7, AccessMemory
  <2>10. {y \in Cells' : Filled(y) \/ (y = c /\ X # {})} = {y \in Cells' : Filled(y)}
    BY <1>2, <1>7
  <2> QED
    BY <2>2, <2>8, <2>9, <2>10 DEF MemoryAfter
<1> QED
  BY <1>6, <1>7

(* A call that writes the cell, if it may. *)
Writes(c, v, st) ==
  /\ pos_map' = [pos_map EXCEPT ![c[1]] = st.table] /\ data' = st.blocks
  /\ kind' = kind /\ size' = size /\ len' \in 0 .. size /\ (kind # "vector" => len' = 0)
  /\ kind = "vector" => 0 .. len' - 1 \subseteq Keyed(data) \cup {get_real_index(c)}

LEMMA WriteKeeps ==
  ASSUME Good, kind # "short", NEW c \in AllCells, HasRoom(c), NEW v \in Value,
         NEW st \in Written(Contents(pos_map[c[1]], data), size, c[2], get_real_index(c), v),
         Writes(c, v, st)
  PROVE  Good' /\ Memory' = [x \in {y \in Cells' : Filled(y) \/ y = c} |->
                               IF x = c THEN v ELSE ValueAt(x)]
<1> DEFINE key == get_real_index(c)
           K == KeysDue \cup {key}
           met == BlocksFor(data, key)
<1>1. /\ IsFiniteSet(K) /\ Cardinality(K) <= Leaves(size)
      /\ Cardinality(data \ met) < Leaves(size)
  BY RoomFor
<1>2. Meets(data, key, Looked(pos_map[c[1]], size, c[2])) = {met}
  BY CellMeets
<1> DEFINE table == pos_map[c[1]]
           i == c[2]
<1>3. st \in Written(Contents(table, data), size, i, key, v)
  OBVIOUS
<1>4. Meets(data, key, Looked(table, size, i)) = {met}
  BY <1>2
<1> HIDE DEF key, met, table, i
<1>5. PICK pos \in Random(size, RandomBound) :
        st = Contents(Stored(table, size, i, pos), (data \ met) \cup {Block(key, pos, v)})
  <2>1. Sought(table, data, size, i, key, met)
    BY <1>1, <1>4 DEF Sought
  <2> QED
    BY <1>3, <2>1, WrittenIs
<1> DEFINE X == {Block(key, pos, v)}
<1>6. st.table = Stored(table, size, i, pos) /\ st.blocks = Replacement(data, key, X)
  BY <1>5 DEF Contents, Replacement, met
<1>7. X # {} /\ X \subseteq {Block(key, pos, v)} /\ Keyed(X) = {key}
  BY BlockIs DEF Keyed
<1>8. pos \in Int
  BY RandomIs
<1> HIDE DEF X, K
<1>9. Stores(c, pos, X)
  BY <1>6 DEF Stores, Writes, table, i, key
<1>10. KeysDue \cup Keyed(X) = K
  BY <1>7 DEF K
<1>11. AccessOf(c, pos, v, X)
  BY <1>1, <1>7, <1>8, <1>9, <1>10 DEF AccessOf, Writes, key
<1>12. Good' /\ Memory' = MemoryAfter(c, v, X)
  BY <1>11, AccessMemory
<1> QED
  BY <1>7, <1>12 DEF MemoryAfter
-------------------------------------------------------------------------------
(* Each call keeps the invariant and is a call of the plain array.             *)

LEMMA SameCells ==
  ASSUME kind' = kind, size' = size, len' = len
  PROVE  Length' = Length /\ Cells' = Cells
BY DEF Length, Cells, Subarrays

(* A cell holds what it did, but for one that is written.                      *)
LEMMA MemoryStays ==
  ASSUME Good, Cells' = Cells, Memory' = [x \in {y \in Cells' : Filled(y)} |-> ValueAt(x)]
  PROVE  Memory' = Memory
BY MemoryIs

LEMMA MemoryWith ==
  ASSUME Good, NEW c, c \in Cells', NEW v, Cells \subseteq Cells',
         \A x \in Cells' : x \in Cells \/ x = c \/ ~Filled(x),
         Memory' = [x \in {y \in Cells' : Filled(y) \/ y = c} |-> IF x = c THEN v ELSE ValueAt(x)]
  PROVE  Memory' = With(Memory, c, v)
<1>1. DOMAIN Memory = {x \in Cells : Filled(x)} /\ \A x \in Cells : Filled(x) => Memory[x] = ValueAt(x)
  BY MemoryAt
<1>2. {y \in Cells' : Filled(y) \/ y = c} = DOMAIN Memory \cup {c}
  BY <1>1
<1>3. \A x \in DOMAIN Memory \cup {c} :
        (IF x = c THEN v ELSE ValueAt(x)) = (IF x = c THEN v ELSE Memory[x])
  BY <1>1
<1>4. Memory' = [x \in DOMAIN Memory \cup {c} |-> IF x = c THEN v ELSE ValueAt(x)]
  BY <1>2
<1> QED
  BY <1>3, <1>4 DEF With

(* The cells of a short array. *)
LEMMA ShortArray ==
  ASSUME Good, kind = "short"
  PROVE  /\ data \in [0 .. size - 1 -> Value]
         /\ Cells = {0} \X (0 .. size - 1)
         /\ DOMAIN Memory = Cells
         /\ \A c \in Cells : c = <<0, c[2]>> /\ c[2] \in 0 .. size - 1 /\ Memory[c] = data[c[2]]
BY DEF Good, Cells, Subarrays, Length, Memory

LEMMA ReadStep ==
  ASSUME Good, NEW c \in Cells, Read(c)
  PROVE  Good' /\ PA!Read(c)
<1>1. kind' = kind /\ size' = size /\ len' = len
  BY DEF Read
<1>2. Length' = Length /\ Cells' = Cells
  BY <1>1, SameCells
<1>3. CASE kind = "short"
  <2>1. data' = data /\ answer' = Answer("read", c, TRUE, data[c[2]])
    BY <1>3 DEF Read
  <2>2. Memory' = Memory
    BY <1>1, <1>2, <1>3, <2>1 DEF Memory
  <2>3. Good'
    BY <1>1, <1>3, <2>1 DEF Good
  <2>4. c \in DOMAIN Memory /\ Memory[c] = data[c[2]]
    BY <1>3, ShortArray
  <2> QED
    BY <1>2, <2>1, <2>2, <2>3, <2>4, AbstractRead
<1>4. CASE kind # "short"
  <2>1. PICK pos \in Random(size, RandomBound),
             met \in Meets(data, get_real_index(c), Looked(pos_map[c[1]], size, c[2])) :
          /\ pos_map' = [pos_map EXCEPT ![c[1]] = Stored(@, size, c[2], pos)]
          /\ IF met = {}
             THEN answer' = Answer("read", c, FALSE, NoValue) /\ UNCHANGED data
             ELSE \E b \in met :
                    /\ answer' = Answer("read", c, TRUE, b.value)
                    /\ data' \in StoredIn(data \ met, Block(b.key, pos, b.value), size)
    BY <1>4 DEF Read, ReadCell
  <2>2. c \in AllCells
    BY CellsInside
  <2>3. Scans(c, pos, met)
    <3>1. len' \in 0 .. len
      BY <1>1 DEF Good
    <3> QED
      BY <1>1, <2>1, <3>1 DEF Scans
  <2>4. Good' /\ Memory' = Memory
    BY <1>2, <1>4, <2>2, <2>3, ScanKeeps, MemoryStays
  <2>5. /\ met = {} <=> ~Filled(c)
        /\ \A b \in met : b.value = ValueAt(c)
    BY <1>4, <2>2, ScanIs
  <2>6. /\ c \in DOMAIN Memory <=> met # {}
        /\ \A b \in met : Memory[c] = b.value
    BY <2>5, MemoryAt
  <2>7. answer' = Answer("read", c, c \in DOMAIN Memory, IF c \in DOMAIN Memory THEN Memory[c] ELSE NoValue)
    <3>1. CASE met = {}
      <4>1. (c \in DOMAIN Memory) = FALSE /\ answer' = Answer("read", c, FALSE, NoValue)
        BY <2>1, <2>6, <3>1
      <4>2. (IF c \in DOMAIN Memory THEN Memory[c] ELSE NoValue) = NoValue
        BY <4>1
      <4> QED
        BY <4>1, <4>2, Zenon
    <3>2. CASE met # {}
      BY <2>1, <2>6, <3>2
    <3> QED
      BY <3>1, <3>2
  <2> QED
    BY <1>2, <2>4, <2>7, AbstractRead
<1> QED
  BY <1>3, <1>4

(* Writes and updates do the same to the cell.                                 *)
LEMMA WriteCellStep ==
  ASSUME Good, kind # "short", NEW c \in Cells, NEW v \in Value, HasRoom(c), WriteCell(c, v),
         kind' = kind, size' = size, len' = len
  PROVE  Good' /\ Memory' = With(Memory, c, v)
<1>1. PICK st \in Written(Contents(pos_map[c[1]], data), size, c[2], get_real_index(c), v) :
        pos_map' = [pos_map EXCEPT ![c[1]] = st.table] /\ data' = st.blocks
  BY DEF WriteCell
<1>2. c \in AllCells
  BY CellsInside
<1>3. Writes(c, v, st)
  <2>1. len' \in 0 .. size /\ (kind # "vector" => len' = 0)
        /\ (kind = "vector" => 0 .. len' - 1 \subseteq Keyed(data))
    BY DEF Good, InOram
  <2> QED
    BY <1>1, <2>1 DEF Writes
<1>4. Good' /\ Memory' = [x \in {y \in Cells' : Filled(y) \/ y = c} |-> IF x = c THEN v ELSE ValueAt(x)]
  BY <1>2, <1>3, WriteKeeps
<1>5. Cells' = Cells
  BY SameCells
<1> QED
  BY <1>4, <1>5, MemoryWith

LEMMA WriteStep ==
  ASSUME Good, NEW c \in Cells, NEW v \in Value, HasRoom(c), Write(c, v)
  PROVE  Good' /\ PA!Write(c, v)
<1>1. kind' = kind /\ size' = size /\ len' = len /\ answer' = Answer("write", c, TRUE, v)
  BY DEF Write
<1>2. Length' = Length /\ Cells' = Cells
  BY <1>1, SameCells
<1>3. CASE kind = "short"
  <2>1. data' = [data EXCEPT ![c[2]] = v]
    BY <1>3 DEF Write
  <2>2. /\ data \in [0 .. size - 1 -> Value]
        /\ Cells = {0} \X (0 .. size - 1)
        /\ DOMAIN Memory = Cells
        /\ \A x \in Cells : x = <<0, x[2]>> /\ x[2] \in 0 .. size - 1 /\ Memory[x] = data[x[2]]
    BY <1>3, ShortArray
  <2>3. Good'
    BY <1>1, <1>3, <2>1, <2>2 DEF Good
  <2>4. Memory' = [x \in Cells |-> data'[x[2]]]
    BY <1>1, <1>2, <1>3 DEF Memory
  <2>5. \A x \in Cells : data'[x[2]] = IF x = c THEN v ELSE Memory[x]
    BY <2>1, <2>2
  <2>6. Cells \cup {c} = Cells
    OBVIOUS
  <2>7. Memory' = With(Memory, c, v)
    BY <2>2, <2>4, <2>5, <2>6 DEF With
  <2> QED
    BY <1>1, <1>2, <2>3, <2>7, AbstractWrite
<1>4. CASE kind # "short"
  <2>1. WriteCell(c, v)
    BY <1>4 DEF Write
  <2>2. Good' /\ Memory' = With(Memory, c, v)
    BY <1>1, <1>4, <2>1, WriteCellStep
  <2> QED
    BY <1>1, <1>2, <2>2, AbstractWrite
<1> QED
  BY <1>3, <1>4

LEMMA UpdateStep ==
  ASSUME Good, NEW c \in Cells, NEW v \in Value, HasRoom(c), Update(c, v)
  PROVE  Good' /\ PA!Update(c, v)
<1>1. kind' = kind /\ size' = size /\ len' = len /\ kind # "short"
  BY DEF Update
<1>2. Length' = Length
  BY <1>1, SameCells
<1>3. Good' /\ Memory' = With(Memory, c, v)
  BY <1>1, WriteCellStep DEF Update
<1>4. PICK met \in Meets(data, get_real_index(c), Looked(pos_map[c[1]], size, c[2])) :
        IF met = {} THEN answer' = Answer("update", c, FALSE, Default)
        ELSE \E b \in met : answer' = Answer("update", c, TRUE, b.value)
  BY DEF Update
<1>5. met = {} <=> ~Filled(c)
  <2>1. met = BlocksFor(data, get_real_index(c))
    BY <1>1, CellMeets, CellsInside
  <2> QED
    BY <1>1, <2>1 DEF Filled, BlocksFor, Keyed
<1>6. \A b \in met : b.value = ValueAt(c)
  <2>1. met = BlocksFor(data, get_real_index(c)) /\ Unique(data)
    BY <1>1, CellMeets, CellsInside DEF Good, InOram
  <2>2. \A b \in met : b \in data /\ b.key = get_real_index(c)
    BY <2>1 DEF BlocksFor
  <2> QED
    BY <1>1, <2>1, <2>2, ValueOfBlock DEF ValueAt
<1>7. /\ c \in DOMAIN Memory <=> met # {}
      /\ \A b \in met : Memory[c] = b.value
  BY <1>5, <1>6, MemoryAt
<1>8. answer' = Answer("update", c, c \in DOMAIN Memory, IF c \in DOMAIN Memory THEN Memory[c] ELSE Default)
  <2>1. CASE met = {}
    <3>1. (c \in DOMAIN Memory) = FALSE /\ answer' = Answer("update", c, FALSE, Default)
      BY <1>4, <1>7, <2>1
    <3>2. (IF c \in DOMAIN Memory THEN Memory[c] ELSE Default) = Default
      BY <3>1
    <3> QED
      BY <3>1, <3>2, Zenon
  <2>2. CASE met # {}
    BY <1>4, <1>7, <2>2
  <2> QED
    BY <2>1, <2>2
<1> QED
  BY <1>2, <1>3, <1>8, AbstractUpdate

(* Whatever was pushed has a value. *)
LEMMA PopStep ==
  ASSUME Good, PopBack
  PROVE  Good' /\ PA!Pop
<1> DEFINE c == <<0, len - 1>>
<1>1. kind' = kind /\ size' = size /\ kind = "vector" /\ len > 0 /\ len' = len - 1
  BY DEF PopBack
<1>2. /\ Subarrays = {0} /\ size \in Nat /\ len \in 0 .. size
      /\ Length = len /\ Length' = len - 1
  BY <1>1 DEF Subarrays, Good, Length
<1>3. c \in Cells /\ c \in AllCells /\ c[1] = 0 /\ c[2] = len - 1
  BY <1>1, <1>2 DEF Cells, AllCells
<1>4. get_real_index(c) = len - 1
  BY <1>1, <1>3 DEF get_real_index
<1>5. /\ Cells = {0} \X (0 .. len - 1) /\ Cells' = {0} \X (0 .. len - 2)
  BY <1>1, <1>2 DEF Cells, Subarrays
<1>6. \A x : x \in Cells' <=> x \in Cells /\ x # c
  BY <1>1, <1>2, <1>5
<1>7. PICK pos \in Random(size, RandomBound),
           met \in Meets(data, get_real_index(c), Looked(pos_map[c[1]], size, c[2])) :
         /\ pos_map' = [w \in {0} |-> Stored(pos_map[0], size, len - 1, pos)]
         /\ IF met = {}
            THEN answer' = Answer("pop_back", NoCell, TRUE, Default) /\ UNCHANGED data
            ELSE \E b \in met :
                   /\ answer' = Answer("pop_back", NoCell, TRUE, b.value)
                   /\ data' \in StoredIn(data \ met, Block(b.key, pos, b.value), size)
  BY <1>3, <1>4 DEF PopBack
<1>8. pos_map' = [pos_map EXCEPT ![c[1]] = Stored(pos_map[c[1]], size, c[2], pos)]
  <2>1. DOMAIN pos_map = {0}
    BY <1>1, <1>2 DEF Good, InOram
  <2>2. pos_map' = [w \in {0} |-> Stored(pos_map[c[1]], size, c[2], pos)]
    BY <1>3, <1>7
  <2> QED
    BY <1>3, <2>1, <2>2
<1> HIDE DEF c
<1>9. Scans(c, pos, met)
  <2>1. len' \in 0 .. len
    BY <1>1, <1>2
  <2> QED
    BY <1>1, <1>7, <1>8, <2>1 DEF Scans
<1>10. kind # "short"
  BY <1>1
<1>11. Good' /\ Memory' = [x \in {y \in Cells' : Filled(y)} |-> ValueAt(x)]
  BY <1>3, <1>9, <1>10, ScanKeeps
<1>12. /\ met = {} <=> ~Filled(c)
       /\ \A b \in met : b.value = ValueAt(c)
  BY <1>3, <1>10, ScanIs
<1>13. Filled(c)
  <2>1. 0 .. len - 1 \subseteq Keyed(data)
    BY <1>1 DEF Good, InOram
  <2> QED
    BY <1>1, <1>2, <1>4, <2>1 DEF Filled
<1>14. c \in DOMAIN Memory /\ Memory[c] = ValueAt(c)
  BY <1>3, <1>13, MemoryAt
<1>15. answer' = Answer("pop_back", NoCell, TRUE, Memory[c])
  BY <1>7, <1>12, <1>13, <1>14
<1>16. Memory' = Without(Memory, c)
  <2>1. DOMAIN Memory = {x \in Cells : Filled(x)}
        /\ \A x \in Cells : Filled(x) => Memory[x] = ValueAt(x)
    BY MemoryAt
  <2>2. {y \in Cells' : Filled(y)} = DOMAIN Memory \ {c}
    BY <1>6, <2>1
  <2>3. \A x \in DOMAIN Memory \ {c} : Memory[x] = ValueAt(x)
    BY <2>1
  <2> QED
    BY <1>11, <2>2, <2>3 DEF Without
<1>17. c = <<0, Length - 1>>
  BY <1>2 DEF c
<1> QED
  BY <1>1, <1>2, <1>11, <1>14, <1>15, <1>16, <1>17, AbstractPop
-------------------------------------------------------------------------------
(* A resize.  The new array after the first indices are copied: each has its   *)
(* block, and those that it has room for are in place.                         *)

States(m) == [table : TableOf(m), blocks : SUBSET BlockType]

CopiedTo(m, f, st, i) ==
  /\ st \in States(m) /\ Unique(st.blocks) /\ Keyed(st.blocks) = 0 .. i - 1
  /\ \A b \in st.blocks : b.value = f[b.key] /\ (b.key < m => b.pos = st.table[b.key])

LEMMA WrittenType ==
  ASSUME NEW m \in Nat, m > 0, NEW st \in States(m), NEW i \in Nat, NEW v \in Value
  PROVE  Written(st, m, i, i, v) \subseteq States(m)
<1> SUFFICES ASSUME NEW new \in Written(st, m, i, i, v) PROVE new \in States(m)
  OBVIOUS
<1>1. st.table \in TableOf(m) /\ st.blocks \in SUBSET BlockType
  BY DEF States
<1>2. PICK pos \in Random(m, RandomBound) :
        \E met \in Meets(st.blocks, i, Looked(st.table, m, i)) :
        \E blocks \in StoredIn(st.blocks \ met, Block(i, pos, v), m) :
          new = Contents(Stored(st.table, m, i, pos), blocks)
  BY WrittenSome
<1>3. pos \in Int
  BY RandomIs
<1>4. Block(i, pos, v) \in BlockType
  BY <1>3, BlockIs
<1>5. PICK blocks \in SUBSET BlockType : new = Contents(Stored(st.table, m, i, pos), blocks)
  <2>1. PICK met \in Meets(st.blocks, i, Looked(st.table, m, i)) :
          \E blocks \in StoredIn(st.blocks \ met, Block(i, pos, v), m) :
            new = Contents(Stored(st.table, m, i, pos), blocks)
    BY <1>2
  <2>2. PICK blocks \in StoredIn(st.blocks \ met, Block(i, pos, v), m) :
          new = Contents(Stored(st.table, m, i, pos), blocks)
    BY <2>1
  <2>3. blocks \subseteq (st.blocks \ met) \cup {Block(i, pos, v)}
    BY <2>2 DEF StoredIn
  <2> QED
    BY <1>1, <1>4, <2>2, <2>3
<1>6. Stored(st.table, m, i, pos) \in TableOf(m)
  BY <1>1, <1>3, TableStores
<1> QED
  BY <1>5, <1>6 DEF States, Contents

(* An index that is kept, or takes no place of a kept one. *)
Harmless(m, i) == i < Leaves(m) /\ (i < m \/ Slot(m, i) >= m)

LEMMA IntervalCardinality ==
  ASSUME NEW i \in Nat
  PROVE  IsFiniteSet(0 .. i - 1) /\ Cardinality(0 .. i - 1) = i
<1>1. 0 \in Int /\ i - 1 \in Int
  OBVIOUS
<1> QED
  BY <1>1, FS_Interval

LEMMA CopyStep ==
  ASSUME NEW m \in Nat, m > 0, NEW f, NEW i \in Nat, NEW st, CopiedTo(m, f, st, i),
         Harmless(m, i), NEW v \in Value, v = f[i], NEW new \in Written(st, m, i, i, v)
  PROVE  CopiedTo(m, f, new, i + 1)
<1> DEFINE table == st.table
           old == st.blocks
<1>1. /\ table \in TableOf(m) /\ old \in SUBSET BlockType /\ st = Contents(table, old)
      /\ Unique(old) /\ Keyed(old) = 0 .. i - 1
      /\ \A b \in old : b.value = f[b.key] /\ (b.key < m => b.pos = table[b.key])
  BY DEF CopiedTo, States, Contents
<1> HIDE DEF table, old
<1>2. i \notin Keyed(old)
  BY <1>1
<1>3. BlocksFor(old, i) = {} /\ \A b \in old : b.key # i
  BY <1>2 DEF BlocksFor, Keyed
<1>4. Meets(old, i, Looked(table, m, i)) = {{}}
  BY <1>3, MeetsOnly
<1>5. Cardinality(old \ BlocksFor(old, i)) < Leaves(m)
  <2> DEFINE K == 0 .. i
  <2>1. Leaves(m) \in Nat /\ i + 1 <= Leaves(m)
    BY LeavesAre DEF Harmless
  <2>2. IsFiniteSet(K) /\ Cardinality(K) = i + 1
    <3>1. i + 1 \in Nat /\ (i + 1) - 1 = i
      OBVIOUS
    <3> QED
      BY <3>1, IntervalCardinality
  <2>3. Keyed(old) \cup {i} \subseteq K
    BY <1>1
  <2> HIDE DEF K
  <2>4. Cardinality(K) <= Leaves(m)
    BY <2>1, <2>2
  <2> QED
    BY <1>1, <2>1, <2>2, <2>3, <2>4, NoneTooMany
<1>6. Sought(table, old, m, i, i, {})
  <2>1. old \ BlocksFor(old, i) = old \ {}
    BY <1>3
  <2> QED
    BY <1>4, <1>5, <2>1 DEF Sought
<1>7. PICK pos \in Random(m, RandomBound) :
        new = Contents(Stored(table, m, i, pos), (old \ {}) \cup {Block(i, pos, v)})
  <2>1. new \in Written(Contents(table, old), m, i, i, v)
    BY <1>1
  <2> QED
    BY <1>6, <2>1, WrittenIs
<1>8. pos \in Int
  BY RandomIs
<1> DEFINE X == {Block(i, pos, v)}
           now == Replacement(old, i, X)
           entries == Stored(table, m, i, pos)
<1>9. new = Contents(entries, now)
  BY <1>3, <1>7 DEF Replacement
<1>10. X # {} /\ Keyed(X) = {i}
  BY BlockIs DEF Keyed
<1>11. /\ now \in SUBSET BlockType /\ Unique(now)
       /\ Keyed(now) = (Keyed(old) \ {i}) \cup Keyed(X)
  <2>1. Replaces(X, i, pos, v)
    BY <1>8 DEF Replaces
  <2> HIDE DEF X
  <2> QED
    BY <1>1, <2>1, Replaced
<1>12. \A b \in now : b \in old \/ (b.key = i /\ b.pos = pos /\ b.value = v)
  BY BlockIs DEF Replacement
<1>13. /\ entries \in TableOf(m)
       /\ \A j \in 0 .. m - 1 : entries[j] = IF j = Slot(m, i) THEN pos ELSE table[j]
  BY <1>1, <1>8, TableStores
<1> HIDE DEF X, now, entries
<1>14. Keyed(now) = 0 .. (i + 1) - 1
  BY <1>1, <1>10, <1>11
<1>15. ASSUME NEW b \in now
       PROVE  b.value = f[b.key] /\ (b.key < m => b.pos = entries[b.key])
  <2>1. CASE b \in old
    <3>1. b.key \in 0 .. i - 1 /\ b.value = f[b.key] /\ (b.key < m => b.pos = table[b.key])
      BY <1>1, <2>1 DEF Keyed
    <3>2. b.key < m => b.key # Slot(m, i)
      <4>1. i < m => Slot(m, i) = i
        BY EntriesOf
      <4> QED
        BY <3>1, <4>1 DEF Harmless
    <3> QED
      BY <1>13, <3>1, <3>2
  <2>2. CASE b \notin old
    <3>1. b.key = i /\ b.pos = pos /\ b.value = v
      BY <1>12, <2>2
    <3>2. i < m => Slot(m, i) = i
      BY EntriesOf
    <3> QED
      BY <1>13, <3>1, <3>2
  <2> QED
    BY <2>1, <2>2
<1>16. new.table = entries /\ new.blocks = now /\ new \in States(m)
  BY <1>9, <1>11, <1>13 DEF Contents, States
<1> QED
  BY <1>11, <1>14, <1>15, <1>16 DEF CopiedTo

(* What the old array may be read as. *)
Readings == {f \in [0 .. size - 1 -> Value] : \A i \in 0 .. size - 1 : f[i] \in ValuesAt(i)}

(* The copies as the program makes them, one index after another.              *)
LEMMA CopiesAre ==
  ASSUME NEW m \in Nat, m > 0, size \in Nat, NEW f \in Readings,
         \A i \in 0 .. size - 1 : Harmless(m, i), NEW st \in Copies(m, f)
  PROVE  CopiedTo(m, f, st, size)
<1> DEFINE D == SUBSET States(m)
           first == {Contents(t, {}) : t \in NewTables(m)}
           next(S, i) == UNION {Written(s, m, i - 1, i - 1, f[i - 1]) : s \in S}
           step == [i \in 1 .. size |-> [S \in D |-> next(S, i)]]
           Made(g) == g = [i \in 0 .. size |-> IF i = 0 THEN first ELSE next(g[i - 1], i)]
           copied == CHOOSE g : Made(g)
<1>1. \A i \in 1 .. size : i - 1 \in 0 .. size - 1 /\ i - 1 \in Nat /\ f[i - 1] \in Value
  BY DEF Readings
<1>2. st \in copied[size]
  BY DEF Copies
<1>3. first \in D
  <2>1. \A t \in NewTables(m) : Contents(t, {}) \in States(m)
    BY NewTablesAre DEF Contents, States
  <2> QED
    BY <2>1
<1>4. ASSUME NEW i \in 1 .. size, NEW S \in D PROVE next(S, i) \in D
  <2>1. \A s \in S : Written(s, m, i - 1, i - 1, f[i - 1]) \subseteq States(m)
    BY <1>1, WrittenType
  <2> QED
    BY <2>1
<1>5. step \in Steps(size, D)
  BY <1>4 DEF Steps
<1>6. \A i \in 1 .. size : \A S \in D : step[i][S] = next(S, i)
  OBVIOUS
<1> HIDE DEF D, first, next, step
<1>7. \E g : Made(g)
  <2>1. PICK g \in [0 .. size -> D] : g[0] = first /\ \A i \in 1 .. size : g[i] = step[i][g[i - 1]]
    <3>1. Solutions(size, D, first, step) # {}
      BY <1>3, <1>5, RecursionExists
    <3> QED
      BY <3>1 DEF Solutions
  <2>2. \A i \in 1 .. size : g[i] = next(g[i - 1], i)
    BY <1>1, <1>6, <2>1
  <2>3. \A i \in 0 .. size : g[i] = IF i = 0 THEN first ELSE next(g[i - 1], i)
    <3>1. \A i \in 0 .. size : i # 0 => i \in 1 .. size
      OBVIOUS
    <3> QED
      BY <2>1, <2>2, <3>1
  <2>4. g = [i \in 0 .. size |-> g[i]]
    BY <2>1
  <2>5. Made(g)
    BY <2>3, <2>4
  <2> HIDE DEF Made
  <2> QED
    BY <2>5
<1>8. Made(copied)
  <2> HIDE DEF Made
  <2> QED
    BY <1>7
<1> HIDE DEF copied
<1>9. copied[0] = first /\ \A i \in 1 .. size : copied[i] = next(copied[i - 1], i)
  <2>1. \A i \in 0 .. size : copied[i] = IF i = 0 THEN first ELSE next(copied[i - 1], i)
    BY <1>8
  <2>2. 0 \in 0 .. size /\ \A i \in 1 .. size : i \in 0 .. size /\ i # 0
    OBVIOUS
  <2> QED
    BY <2>1, <2>2
<1> DEFINE P == {i \in 0 .. size : \A s \in copied[i] : CopiedTo(m, f, s, i)}
<1>10. 0 \in P
  <2> SUFFICES ASSUME NEW s \in first PROVE CopiedTo(m, f, s, 0)
    BY <1>9
  <2>1. s \in States(m) /\ s.blocks = {}
    BY <1>3 DEF first, D, Contents
  <2> QED
    BY <2>1 DEF CopiedTo, Unique, Keyed
<1>11. ASSUME NEW i \in 1 .. size, i - 1 \in P PROVE i \in P
  <2> SUFFICES ASSUME NEW s \in copied[i] PROVE CopiedTo(m, f, s, i)
    OBVIOUS
  <2>1. PICK r \in copied[i - 1] : s \in Written(r, m, i - 1, i - 1, f[i - 1])
    BY <1>9 DEF next
  <2>2. CopiedTo(m, f, r, i - 1) /\ Harmless(m, i - 1)
    BY <1>1, <1>11, <2>1
  <2>3. CopiedTo(m, f, s, (i - 1) + 1)
    BY <1>1, <2>1, <2>2, CopyStep
  <2> QED
    BY <2>3
<1> HIDE DEF P
<1>12. 0 .. size \subseteq P
  BY <1>10, <1>11, LevelInduction
<1> QED
  BY <1>2, <1>12 DEF P

(* What resize reads is what the old array holds. *)
LEMMA ReadingIs ==
  ASSUME Good, kind \notin {"short", "multiway"}, NEW f \in Readings, NEW i \in 0 .. size - 1
  PROVE  /\ f[i] \in Value
         /\ f[i] = IF Filled(<<0, i>>) THEN ValueAt(<<0, i>>) ELSE Default
<1> DEFINE c == <<0, i>>
           met == BlocksFor(data, i)
<1>1. c \in AllCells /\ c[1] = 0 /\ c[2] = i
  BY CellsAre DEF AllCells
<1>2. get_real_index(c) = i
  BY <1>1, RealIndex
<1>3. kind # "short"
  OBVIOUS
<1> HIDE DEF c
<1>4. Meets(data, i, Looked(pos_map[0], size, i)) = {met}
  <2>1. Meets(data, get_real_index(c), Looked(pos_map[c[1]], size, c[2]))
          = {BlocksFor(data, get_real_index(c))}
    BY <1>1, <1>3, CellMeets
  <2> QED
    BY <1>1, <1>2, <2>1
<1>5. ValuesAt(i) = IF met = {} THEN {Default} ELSE {b.value : b \in met}
  <2> HIDE DEF met
  <2>1. ValuesAt(i) = UNION {IF x = {} THEN {Default} ELSE {b.value : b \in x} : x \in {met}}
    BY <1>4 DEF ValuesAt
  <2> QED
    BY <2>1
<1>6. f[i] \in Value /\ f[i] \in ValuesAt(i)
  BY DEF Readings
<1>7. Filled(c) <=> met # {}
  BY <1>2, <1>3 DEF Filled, BlocksFor, Keyed
<1>8. \A b \in met : b.value = ValueAt(c)
  <2>1. Unique(data)
    BY <1>3 DEF Good, InOram
  <2>2. \A b \in met : b \in data /\ b.key = i
    BY DEF BlocksFor
  <2> QED
    BY <1>2, <1>3, <2>1, <2>2, ValueOfBlock DEF ValueAt
<1>9. CASE met = {}
  BY <1>5, <1>6, <1>7, <1>9 DEF c
<1>10. CASE met # {}
  <2>1. f[i] \in {b.value : b \in met}
    BY <1>5, <1>6, <1>10
  <2>2. PICK b \in met : f[i] = b.value
    BY <2>1
  <2> QED
    BY <1>6, <1>7, <1>8, <1>10, <2>2 DEF c
<1> QED
  BY <1>9, <1>10

(* An array that takes over k copied elements. *)
Renews(m, st, k) ==
  /\ kind \in {"dynamic", "vector"} /\ kind' = kind
  /\ size' = m /\ pos_map' = [w \in {0} |-> st.table] /\ data' = st.blocks
  /\ len' \in 0 .. m /\ (IF kind = "vector" THEN len' <= k ELSE len' = 0)

LEMMA RenewKeeps ==
  ASSUME NEW m \in Nat, m > 0, NEW f, NEW k \in Nat, k <= Leaves(m),
         NEW st, CopiedTo(m, f, st, k), Renews(m, st, k)
  PROVE  Good' /\ Memory' = [c \in {x \in Cells' : x[2] < k} |-> f[c[2]]]
<1>1. /\ kind' \in {"dynamic", "vector"} /\ kind' = kind /\ size' = m
      /\ data' = st.blocks /\ len' \in 0 .. m /\ (kind # "vector" => len' = 0)
  BY DEF Renews
<1>2. Subarrays' = {0} /\ \A x : get_real_index(x)' = x[2]
  BY <1>1 DEF Subarrays, get_real_index
<1>3. /\ st.table \in TableOf(m) /\ data' \in SUBSET BlockType /\ Unique(data')
      /\ Keyed(data') = 0 .. k - 1
      /\ \A b \in data' : b.value = f[b.key] /\ (b.key < m => b.pos = st.table[b.key])
  BY <1>1 DEF CopiedTo, States
<1>4. pos_map'[0] = st.table /\ pos_map' \in [{0} -> TableOf(m)]
  BY <1>3 DEF Renews
<1>5. InPlace'
  <2> SUFFICES ASSUME NEW i \in 0 .. m - 1, NEW b \in data', b.key = i
               PROVE  b.pos = pos_map'[0][i]
    BY <1>1, <1>2 DEF InPlace
  <2> QED
    BY <1>3, <1>4
<1>6. IsFiniteSet(KeysDue') /\ Cardinality(KeysDue') <= Leaves(size')
  <2>1. KeysDue' = (0 .. k - 1) \cup (0 .. m - 1)
    BY <1>1, <1>3 DEF KeysDue
  <2>2. Leaves(m) \in Nat /\ m <= Leaves(m)
    BY LeavesAre
  <2>3. CASE k <= m
    <3>1. KeysDue' = 0 .. m - 1
      BY <2>1, <2>3
    <3> QED
      BY <1>1, <2>2, <3>1, IntervalCardinality
  <2>4. CASE ~(k <= m)
    <3>1. KeysDue' = 0 .. k - 1
      BY <2>1, <2>4
    <3> QED
      BY <1>1, <2>2, <3>1, IntervalCardinality
  <2> QED
    BY <2>3, <2>4
<1>7. kind' = "vector" => 0 .. len' - 1 \subseteq Keyed(data')
  <2>1. kind' = "vector" => len' \in Int /\ len' <= k
    BY <1>1 DEF Renews
  <2> QED
    BY <1>3, <2>1
<1>8. Good'
  <2>1. pos_map' \in [Subarrays' -> TableOf(size')]
    BY <1>1, <1>2, <1>4
  <2>2. InOram'
    BY <1>3, <1>5, <1>6, <1>7, <2>1 DEF InOram, TableOf
  <2> QED
    BY <1>1, <2>2 DEF Good, Kinds
<1>9. \A x \in Cells' : x[2] \in Nat
  <2>1. Length' \in Int
    BY <1>1 DEF Length
  <2> QED
    BY <2>1 DEF Cells
<1>10. \A x \in Cells' : /\ Filled(x)' <=> x[2] < k
                         /\ x[2] < k => ValueAt(x)' = f[x[2]]
  <2> SUFFICES ASSUME NEW x \in Cells'
               PROVE  /\ Filled(x)' <=> x[2] < k
                      /\ x[2] < k => ValueAt(x)' = f[x[2]]
    OBVIOUS
  <2>1. Filled(x)' <=> x[2] \in Keyed(data')
    BY <1>1, <1>2 DEF Filled
  <2>2. x[2] \in Keyed(data') <=> x[2] < k
    BY <1>3, <1>9
  <2>3. ASSUME x[2] < k PROVE ValueAt(x)' = f[x[2]]
    <3>1. PICK b \in data' : b.key = x[2]
      BY <2>2, <2>3, KeyedIs
    <3>2. ValueIn(data', x[2]) = b.value
      BY <1>3, <3>1, ValueOfBlock
    <3>3. ValueAt(x)' = ValueIn(data', x[2])
      BY <1>1, <1>2 DEF ValueAt
    <3> QED
      BY <1>3, <3>1, <3>2, <3>3
  <2> QED
    BY <2>1, <2>2, <2>3
<1>11. Memory' = [x \in {y \in Cells' : Filled(y)'} |-> ValueAt(x)']
  BY <1>8, MemoryIsNext
<1>12. {y \in Cells' : Filled(y)'} = {y \in Cells' : y[2] < k}
  BY <1>10
<1>13. \A x \in {y \in Cells' : y[2] < k} : ValueAt(x)' = f[x[2]]
  BY <1>10
<1> QED
  BY <1>8, <1>11, <1>12, <1>13

LEMMA ResizedIs ==
  ASSUME NEW m, NEW st \in Resized(m)
  PROVE  \E f \in Readings : st \in Copies(m, f)
BY DEF Resized, Readings

LEMMA ResizeStep ==
  ASSUME Good, NEW m \in 2 .. MaxSize, Resize(m), Fits(m)
  PROVE  Good' /\ PA!Resize(m)
<1>1. /\ kind = "dynamic" /\ kind' = kind /\ size' = m /\ len' = len
      /\ answer' = Answer("resize", NoCell, TRUE, NoValue)
  BY DEF Resize
<1>2. size \in Nat /\ size > 0 /\ m \in Nat /\ m > 0 /\ len \in 0 .. size
  BY ArraysAssumption DEF Good
<1>3. PICK st \in Resized(m) : pos_map' = [w \in {0} |-> st.table] /\ data' = st.blocks
  BY DEF Resize
<1>4. PICK f \in Readings : st \in Copies(m, f)
  BY ResizedIs
<1>5. \A i \in 0 .. size - 1 : Harmless(m, i)
  <2>1. Leaves(m) \in Nat /\ m <= Leaves(m) /\ size <= Leaves(m)
    BY <1>2, LeavesAre DEF Fits
  <2>2. \A i \in 0 .. size - 1 : i < Leaves(m)
    BY <1>2, <2>1
  <2>3. \A i \in 0 .. size - 1 : i < m \/ Slot(m, i) >= m
    <3>1. \A i \in 0 .. size - 1 : i < m \/ i \in m .. size - 1
      BY <1>2
    <3> QED
      BY <3>1 DEF Fits
  <2> QED
    BY <2>2, <2>3 DEF Harmless
<1>6. CopiedTo(m, f, st, size) /\ size <= Leaves(m)
  BY <1>2, <1>4, <1>5, CopiesAre DEF Fits
<1>7. Renews(m, st, size)
  <2>1. len' = 0 /\ len' \in 0 .. m
    BY <1>1, <1>2 DEF Good
  <2> QED
    BY <1>1, <1>3, <2>1 DEF Renews
<1>8. Good' /\ Memory' = [c \in {x \in Cells' : x[2] < size} |-> f[c[2]]]
  BY <1>2, <1>6, <1>7, RenewKeeps
<1>9. Length = size /\ Length' = m /\ Cells' = {0} \X (0 .. m - 1) /\ Cells = {0} \X (0 .. size - 1)
  BY <1>1 DEF Length, Cells, Subarrays
<1>10. {x \in Cells' : x[2] < size} = {x \in {0} \X (0 .. Length - 1) : x[2] < m}
  BY <1>2, <1>9
<1>11. ASSUME NEW c \in {x \in {0} \X (0 .. Length - 1) : x[2] < m}
       PROVE  f[c[2]] = IF c \in DOMAIN Memory THEN Memory[c] ELSE Default
  <2>1. c \in Cells /\ c = <<0, c[2]>> /\ c[2] \in 0 .. size - 1
    BY <1>9
  <2>2. f[c[2]] = IF Filled(c) THEN ValueAt(c) ELSE Default
    BY <1>1, <2>1, ReadingIs
  <2>3. c \in DOMAIN Memory <=> Filled(c)
    BY <2>1, MemoryAt
  <2>4. Filled(c) => Memory[c] = ValueAt(c)
    BY <2>1, MemoryAt
  <2> QED
    BY <2>2, <2>3, <2>4
<1>12. Memory' = [c \in {x \in {0} \X (0 .. Length - 1) : x[2] < m} |->
                    IF c \in DOMAIN Memory THEN Memory[c] ELSE Default]
  BY <1>8, <1>10, <1>11
<1> QED
  BY <1>1, <1>8, <1>9, <1>12, AbstractResize

(* A vector that grows copies its elements, and one more. *)
LEMMA GrowStep ==
  ASSUME Good, NEW v \in Value, PushBack(v), len = size
  PROVE  Good' /\ Memory' = With(Memory, <<0, len>>, v)
<1> DEFINE m == 2 * len
           c == <<0, len>>
<1>1. /\ kind = "vector" /\ kind' = kind /\ size' = m /\ len' = len + 1
  BY DEF PushBack
<1>2. size \in Nat /\ len \in Nat /\ len > 0 /\ m \in Nat /\ m > 0 /\ len + 1 <= m
  BY DEF Good
<1>3. PICK old \in Resized(m) :
        \E s \in Written(old, m, len, len, v) :
          pos_map' = [w \in {0} |-> s.table] /\ data' = s.blocks
  BY DEF PushBack
<1>4. PICK st \in Written(old, m, len, len, v) :
        pos_map' = [w \in {0} |-> st.table] /\ data' = st.blocks
  BY <1>3
<1> HIDE DEF m
<1>5. PICK f \in Readings : old \in Copies(m, f)
  BY ResizedIs
<1>6. \A i \in 0 .. len : Harmless(m, i)
  <2>1. Leaves(m) \in Nat /\ m <= Leaves(m)
    BY <1>2, LeavesAre
  <2> QED
    BY <1>2, <2>1 DEF Harmless
<1>7. CopiedTo(m, f, old, len)
  <2>1. \A i \in 0 .. size - 1 : Harmless(m, i)
    BY <1>2, <1>6
  <2>2. CopiedTo(m, f, old, size)
    BY <1>2, <1>5, <2>1, CopiesAre
  <2> QED
    BY <2>2
<1> DEFINE g == [i \in 0 .. len |-> IF i = len THEN v ELSE f[i]]
<1>8. g[len] = v /\ \A i \in 0 .. len - 1 : g[i] = f[i]
  BY <1>2
<1> HIDE DEF g
<1>9. CopiedTo(m, g, old, len)
  <2>1. \A b \in old.blocks : b.key \in 0 .. len - 1
    BY <1>7 DEF CopiedTo, Keyed
  <2> QED
    BY <1>7, <1>8, <2>1 DEF CopiedTo
<1>10. CopiedTo(m, g, st, len + 1)
  <2>1. Harmless(m, len)
    BY <1>2, <1>6
  <2> QED
    BY <1>2, <1>4, <1>8, <1>9, <2>1, CopyStep
<1>11. Renews(m, st, len + 1)
  <2>1. len' \in 0 .. m /\ len' <= len + 1
    BY <1>1, <1>2
  <2> QED
    BY <1>1, <1>4, <2>1 DEF Renews
<1>12. len + 1 \in Nat /\ len + 1 <= Leaves(m)
  <2>1. Leaves(m) \in Nat /\ m <= Leaves(m)
    BY <1>2, LeavesAre
  <2> QED
    BY <1>2, <2>1
<1>13. Good' /\ Memory' = [x \in {y \in Cells' : y[2] < len + 1} |-> g[x[2]]]
  BY <1>2, <1>10, <1>11, <1>12, RenewKeeps
<1>14. Cells = {0} \X (0 .. len - 1) /\ Cells' = {0} \X (0 .. len)
  BY <1>1, <1>2 DEF Cells, Length, Subarrays
<1>15. {y \in Cells' : y[2] < len + 1} = Cells \cup {c}
  BY <1>2, <1>14
<1>16. ASSUME NEW x \in Cells PROVE Filled(x) /\ x # c /\ g[x[2]] = ValueAt(x)
  <2>1. x = <<0, x[2]>> /\ x[2] \in 0 .. len - 1
    BY <1>14
  <2>2. get_real_index(x) = x[2]
    BY <1>1 DEF get_real_index
  <2>3. 0 .. len - 1 \subseteq Keyed(data)
    BY <1>1 DEF Good, InOram
  <2>4. Filled(x)
    BY <2>1, <2>2, <2>3 DEF Filled
  <2>5. f[x[2]] = ValueAt(x)
    BY <1>1, <2>1, <2>4, ReadingIs
  <2> QED
    BY <1>2, <1>8, <2>1, <2>4, <2>5
<1>17. DOMAIN Memory = Cells /\ \A x \in Cells : Memory[x] = ValueAt(x)
  BY <1>16, MemoryAt
<1>18. \A x \in Cells \cup {c} : g[x[2]] = IF x = c THEN v ELSE Memory[x]
  BY <1>8, <1>16, <1>17
<1> QED
  BY <1>13, <1>15, <1>17, <1>18 DEF With

LEMMA PushStep ==
  ASSUME Good, NEW v \in Value, PushBack(v)
  PROVE  Good' /\ PA!Push(v)
<1> DEFINE c == <<0, len>>
<1>1. /\ kind = "vector" /\ kind' = kind /\ len' = len + 1
      /\ answer' = Answer("push_back", NoCell, TRUE, v)
  BY DEF PushBack
<1>2. size \in Nat /\ size > 0 /\ len \in 0 .. size
  BY DEF Good
<1>3. Length = len /\ Length' = Length + 1
  BY <1>1 DEF Length
<1>4. CASE len = size
  <2>1. Good' /\ Memory' = With(Memory, <<0, Length>>, v)
    BY <1>3, <1>4, GrowStep
  <2> QED
    BY <1>1, <1>3, <2>1, AbstractPush
<1>5. CASE len # size
  <2>1. size' = size /\ \E st \in Written(Contents(pos_map[0], data), size, len, len, v) :
                          pos_map' = [w \in {0} |-> st.table] /\ data' = st.blocks
    BY <1>5 DEF PushBack
  <2>2. c \in AllCells /\ c[1] = 0 /\ c[2] = len /\ get_real_index(c) = len
    BY <1>1, <1>2, <1>5 DEF AllCells, Subarrays, get_real_index
  <2>3. PICK st \in Written(Contents(pos_map[c[1]], data), size, c[2], get_real_index(c), v) :
          pos_map' = [w \in {0} |-> st.table] /\ data' = st.blocks
    BY <2>1, <2>2
  <2>4. pos_map' = [pos_map EXCEPT ![c[1]] = st.table]
    <3>1. DOMAIN pos_map = {0}
      BY <1>1 DEF Good, InOram, Subarrays
    <3> QED
      BY <2>2, <2>3, <3>1
  <2>5. HasRoom(c)
    BY <1>1 DEF HasRoom
  <2>6. Cells = {0} \X (0 .. len - 1) /\ Cells' = {0} \X (0 .. len)
    BY <1>1, <1>2 DEF Cells, Length, Subarrays
  <2>7. c \in Cells' /\ Cells \subseteq Cells' /\ \A x \in Cells' : x \in Cells \/ x = c
    BY <1>2, <2>6
  <2>8. 0 .. len' - 1 \subseteq Keyed(data) \cup {get_real_index(c)} /\ len' \in 0 .. size
    <3>1. 0 .. len - 1 \subseteq Keyed(data)
      BY <1>1 DEF Good, InOram
    <3>2. \A i \in 0 .. len' - 1 : i \in 0 .. len - 1 \/ i = len
      BY <1>1, <1>2
    <3> QED
      BY <1>1, <1>2, <1>5, <2>2, <3>1, <3>2
  <2> HIDE DEF c
  <2>9. Writes(c, v, st)
    BY <1>1, <2>1, <2>3, <2>4, <2>8 DEF Writes
  <2>10. kind # "short"
    BY <1>1
  <2>11. Good' /\ Memory' = [x \in {y \in Cells' : Filled(y) \/ y = c} |->
                               IF x = c THEN v ELSE ValueAt(x)]
    BY <2>2, <2>5, <2>9, <2>10, WriteKeeps
  <2>12. Memory' = With(Memory, c, v)
    BY <2>7, <2>11, MemoryWith
  <2>13. c = <<0, Length>>
    BY <1>3 DEF c
  <2> QED
    BY <1>1, <1>3, <2>11, <2>12, <2>13, AbstractPush
<1> QED
  BY <1>4, <1>5

-------------------------------------------------------------------------------
LEMMA InitGood ==
  ASSUME Init
  PROVE  ArrayInv /\ PA!Init
<1>1. PICK k \in Kinds, m \in Nat :
        /\ NewArray(k, m) /\ m > 0 /\ (k # "vector" => m <= MaxSize)
        /\ (k = "vector" => m = 2)
  <2>1. \A j \in FixedSizes \cup MultiWaySizes : j \in Nat /\ j > 0 /\ j <= MaxSize
    BY ArraysAssumption
  <2>2. \A j \in 2 .. MaxSize : j \in Nat /\ j > 0 /\ j <= MaxSize
    BY ArraysAssumption
  <2> QED
    BY <2>1, <2>2 DEF Init, Kinds
<1>2. /\ kind = k /\ size = m /\ len = 0 /\ harmed = FALSE
      /\ answer = Answer("new", NoCell, TRUE, NoValue)
  BY <1>1 DEF Init, NewArray
<1>3. PA!Answer("new", PA!NoCell, TRUE, NoValue) = Answer("new", NoCell, TRUE, NoValue)
  BY DEF PA!Answer, Answer, PA!NoCell, NoCell
<1>4. MaxSize \in Nat /\ Length \in 0 .. MaxSize
  BY <1>1, <1>2, ArraysAssumption DEF Length
<1>5. CASE k = "short"
  <2>1. data = [i \in 0 .. m - 1 |-> Default] /\ Default \in Value
    BY <1>1, <1>5, ArraysAssumption DEF NewArray
  <2>2. data \in [0 .. size - 1 -> Value]
    BY <1>2, <2>1
  <2>3. Good
    BY <1>1, <1>2, <1>5, <2>2 DEF Good
  <2>4. Cells = {0} \X (0 .. Length - 1) /\ Length = m
    BY <1>2, <1>5 DEF Cells, Subarrays, Length
  <2>5. Memory = [c \in {0} \X (0 .. Length - 1) |-> Default]
    BY <1>2, <1>5, <2>1, <2>4 DEF Memory
  <2>6. PA!Init
    BY <1>2, <1>3, <1>4, <2>5 DEF PA!Init, Memory
  <2> QED
    BY <1>2, <2>3, <2>6 DEF ArrayInv
<1>6. CASE k # "short"
  <2>1. data = {} /\ pos_map \in [Subarrays -> NewTables(m)]
    BY <1>1, <1>6 DEF NewArray
  <2>2. pos_map \in [Subarrays -> TableOf(size)]
    BY <1>2, <2>1, NewTablesAre
  <2>3. Keyed(data) = {} /\ Unique(data) /\ data \in SUBSET BlockType /\ InPlace
    BY <2>1 DEF Keyed, Unique, InPlace
  <2>4. IsFiniteSet(KeysDue) /\ Cardinality(KeysDue) <= Leaves(size)
    <3>1. Leaves(m) \in Nat /\ m <= Leaves(m)
      BY <1>1, LeavesAre
    <3>2. CASE kind = "multiway"
      <4>1. KeysDue = {}
        BY <2>3, <3>2 DEF KeysDue
      <4> QED
        BY <1>2, <3>1, <4>1, FS_EmptySet
    <3>3. CASE kind # "multiway"
      <4>1. KeysDue = 0 .. m - 1
        BY <1>2, <2>3, <3>3 DEF KeysDue
      <4> QED
        BY <1>2, <3>1, <4>1, IntervalCardinality
    <3> QED
      BY <3>2, <3>3
  <2>5. 0 .. len - 1 \subseteq Keyed(data)
    BY <1>2
  <2>6. InOram
    BY <2>2, <2>3, <2>4, <2>5 DEF InOram
  <2>7. Good
    BY <1>1, <1>2, <1>6, <2>6 DEF Good
  <2>8. Memory = [c \in {} |-> Default]
    <3>1. {x \in Cells : Findable(x) # {}} = {}
      BY <2>1 DEF Findable
    <3> QED
      BY <1>2, <1>6, <3>1 DEF Memory
  <2>9. PA!Init
    BY <1>2, <1>3, <1>4, <2>8 DEF PA!Init, Memory
  <2> QED
    BY <1>2, <2>7, <2>9 DEF ArrayInv
<1> QED
  BY <1>5, <1>6

LEMMA StepGood ==
  ASSUME Good, Next, ~harmed'
  PROVE  Good' /\ PA!Next
<1>1. \A c \in Cells : c \in PA!Cells
  <2>1. Subarrays \subseteq 0 .. W - 1
    BY CellsAre
  <2> QED
    BY <2>1 DEF Cells, PA!Cells
<1>2. ASSUME NEW c \in Cells, Read(c) PROVE Good' /\ PA!Next
  BY <1>1, <1>2, ReadStep DEF PA!Next
<1>3. ASSUME NEW c \in Cells, NEW v \in Value, Write(c, v) PROVE Good' /\ PA!Next
  <2>1. HasRoom(c)
    BY <1>3 DEF Write
  <2> QED
    BY <1>1, <1>3, <2>1, WriteStep DEF PA!Next
<1>4. ASSUME NEW c \in Cells, NEW v \in Value, Update(c, v) PROVE Good' /\ PA!Next
  <2>1. HasRoom(c)
    BY <1>4 DEF Update
  <2> QED
    BY <1>1, <1>4, <2>1, UpdateStep DEF PA!Next
<1>5. ASSUME NEW m \in 2 .. MaxSize, Resize(m) PROVE Good' /\ PA!Next
  <2>1. Fits(m)
    BY <1>5 DEF Resize
  <2> QED
    BY <1>5, <2>1, ResizeStep DEF PA!Next
<1>6. ASSUME NEW v \in Value, PushBack(v) PROVE Good' /\ PA!Next
  BY <1>6, PushStep DEF PA!Next
<1>7. ASSUME PopBack PROVE Good' /\ PA!Next
  BY <1>7, PopStep DEF PA!Next
<1> QED
  BY <1>2, <1>3, <1>4, <1>5, <1>6, <1>7 DEF Next

LEMMA HarmStays ==
  ASSUME harmed \in BOOLEAN, Next
  PROVE  harmed' \in BOOLEAN /\ (harmed => harmed')
BY DEF Next, Read, Write, Update, Resize, PushBack, PopBack

LEMMA ArrayStep ==
  ASSUME ArrayInv, [Next]_vars
  PROVE  ArrayInv' /\ [~harmed' => PA!Next]_vars
<1>1. CASE UNCHANGED vars
  <2>1. Good => Good'
    BY <1>1 DEF vars, Good, InOram, KeysDue, InPlace, Subarrays, get_real_index, TableOf,
                Unique, Keyed
  <2> QED
    BY <1>1, <2>1 DEF ArrayInv, vars
<1>2. CASE Next
  <2>1. harmed' \in BOOLEAN /\ (harmed => harmed')
    BY <1>2, HarmStays DEF ArrayInv
  <2>2. ~harmed' => Good
    BY <2>1 DEF ArrayInv
  <2>3. ~harmed' => Good' /\ PA!Next
    BY <1>2, <2>2, StepGood
  <2> QED
    BY <2>1, <2>3 DEF ArrayInv
<1> QED
  BY <1>1, <1>2

(* Every kind of array, of any size and over any number of subarrays, answers  *)
(* as a plain array does (array.rs and vector.rs): through resizing and growth *)
(* a cell has the value last written to it, until a resize shrinks the array   *)
(* too far or a multiway array gets more elements than its size.               *)
THEOREM ArraysArePlain == Spec => ImplementsArray
<1>1. Init => ArrayInv /\ PA!Init
  BY InitGood
<1>2. ArrayInv /\ [Next]_vars => ArrayInv' /\ [~harmed' => PA!Next]_vars
  BY ArrayStep
<1> QED
  BY <1>1, <1>2, PTL DEF Spec, ImplementsArray
================================================================================
