------------------------------ MODULE HeapProofs ------------------------------
(* The heap is a priority queue, for every height of its tree, every size of   *)
(* its stash and any number of elements: refreshing the minima of the evicted  *)
(* paths alone keeps those of all nodes right.                                 *)
EXTENDS Heap, EvictionProofs

-------------------------------------------------------------------------------
(* Siblings. *)

LEMMA Quotient ==
  ASSUME NEW x \in Int, NEW m \in Int, m > 0, NEW q \in Int, NEW r \in Int,
         0 <= r, r < m, x = (q * m) + r
  PROVE  x % m = r /\ x \div m = q
BY DivModUnique

(* A remainder by 2*m is that by m, or m more.                                 *)
LEMMA Halves ==
  ASSUME NEW m \in Int, m > 0, NEW u \in Int, 0 <= u, u < 2 * m
  PROVE  /\ u < m => u % m = u /\ u \div m = 0
         /\ u >= m => u % m = u - m /\ u \div m = 1
<1>1. CASE u < m
  <2>1. u = (0 * m) + u
    OBVIOUS
  <2> QED
    BY <1>1, <2>1, DivModUnique
<1>2. CASE u >= m
  <2> DEFINE r == u - m
  <2>1. u = (1 * m) + r /\ r \in Int /\ 0 <= r /\ r < m
    BY <1>2
  <2> HIDE DEF r
  <2>2. u % m = r /\ u \div m = 1
    BY <2>1, DivModUnique
  <2> QED
    BY <1>2, <2>2 DEF r
<1> QED
  BY <1>1, <1>2

(* Adding or taking away m leaves the remainder by m alone and changes the one *)
(* by 2*m to the only other one with that remainder.                           *)
BitFlipped(p, s, m, n) ==
  /\ s \in Int /\ s % m = p % m /\ s % n # p % n
  /\ s \div n = p \div n
  /\ \A q \in Int : q % m = p % m => q % n \in {p % n, s % n}

LEMMA FlippedBit ==
  ASSUME NEW p \in Int, NEW m \in Int, m > 0, NEW n, n = 2 * m,
         NEW s, s = IF (p \div m) % 2 = 1 THEN p - m ELSE p + m
  PROVE  BitFlipped(p, s, m, n)
<1> DEFINE u == p % n
           y == p \div n
           v == IF u >= m THEN u - m ELSE u + m
<1>0. n \in Int /\ n > 0
  OBVIOUS
<1>1. p = (y * n) + u /\ y \in Int /\ u \in Int /\ 0 <= u /\ u < n
  BY <1>0, DivMod
<1>2. u % m = p % m
  BY ModHalf
<1>3. (p \div m) % 2 = 1 <=> u >= m
  <2> DEFINE e == u \div m
             r == u % m
             f == 2 * y + e
  <2>1. u = (e * m) + r /\ r \in Int /\ 0 <= r /\ r < m /\ e \in {0, 1} /\ (e = 1 <=> u >= m)
    BY <1>1, Halves
  <2> HIDE DEF e, r
  <2> HIDE DEF u, y
  <2>2. p = (f * m) + r /\ f \in Int
    BY <1>1, <2>1
  <2> HIDE DEF f
  <2>3. p \div m = f
    BY <2>1, <2>2, DivModUnique
  <2>4. f % 2 = e
    <3>1. f = (y * 2) + e
      BY <1>1, <2>1 DEF f
    <3> QED
      BY <1>1, <2>1, <3>1, DivModUnique
  <2> QED
    BY <2>1, <2>3, <2>4
<1> HIDE DEF u, y
<1>4. s = (y * n) + v /\ v \in Int /\ 0 <= v /\ v < n /\ s \in Int
  <2>1. y * n \in Int
    BY <1>0, <1>1
  <2> QED
    BY <1>0, <1>1, <1>3, <2>1
<1>5. v % m = u % m /\ v # u
  BY <1>0, <1>1, <1>4, Halves
<1> HIDE DEF v
<1>6. s % n = v /\ s \div n = y
  BY <1>0, <1>1, <1>4, Quotient
<1>7. s % m = p % m
  <2>1. (s % n) % m = s % m
    BY <1>4, ModHalf
  <2> QED
    BY <1>2, <1>5, <1>6, <2>1
<1>8. ASSUME NEW q \in Int, q % m = p % m
      PROVE  q % n \in {u, v}
  <2> DEFINE w == q % n
  <2>1. w \in Int /\ 0 <= w /\ w < n
    BY <1>0, DivMod
  <2>2. w % m = u % m
    BY <1>2, <1>8, ModHalf
  <2> HIDE DEF w
  <2>3. w = u \/ w = u - m \/ w = u + m
    BY <1>0, <1>1, <2>1, <2>2, Halves
  <2> QED
    BY <1>0, <1>1, <1>4, <2>1, <2>3 DEF v, w
<1> QED
  BY <1>4, <1>5, <1>6, <1>7, <1>8 DEF u, y, BitFlipped

(* The path of the sibling below depth d. *)
Flipped(d, p) == IF (p \div Pow2[d]) % 2 = 1 THEN p - Pow2[d] ELSE p + Pow2[d]

LEMMA Siblings ==
  ASSUME NEW d \in Levels, d # H - 1, NEW p \in Positions
  PROVE  /\ d + 1 \in Levels /\ Flipped(d, p) \in Positions
         /\ get_sibling(d + 1, p) = get_index(d + 1, Flipped(d, p))
         /\ Flipped(d, p) % Pow2[d] = p % Pow2[d]
         /\ Flipped(d, p) % Pow2[d + 1] # p % Pow2[d + 1]
         /\ \A q \in Positions : q % Pow2[d] = p % Pow2[d] =>
              q % Pow2[d + 1] \in {p % Pow2[d + 1], Flipped(d, p) % Pow2[d + 1]}
<1> DEFINE m == Pow2[d]
           n == Pow2[d + 1]
           s == Flipped(d, p)
           y == p \div n
           k == MaxN \div n
<1>1. /\ d + 1 \in Levels /\ d + 1 \in 0 .. H - 1 /\ H - 1 \in 0 .. H /\ d \in Int /\ (d + 1) - 1 = d
      /\ MaxN \in Int /\ MaxN > 0 /\ MaxN = Pow2[H - 1]
  BY HeapAssumption DEF Levels
<1>2. m \in Int /\ m > 0 /\ n \in Int /\ n = 2 * m
  BY LevelPowers
<1>3. get_sibling(d + 1, p) = get_index(d + 1, s)
  BY <1>1 DEF get_sibling, Flipped
<1>4. p \in Int /\ 0 <= p /\ p < MaxN /\ \A q \in Positions : q \in Int
  BY <1>1 DEF Positions
<1>5. s = IF (p \div m) % 2 = 1 THEN p - m ELSE p + m
  BY DEF Flipped
<1> HIDE DEF s
<1>6. MaxN % n = 0
  <2>1. MaxN % Pow2[H - 1] = 0 /\ 0 % Pow2[H - 1] = 0
    <3>1. MaxN = (1 * MaxN) + 0 /\ 0 = (0 * MaxN) + 0
      BY <1>1
    <3> QED
      BY <1>1, <3>1, Quotient
  <2>2. MaxN % n = 0 % n
    BY <1>1, <2>1, FewerBits
  <2>3. 0 = (0 * n) + 0
    BY <1>2
  <2> QED
    BY <1>2, <2>2, <2>3, Quotient
<1> HIDE DEF m, n
<1>7. /\ s \in Int /\ s % m = p % m /\ s % n # p % n /\ s \div n = y
      /\ \A q \in Int : q % m = p % m => q % n \in {p % n, s % n}
  <2>1. BitFlipped(p, s, m, n)
    BY <1>2, <1>4, <1>5, FlippedBit
  <2> QED
    BY <2>1 DEF BitFlipped
<1>8. s \in Positions
  <2> DEFINE u == p % n
             v == s % n
  <2>1. p = (y * n) + u /\ y \in Int /\ u \in Int /\ 0 <= u /\ u < n
    BY <1>2, <1>4, DivMod
  <2>2. s = (y * n) + v /\ v \in Int /\ 0 <= v /\ v < n
    <3>1. s = ((s \div n) * n) + v /\ v \in Int /\ 0 <= v /\ v < n
      BY <1>2, <1>7, DivMod
    <3> QED
      BY <1>7, <3>1
  <2>3. MaxN = k * n /\ k \in Int
    <3>1. MaxN = (k * n) + (MaxN % n) /\ k \in Int
      BY <1>1, <1>2, DivMod
    <3> QED
      BY <1>2, <1>6, <3>1
  <2> HIDE DEF u, v, y, k
  <2>4. y >= 0
    <3> SUFFICES ASSUME y <= -1 PROVE FALSE
      BY <2>1
    <3>1. y * n <= (-1) * n
      BY <1>2, <2>1
    <3> QED
      BY <1>2, <1>4, <2>1, <3>1
  <2>5. y < k
    <3> SUFFICES ASSUME k <= y PROVE FALSE
      BY <2>1, <2>3
    <3>1. k * n <= y * n /\ y * n \in Int
      BY <1>2, <2>1, <2>3
    <3> QED
      BY <1>1, <1>4, <2>1, <2>3, <3>1
  <2>6. y * n >= 0 /\ (y + 1) * n <= k * n /\ (y + 1) * n = (y * n) + n /\ y * n \in Int
    BY <1>2, <2>1, <2>3, <2>4, <2>5
  <2> QED
    BY <1>1, <1>2, <2>2, <2>3, <2>6 DEF Positions
<1> QED
  BY <1>1, <1>3, <1>4, <1>7, <1>8 DEF m, n, s

(* What is below a node is on a path through it, and not above it.             *)
LEMMA BelowIs ==
  ASSUME NEW d \in Levels, NEW p \in Positions, NEW x
  PROVE  IsBelow(x, get_index(d, p)) <=>
           \E q \in Positions : \E e \in d .. H - 1 :
             x = get_index(e, q) /\ q % Pow2[d] = p % Pow2[d]
<1> DEFINE n == get_index(d, p)
<1>0. H \in Int /\ d \in Nat /\ \A e \in Levels : e \in Int
  BY HeapAssumption DEF Levels
<1>1. ASSUME NEW q \in Positions, x \in PathNodes(q), n \in PathNodes(q), x >= n
      PROVE  \E e \in d .. H - 1 : x = get_index(e, q) /\ q % Pow2[d] = p % Pow2[d]
  <2>1. PICK e \in Levels : x = get_index(e, q)
    BY <1>1 DEF PathNodes
  <2>2. PICK f \in Levels : n = get_index(f, q)
    BY <1>1 DEF PathNodes
  <2>3. f = d /\ q % Pow2[d] = p % Pow2[d]
    <3>1. get_index(d, p) = get_index(f, q)
      BY <2>2
    <3> HIDE DEF n
    <3> QED
      BY <3>1, SameNode
  <2>4. ~ (e < d)
    <3> SUFFICES ASSUME e < d PROVE FALSE
      OBVIOUS
    <3>1. get_index(e, q) < get_index(d, p)
      BY DeeperIsGreater
    <3>2. get_index(e, q) \in Int /\ get_index(d, p) \in Int
      BY IndexBounds
    <3> QED
      BY <1>1, <2>1, <3>1, <3>2
  <2>5. e \in d .. H - 1
    BY <1>0, <2>4 DEF Levels
  <2> QED
    BY <2>1, <2>3, <2>5
<1>2. ASSUME NEW q \in Positions, NEW e \in d .. H - 1, x = get_index(e, q),
             q % Pow2[d] = p % Pow2[d]
      PROVE  x \in PathNodes(q) /\ n \in PathNodes(q) /\ x >= n
  <2>1. e \in Levels
    BY <1>0 DEF Levels
  <2>2. n = get_index(d, q)
    BY <1>2, SameNode
  <2>3. get_index(e, q) >= get_index(d, q)
    <3>1. e = d \/ d < e
      BY <1>0
    <3>2. get_index(d, q) \in Int /\ get_index(e, q) \in Int
      BY <2>1, IndexBounds
    <3>3. d < e => get_index(d, q) < get_index(e, q)
      BY <2>1, DeeperIsGreater
    <3> QED
      BY <3>1, <3>2, <3>3
  <2> QED
    BY <1>2, <2>1, <2>2, <2>3 DEF PathNodes
<1>3. IsBelow(x, n) <=> \E q \in Positions : x \in PathNodes(q) /\ n \in PathNodes(q) /\ x >= n
  <2> HIDE DEF n
  <2> QED
    BY DEF IsBelow
<1> HIDE DEF n
<1> QED
  BY <1>1, <1>2, <1>3 DEF n

LEMMA BelowLeaf ==
  ASSUME NEW p \in Positions, NEW x
  PROVE  H - 1 \in Levels /\ (IsBelow(x, get_index(H - 1, p)) <=> x = get_index(H - 1, p))
<1>1. H - 1 \in Levels /\ H - 1 \in Int /\ \A e \in (H - 1) .. (H - 1) : e = H - 1
      /\ H - 1 \in (H - 1) .. (H - 1)
  BY HeapAssumption DEF Levels
<1>2. \A q \in Positions : q % Pow2[H - 1] = p % Pow2[H - 1]
                             <=> get_index(H - 1, q) = get_index(H - 1, p)
  BY <1>1, SameNode
<1>3. IsBelow(x, get_index(H - 1, p)) <=>
        \E q \in Positions : \E e \in (H - 1) .. (H - 1) :
          x = get_index(e, q) /\ q % Pow2[H - 1] = p % Pow2[H - 1]
  BY <1>1, BelowIs
<1> QED
  BY <1>1, <1>2, <1>3

(* Below an inner node are itself and what is below its two children.          *)
LEMMA BelowChildren ==
  ASSUME NEW d \in Levels, d # H - 1, NEW p \in Positions, NEW x
  PROVE  IsBelow(x, get_index(d, p)) <=>
           \/ x = get_index(d, p)
           \/ IsBelow(x, get_index(d + 1, p))
           \/ IsBelow(x, get_sibling(d + 1, p))
<1> DEFINE s == Flipped(d, p)
<1>0. /\ d + 1 \in Levels /\ s \in Positions /\ get_sibling(d + 1, p) = get_index(d + 1, s)
      /\ s % Pow2[d] = p % Pow2[d]
      /\ \A q \in Positions : q % Pow2[d] = p % Pow2[d] =>
           q % Pow2[d + 1] \in {p % Pow2[d + 1], s % Pow2[d + 1]}
  BY Siblings
<1> HIDE DEF s
<1>1. /\ H \in Int /\ d \in Int /\ d < H /\ d \in d .. H - 1 /\ d + 1 \in 0 .. H /\ d \in 0 .. d + 1
      /\ \A e \in d .. H - 1 : e = d \/ e \in d + 1 .. H - 1
      /\ \A e \in d + 1 .. H - 1 : e \in d .. H - 1
  BY <1>0, HeapAssumption DEF Levels
<1>2. ASSUME IsBelow(x, get_index(d, p))
      PROVE  \/ x = get_index(d, p)
             \/ IsBelow(x, get_index(d + 1, p))
             \/ IsBelow(x, get_index(d + 1, s))
  <2>1. PICK q \in Positions : \E e \in d .. H - 1 :
               x = get_index(e, q) /\ q % Pow2[d] = p % Pow2[d]
    BY <1>2, BelowIs
  <2>2. PICK e \in d .. H - 1 : x = get_index(e, q) /\ q % Pow2[d] = p % Pow2[d]
    BY <2>1
  <2>3. CASE e = d
    BY <2>2, <2>3, SameNode
  <2>4. CASE e \in d + 1 .. H - 1
    <3>1. q % Pow2[d + 1] = p % Pow2[d + 1] => IsBelow(x, get_index(d + 1, p))
      BY <1>0, <2>2, <2>4, BelowIs
    <3>2. q % Pow2[d + 1] = s % Pow2[d + 1] => IsBelow(x, get_index(d + 1, s))
      BY <1>0, <2>2, <2>4, BelowIs
    <3> QED
      BY <1>0, <2>2, <3>1, <3>2
  <2> QED
    BY <1>1, <2>3, <2>4
<1>3. ASSUME NEW r \in Positions, r % Pow2[d] = p % Pow2[d], IsBelow(x, get_index(d + 1, r))
      PROVE  IsBelow(x, get_index(d, p))
  <2>1. PICK q \in Positions : \E e \in d + 1 .. H - 1 :
               x = get_index(e, q) /\ q % Pow2[d + 1] = r % Pow2[d + 1]
    BY <1>0, <1>3, BelowIs
  <2>2. PICK e \in d + 1 .. H - 1 : x = get_index(e, q) /\ q % Pow2[d + 1] = r % Pow2[d + 1]
    BY <2>1
  <2>3. q \in Int /\ r \in Int
    BY HeapAssumption DEF Positions
  <2>4. q % Pow2[d] = r % Pow2[d]
    BY <1>1, <2>2, <2>3, FewerBits
  <2>5. e \in d .. H - 1 /\ q % Pow2[d] = p % Pow2[d]
    BY <1>1, <1>3, <2>4
  <2> QED
    BY <2>2, <2>5, BelowIs
<1>4. x = get_index(d, p) => IsBelow(x, get_index(d, p))
  BY <1>1, BelowIs
<1> QED
  BY <1>0, <1>2, <1>3, <1>4

(* A node that is not on a path has none of the path below it.                 *)
LEMMA BelowOffPath ==
  ASSUME NEW p \in Positions, NEW n, n \notin PathNodes(p), NEW x, IsBelow(x, n)
  PROVE  x \notin PathNodes(p)
<1> SUFFICES ASSUME x \in PathNodes(p) PROVE FALSE
  OBVIOUS
<1>1. PICK q \in Positions : x \in PathNodes(q) /\ n \in PathNodes(q) /\ x >= n
  BY DEF IsBelow
<1>2. PICK d \in Levels : n = get_index(d, q)
  BY <1>1 DEF PathNodes
<1>3. IsBelow(x, get_index(d, q))
  BY <1>2
<1>4. PICK r \in Positions : \E e \in d .. H - 1 : x = get_index(e, r) /\ r % Pow2[d] = q % Pow2[d]
  BY <1>3, BelowIs
<1>5. PICK e \in d .. H - 1 : x = get_index(e, r) /\ r % Pow2[d] = q % Pow2[d]
  BY <1>4
<1>6. PICK f \in Levels : x = get_index(f, p)
  BY DEF PathNodes
<1>7. e \in Levels /\ e \in 0 .. H /\ d \in 0 .. e /\ p \in Int /\ r \in Int
  BY HeapAssumption DEF Levels, Positions
<1>8. e = f /\ r % Pow2[e] = p % Pow2[e]
  <2>1. get_index(e, r) = get_index(f, p)
    BY <1>5, <1>6
  <2> QED
    BY <1>7, <2>1, SameNode
<1>9. r % Pow2[d] = p % Pow2[d]
  BY <1>7, <1>8, FewerBits
<1>10. n = get_index(d, p)
  BY <1>2, <1>5, <1>9, SameNode
<1> QED
  BY <1>10 DEF PathNodes

LEMMA RootAboveAll ==
  ASSUME NEW p \in Positions, NEW x \in PathNodes(p)
  PROVE  IsBelow(x, 0) /\ 0 \in PathNodes(p)
<1>1. 0 \in Levels /\ Pow2[0] = 1 /\ p \in Int
  BY HeapAssumption, PowersAre DEF Levels, Positions
<1>2. get_index(0, p) = 0
  BY <1>1 DEF get_index
<1>3. PICK e \in Levels : x = get_index(e, p)
  BY DEF PathNodes
<1>4. e \in 0 .. H - 1
  BY DEF Levels
<1>5. IsBelow(x, get_index(0, p))
  BY <1>1, <1>3, <1>4, BelowIs
<1> QED
  BY <1>1, <1>2, <1>5 DEF PathNodes

-------------------------------------------------------------------------------
(* The minima of a memory. *)

(* The cells that a minimum can come from, in the whole memory, in one slot of *)
(* a bucket, and below a node.                                                 *)
Eligible(m) == {c \in FullCells(m) : m[c].value # MaxPriority}
Here(m, n, z) == {<<n, z>>} \cap Eligible(m)
BelowIn(m, n) == {c \in Eligible(m) : c[1] # Stash /\ IsBelow(c[1], n)}

(* b is a copy of the least of the cells C.                                    *)
CopyOfLeast(m, C, b) == \E c \in C : b = m[c] /\ \A d \in C : b.value <= m[d].value

(* What metadata holds, what update_min carries, and what it compares with.    *)
IsLeast(m, C, b) == IF C = {} THEN is_empty(b) ELSE CopyOfLeast(m, C, b)
Carries(m, C, b) == IF C = {} THEN b = NoMin ELSE CopyOfLeast(m, C, b)
Offers(m, C, b)  == IF C = {} THEN is_empty(b) \/ b.value = MaxPriority
                    ELSE CopyOfLeast(m, C, b)

Right(m, md, n) == IsLeast(m, BelowIn(m, n), md[n])

LEMMA EligibleIs ==
  ASSUME NEW m \in Memory, NEW c \in Eligible(m)
  PROVE  /\ c \in FullCells(m) /\ m[c] \in Block /\ ~is_empty(m[c])
         /\ m[c].value \in Int /\ 0 <= m[c].value /\ m[c].value < MaxPriority
<1>1. c \in FullCells(m) /\ m[c] \in Block /\ m[c].value # MaxPriority /\ ~is_empty(m[c])
  BY FullIsBlock DEF Eligible, FullCells
<1>2. m[c].value \in Value
  BY <1>1 DEF Block
<1>3. MaxPriority \in Int /\ \A x \in Value : x \in 0 .. MaxPriority
  BY HeapElementAssumption
<1> DEFINE v == m[c].value
<1>4. v \in Int /\ 0 <= v /\ v <= MaxPriority
  BY <1>2, <1>3
<1> QED
  BY <1>1, <1>3, <1>4

LEMMA NoMinIs == is_empty(NoMin) /\ NoMin.value = MaxPriority /\ is_empty(Zeroed)
BY DEF NoMin, Zeroed, is_empty

LEMMA CarriesIsLeast ==
  ASSUME NEW m, NEW C, NEW b, Carries(m, C, b)
  PROVE  IsLeast(m, C, b) /\ Offers(m, C, b)
BY NoMinIs DEF Carries, IsLeast, Offers

(* One comparison accounts for the cells behind both sides.                    *)
LEMMA LesserCarries ==
  ASSUME NEW m \in Memory, NEW C \in SUBSET Eligible(m), NEW D \in SUBSET Eligible(m),
         NEW b, Carries(m, C, b), NEW e, Offers(m, D, e)
  PROVE  Carries(m, C \cup D, Lesser(b, e))
<1>1. CASE D = {}
  <2>1. is_empty(e) \/ e.value = MaxPriority
    BY <1>1 DEF Offers
  <2>2. ~(MaxPriority < b.value)
    <3>1. CASE C = {}
      BY <3>1, NoMinIs, HeapElementAssumption DEF Carries
    <3>2. CASE C # {}
      <4>1. PICK c \in C : b = m[c]
        BY <3>2 DEF Carries, CopyOfLeast
      <4> QED
        BY <4>1, EligibleIs, HeapElementAssumption
    <3> QED
      BY <3>1, <3>2
  <2>3. Lesser(b, e) = b /\ C \cup D = C
    BY <1>1, <2>1, <2>2 DEF Lesser
  <2> QED
    BY <2>3
<1>2. CASE D # {}
  <2>1. PICK d \in D : e = m[d] /\ \A x \in D : e.value <= m[x].value
    BY <1>2 DEF Offers, CopyOfLeast
  <2>2. d \in Eligible(m) /\ ~is_empty(e) /\ e.value \in Int /\ e.value < MaxPriority
    BY <2>1, EligibleIs
  <2>3. CASE C = {}
    <3>1. Lesser(b, e) = e /\ C \cup D = D
      BY <2>2, <2>3, NoMinIs DEF Carries, Lesser
    <3> QED
      BY <1>2, <2>1, <3>1 DEF Carries, CopyOfLeast
  <2>4. CASE C # {}
    <3>1. PICK c \in C : b = m[c] /\ \A x \in C : b.value <= m[x].value
      BY <2>4 DEF Carries, CopyOfLeast
    <3>2. b.value \in Int /\ \A x \in C \cup D : m[x].value \in Int
      BY <3>1, EligibleIs
    <3>3. CASE e.value < b.value
      <4>1. Lesser(b, e) = e
        BY <2>2, <3>3 DEF Lesser
      <4>2. \A x \in C \cup D : e.value <= m[x].value
        BY <2>1, <2>2, <3>1, <3>2, <3>3
      <4> QED
        BY <1>2, <2>1, <4>1, <4>2 DEF Carries, CopyOfLeast
    <3>4. CASE ~(e.value < b.value)
      <4>1. Lesser(b, e) = b
        BY <3>4 DEF Lesser
      <4>2. \A x \in C \cup D : b.value <= m[x].value
        BY <2>1, <2>2, <3>1, <3>2, <3>4
      <4> QED
        BY <2>4, <3>1, <4>1, <4>2 DEF Carries, CopyOfLeast
    <3> QED
      BY <3>3, <3>4
  <2> QED
    BY <2>3, <2>4
<1> QED
  BY <1>1, <1>2

LEMMA SlotOffers ==
  ASSUME NEW m \in Memory, NEW n \in Nodes, NEW z \in 0 .. Z - 1
  PROVE  Offers(m, Here(m, n, z), m[<<n, z>>])
<1>1. <<n, z>> \in Cells
  BY DEF Cells
<1>2. CASE <<n, z>> \in Eligible(m)
  <2>1. Here(m, n, z) = {<<n, z>>} /\ m[<<n, z>>].value \in Int
    BY <1>2, EligibleIs DEF Here
  <2> QED
    BY <2>1 DEF Offers, CopyOfLeast
<1>3. CASE <<n, z>> \notin Eligible(m)
  <2>1. Here(m, n, z) = {}
    BY <1>3 DEF Here
  <2>2. is_empty(m[<<n, z>>]) \/ m[<<n, z>>].value = MaxPriority
    BY <1>1, <1>3 DEF Eligible, FullCells
  <2> QED
    BY <2>1, <2>2 DEF Offers
<1> QED
  BY <1>2, <1>3

(* What is below a node of the path, in the order of the comparisons.          *)
LEMMA BelowSplits ==
  ASSUME NEW m \in Memory, NEW d \in Levels, NEW p \in Positions, NEW n, n = get_index(d, p)
  PROVE  BelowIn(m, n) =
           IF d = H - 1 THEN ({} \cup Here(m, n, 0)) \cup Here(m, n, 1)
           ELSE ((BelowIn(m, get_index(d + 1, p)) \cup Here(m, n, 0)) \cup Here(m, n, 1))
                \cup BelowIn(m, get_sibling(d + 1, p))
<1>1. n \in Nodes /\ n # Stash
  BY IndexBounds, StashNoNode
<1>2. ASSUME NEW c \in Eligible(m), c[1] # Stash
      PROVE  c[1] = n <=> c \in Here(m, n, 0) \cup Here(m, n, 1)
  <2>1. c = <<c[1], c[2]>> /\ c[2] \in 0 .. 1
    BY <1>2, CellShape, HeapElementAssumption DEF Eligible, FullCells
  <2> QED
    BY <2>1 DEF Here
<1>3. \A c \in Here(m, n, 0) \cup Here(m, n, 1) : c \in Eligible(m) /\ c[1] = n
  BY DEF Here
<1>4. CASE d = H - 1
  <2>1. \A x : IsBelow(x, n) <=> x = n
    BY <1>4, BelowLeaf
  <2> QED
    BY <1>1, <1>2, <1>3, <1>4, <2>1 DEF BelowIn
<1>5. CASE d # H - 1
  <2>1. \A x : IsBelow(x, n) <=> \/ x = n
                                  \/ IsBelow(x, get_index(d + 1, p))
                                  \/ IsBelow(x, get_sibling(d + 1, p))
    BY <1>5, BelowChildren
  <2> QED
    BY <1>1, <1>2, <1>3, <1>5, <2>1 DEF BelowIn
<1> QED
  BY <1>4, <1>5

-------------------------------------------------------------------------------
(* Refreshing the minima of a path.                                            *)

(* The minima of update_min, from the leaf (H - 1) to the root.                *)
Minima(least, t, min, p) ==
  /\ least[H] = NoMin
  /\ \A d \in Levels : least[d] = MinimumAt(d, least[d + 1], t, min, p)

LEMMA LeastUnfolds ==
  ASSUME NEW t, NEW min, NEW p, NEW md \in update_min(t, min, p)
  PROVE  \E least : /\ Minima(least, t, min, p)
                    /\ md = [n \in Nodes |-> IF n \in PathNodes(p) THEN least[Depth(n)] ELSE min[n]]
<1> DEFINE From(k, f) == f = [d \in k .. H |-> IF d = H THEN NoMin
                                              ELSE MinimumAt(d, f[d + 1], t, min, p)]
           P == {k \in 0 .. H : \E f : From(k, f)}
<1>1. H \in Nat /\ H > 1
  BY HeapAssumption
<1>2. H \in P
  <2> DEFINE f == [d \in H .. H |-> NoMin]
  <2>1. From(H, f)
    BY <1>1
  <2> HIDE DEF From, f
  <2> QED
    BY <1>1, <2>1
<1>3. ASSUME NEW k \in 0 .. H - 1, k + 1 \in P
      PROVE  k \in P
  <2>1. PICK f : From(k + 1, f)
    BY <1>3
  <2> DEFINE g == [d \in k .. H |-> IF d = k THEN MinimumAt(k, f[k + 1], t, min, p) ELSE f[d]]
  <2>2. ASSUME NEW d \in k .. H
        PROVE  g[d] = IF d = H THEN NoMin ELSE MinimumAt(d, g[d + 1], t, min, p)
    <3>1. CASE d = k
      <4>1. g[d + 1] = f[k + 1] /\ d # H
        BY <1>1, <3>1
      <4> QED
        BY <3>1, <4>1
    <3>2. CASE d # k
      <4>1. d \in k + 1 .. H /\ g[d] = f[d]
        BY <1>1, <3>2
      <4>2. f[d] = IF d = H THEN NoMin ELSE MinimumAt(d, f[d + 1], t, min, p)
        BY <2>1, <4>1
      <4>3. d # H => g[d + 1] = f[d + 1]
        BY <1>1, <4>1
      <4> QED
        BY <4>1, <4>2, <4>3
    <3> QED
      BY <3>1, <3>2
  <2>3. From(k, g)
    BY <2>2
  <2> HIDE DEF From, g
  <2> QED
    BY <1>1, <2>3
<1>4. 0 \in P
  <2> HIDE DEF P
  <2>1. 1 .. H \subseteq P
    BY <1>1, <1>2, <1>3, Upwards
  <2>2. 1 \in P /\ 0 \in 0 .. H - 1 /\ 0 + 1 = 1
    BY <1>1, <2>1
  <2> QED
    BY <1>3, <2>2
<1>5. \E f : f = [d \in 0 .. H |-> IF d = H THEN NoMin ELSE MinimumAt(d, f[d + 1], t, min, p)]
  BY <1>4
<1> DEFINE least == CHOOSE f : f = [d \in 0 .. H |-> IF d = H THEN NoMin
                                                    ELSE MinimumAt(d, f[d + 1], t, min, p)]
<1>6. least = [d \in 0 .. H |-> IF d = H THEN NoMin
                                ELSE MinimumAt(d, least[d + 1], t, min, p)]
  BY <1>5
<1>7. md = [n \in Nodes |-> IF n \in PathNodes(p) THEN least[Depth(n)] ELSE min[n]]
  BY DEF update_min
<1> HIDE DEF least
<1>8. \A d \in 0 .. H : least[d] = IF d = H THEN NoMin
                                    ELSE MinimumAt(d, least[d + 1], t, min, p)
  BY <1>6, Zenon
<1>9. Minima(least, t, min, p)
  BY <1>1, <1>8 DEF Minima, Levels
<1> QED
  BY <1>7, <1>9

(* The cells behind the minimum carried up to depth d.                         *)
Behind(m, d, p) == IF d = H THEN {} ELSE BelowIn(m, get_index(d, p))

(* Every node, and those off the path, hold the right minimum; an empty block  *)
(* stored in the root is the initial minimum.                                  *)
AllRight(m, md) == \A n \in Nodes : Right(m, md, n)
RightOff(m, md, p) == \A n \in Nodes \ PathNodes(p) : Right(m, md, n)
RootRefreshed(md) == is_empty(md[0]) => md[0] = NoMin

LEMMA SiblingOffPath ==
  ASSUME NEW d \in Levels, d # H - 1, NEW p \in Positions
  PROVE  get_sibling(d + 1, p) \in Nodes \ PathNodes(p)
<1> DEFINE s == Flipped(d, p)
<1>1. /\ d + 1 \in Levels /\ s \in Positions /\ get_sibling(d + 1, p) = get_index(d + 1, s)
      /\ s % Pow2[d + 1] # p % Pow2[d + 1]
  BY Siblings
<1> HIDE DEF s
<1>2. get_index(d + 1, s) \in Nodes
  BY <1>1, IndexBounds
<1>3. ASSUME NEW e \in Levels, get_index(d + 1, s) = get_index(e, p)
      PROVE  FALSE
  BY <1>1, <1>3, SameNode
<1> QED
  BY <1>1, <1>2, <1>3 DEF PathNodes

LEMMA OneLevelUp ==
  ASSUME NEW m \in Memory, NEW t, NEW min, NEW p \in Positions, NEW d \in Levels,
         \A c \in Cells : c[1] # Stash => m[c] = t[c[1]][c[2]],
         RightOff(m, min, p), NEW below, Carries(m, Behind(m, d + 1, p), below)
  PROVE  Carries(m, Behind(m, d, p), MinimumAt(d, below, t, min, p))
<1> DEFINE n == get_index(d, p)
           C == Behind(m, d + 1, p)
           here == Lesser(Lesser(below, m[<<n, 0>>]), m[<<n, 1>>])
           X == (C \cup Here(m, n, 0)) \cup Here(m, n, 1)
<1>1. n \in Nodes
  BY IndexBounds
<1>2. C \in SUBSET Eligible(m) /\ \A x : BelowIn(m, x) \in SUBSET Eligible(m)
  BY DEF Behind, BelowIn
<1>3. \A z : Here(m, n, z) \in SUBSET Eligible(m)
  BY DEF Here
<1> HIDE DEF n
<1>4. 0 \in 0 .. Z - 1 /\ 1 \in 0 .. Z - 1
  BY HeapElementAssumption
<1>5. m[<<n, 0>>] = t[n][0] /\ m[<<n, 1>>] = t[n][1]
  <2>1. \A z \in 0 .. Z - 1 : <<n, z>> \in Cells /\ n # Stash
    BY <1>1, StashNoNode DEF Cells
  <2> QED
    BY <1>4, <2>1
<1> HIDE DEF C
<1>6. Carries(m, X, here)
  <2>1. Offers(m, Here(m, n, 0), m[<<n, 0>>]) /\ Offers(m, Here(m, n, 1), m[<<n, 1>>])
    BY <1>1, <1>4, SlotOffers
  <2>2. Carries(m, C \cup Here(m, n, 0), Lesser(below, m[<<n, 0>>]))
    <3>1. Carries(m, C, below)
      BY DEF C
    <3> QED
      BY <1>2, <1>3, <2>1, <3>1, LesserCarries
  <2>3. C \cup Here(m, n, 0) \in SUBSET Eligible(m)
    BY <1>2, <1>3
  <2> QED
    BY <1>3, <2>1, <2>2, <2>3, LesserCarries
<1>7. d # H /\ d \in Int /\ H \in Int /\ (d + 1 = H <=> d = H - 1)
  BY HeapAssumption DEF Levels
<1>8. BelowIn(m, n) = IF d = H - 1 THEN ({} \cup Here(m, n, 0)) \cup Here(m, n, 1)
                      ELSE X \cup BelowIn(m, get_sibling(d + 1, p))
  <2>1. d # H - 1 => C = BelowIn(m, get_index(d + 1, p))
    BY <1>7 DEF C, Behind
  <2>2. BelowIn(m, n) =
           IF d = H - 1 THEN ({} \cup Here(m, n, 0)) \cup Here(m, n, 1)
           ELSE ((BelowIn(m, get_index(d + 1, p)) \cup Here(m, n, 0)) \cup Here(m, n, 1))
                \cup BelowIn(m, get_sibling(d + 1, p))
    BY BelowSplits DEF n
  <2> QED
    BY <2>1, <2>2
<1>9. Behind(m, d, p) = BelowIn(m, n)
  BY <1>7 DEF Behind, n
<1>10. CASE d = H - 1
  <2>1. C = {}
    BY <1>7, <1>10 DEF C, Behind
  <2>2. MinimumAt(d, below, t, min, p) = here
    BY <1>5, <1>10 DEF MinimumAt, n
  <2>3. X = BelowIn(m, n)
    BY <1>8, <1>10, <2>1
  <2> QED
    BY <1>6, <1>9, <2>2, <2>3
<1>11. CASE d # H - 1
  <2> DEFINE x == get_sibling(d + 1, p)
  <2>1. x \in Nodes \ PathNodes(p)
    BY <1>11, SiblingOffPath
  <2>2. MinimumAt(d, below, t, min, p) = Lesser(here, min[x])
    BY <1>5, <1>11 DEF MinimumAt, n
  <2> HIDE DEF x
  <2>3. Offers(m, BelowIn(m, x), min[x])
    BY <2>1 DEF RightOff, Right, IsLeast, Offers
  <2>4. X \in SUBSET Eligible(m)
    BY <1>2, <1>3
  <2> HIDE DEF X, here
  <2>5. Carries(m, X \cup BelowIn(m, x), Lesser(here, min[x]))
    BY <1>2, <1>6, <2>3, <2>4, LesserCarries
  <2> QED
    BY <1>8, <1>9, <1>11, <2>2, <2>5 DEF x
<1> QED
  BY <1>10, <1>11

(* update_min makes all minima right, given the right ones off its path.       *)
LEMMA UpdateMinIs ==
  ASSUME NEW m \in Memory, NEW t, NEW min, NEW p \in Positions,
         \A c \in Cells : c[1] # Stash => m[c] = t[c[1]][c[2]],
         RightOff(m, min, p), NEW md \in update_min(t, min, p)
  PROVE  AllRight(m, md) /\ RootRefreshed(md)
<1>1. PICK least : /\ Minima(least, t, min, p)
                   /\ md = [n \in Nodes |-> IF n \in PathNodes(p) THEN least[Depth(n)] ELSE min[n]]
  BY LeastUnfolds
<1> DEFINE P == {d \in 0 .. H : Carries(m, Behind(m, d, p), least[d])}
<1>2. H \in Nat /\ H > 1
  BY HeapAssumption
<1>3. H \in P
  BY <1>1, <1>2 DEF Minima, Carries, Behind
<1>4. ASSUME NEW d \in 0 .. H - 1, d + 1 \in P
      PROVE  d \in P
  <2>1. d \in Levels /\ d \in 0 .. H
    BY <1>2 DEF Levels
  <2>2. Carries(m, Behind(m, d + 1, p), least[d + 1])
    BY <1>4
  <2>3. Carries(m, Behind(m, d, p), MinimumAt(d, least[d + 1], t, min, p))
    BY <2>1, <2>2, OneLevelUp
  <2> QED
    BY <1>1, <2>1, <2>3 DEF Minima
<1> HIDE DEF P
<1>5. 1 .. H \subseteq P
  BY <1>2, <1>3, <1>4, Upwards
<1>6. 0 \in P
  <2>1. 1 \in P /\ 0 \in 0 .. H - 1 /\ 0 + 1 = 1
    BY <1>2, <1>5
  <2> QED
    BY <1>4, <2>1
<1>7. ASSUME NEW n \in PathNodes(p)
      PROVE  n \in Nodes /\ Carries(m, BelowIn(m, n), md[n])
  <2>1. PICK d \in Levels : n = get_index(d, p)
    BY DEF PathNodes
  <2>2. Depth(n) = d /\ n \in Nodes
    BY <2>1, DepthIs, IndexBounds
  <2>3. d \in P /\ d # H
    BY <1>2, <1>5, <1>6 DEF Levels
  <2>4. md[n] = least[d]
    BY <1>1, <2>2
  <2> QED
    BY <2>1, <2>2, <2>3, <2>4 DEF P, Behind
<1>8. \A n \in PathNodes(p) : Right(m, md, n)
  BY <1>7, CarriesIsLeast DEF Right
<1>9. \A n \in Nodes \ PathNodes(p) : Right(m, md, n)
  BY <1>1 DEF RightOff, Right
<1>10. RootRefreshed(md)
  <2>1. 0 \in Levels
    BY <1>2 DEF Levels
  <2>2. 0 \in PathNodes(p)
    BY <2>1, RootAboveAll DEF PathNodes
  <2>3. Carries(m, BelowIn(m, 0), md[0])
    BY <1>7, <2>2
  <2>4. \A c \in BelowIn(m, 0) : ~is_empty(m[c])
    BY DEF BelowIn, Eligible, FullCells
  <2> QED
    BY <2>3, <2>4 DEF Carries, CopyOfLeast, RootRefreshed
<1> QED
  BY <1>8, <1>9, <1>10 DEF AllRight

(* The minima of a node depend on nothing but the cells below it.              *)
LEMMA RightKept ==
  ASSUME NEW m, NEW n, NEW md, NEW x,
         \A c \in Cells : c[1] # Stash /\ IsBelow(c[1], x) => n[c] = m[c],
         Right(m, md, x)
  PROVE  Right(n, md, x)
<1>1. BelowIn(n, x) = BelowIn(m, x)
  BY DEF BelowIn, Eligible, FullCells
<1>2. \A c \in BelowIn(m, x) : n[c] = m[c]
  BY DEF BelowIn, Eligible, FullCells
<1> QED
  BY <1>1, <1>2 DEF Right, IsLeast, CopyOfLeast

-------------------------------------------------------------------------------
(* The calls on stash, tree and minima.                                        *)

(* The elements in a memory. *)
BlockSet(m) == {m[c] : c \in FullCells(m)}

LEMMA SinksKeep ==
  ASSUME NEW m, NEW n, Sinks(m, n)
  PROVE  BlockSet(n) = BlockSet(m)
<1>1. \A c \in FullCells(m) : \E d \in FullCells(n) : n[d] = m[c]
  BY DEF Sinks, Goes
<1>2. \A d \in FullCells(n) : \E c \in FullCells(m) : n[d] = m[c]
  BY DEF Sinks, Goes
<1> QED
  BY <1>1, <1>2 DEF BlockSet

Sound(a, t, md) ==
  a \in StashType /\ t \in TreeType /\ Good(Mem(a, t)) /\ AllRight(Mem(a, t), md)

(* A path evicted and refreshed: st is the result of it, B are its elements.   *)
SweptTo(st, B) ==
  /\ Sound(st.stash, st.tree, st.metadata) /\ RootRefreshed(st.metadata)
  /\ BlockSet(Mem(st.stash, st.tree)) = B

LEMMA RefreshedIs ==
  ASSUME NEW a \in StashType, NEW t \in TreeType, NEW md, AllRight(Mem(a, t), md),
         NEW p \in Positions, NEW arr \in Array, NEW m, m = Store(Mem(a, t), arr, p), Good(m),
         NEW new \in Refreshed(arr, p, t, md)
  PROVE  SweptTo(new, BlockSet(m))
<1>1. PICK st \in Evicted(arr, p, t) : \E min \in update_min(st.tree, md, p) :
             new = [stash |-> st.stash, tree |-> st.tree, metadata |-> min]
  BY DEF Refreshed
<1>2. PICK min \in update_min(st.tree, md, p) :
             new = [stash |-> st.stash, tree |-> st.tree, metadata |-> min]
  BY <1>1
<1> DEFINE n == Mem(st.stash, st.tree)
<1>3. /\ st.stash \in StashType /\ st.tree \in TreeType
      /\ Good(n) /\ Sinks(m, n)
      /\ \A c \in Cells \ CellsOn(p) : n[c] = Mem(a, t)[c]
  BY EvictedIs
<1>4. \A c \in Cells : c[1] # Stash => n[c] = st.tree[c[1]][c[2]]
  BY DEF Mem
<1>5. n \in Memory
  BY <1>3 DEF Good
<1> HIDE DEF n
<1>6. RightOff(n, md, p)
  <2> SUFFICES ASSUME NEW x \in Nodes \ PathNodes(p) PROVE Right(n, md, x)
    BY DEF RightOff
  <2>1. \A c \in Cells : c[1] # Stash /\ IsBelow(c[1], x) => c \in Cells \ CellsOn(p)
    BY BelowOffPath DEF CellsOn
  <2>2. Right(Mem(a, t), md, x)
    BY DEF AllRight
  <2> QED
    BY <1>3, <2>1, <2>2, RightKept
<1>7. AllRight(n, min) /\ RootRefreshed(min)
  BY <1>4, <1>5, <1>6, UpdateMinIs
<1>8. BlockSet(n) = BlockSet(m)
  BY <1>3, SinksKeep
<1> QED
  BY <1>2, <1>3, <1>7, <1>8 DEF SweptTo, Sound, n

LEMMA SweepIs ==
  ASSUME NEW st, Sound(st.stash, st.tree, st.metadata), NEW new \in Sweep(st)
  PROVE  SweptTo(new, BlockSet(Mem(st.stash, st.tree)))
<1> DEFINE m == Mem(st.stash, st.tree)
<1>1. /\ st.stash \in StashType /\ st.tree \in TreeType /\ Good(m) /\ m \in Memory
      /\ AllRight(m, st.metadata)
  BY DEF Sound, Good
<1>2. PICK p \in Positions :
             new \in Refreshed(read_path(st.stash, st.tree, p), p, st.tree, st.metadata)
  BY DEF Sweep
<1>3. read_path(st.stash, st.tree, p) = Load(m, p)
  BY <1>1, ReadIs
<1> DEFINE arr == Load(m, p)
<1>4. new \in Refreshed(arr, p, st.tree, st.metadata)
  BY <1>2, <1>3
<1>5. arr \in Array /\ Store(m, arr, p) = m
  <2> HIDE DEF m
  <2> QED
    BY <1>1, LoadType, StoreLoad
<1> HIDE DEF arr
<1> QED
  BY <1>1, <1>4, <1>5, RefreshedIs

(* Two more sweeps after the storing of an element, one after a removal.       *)
LEMMA SweptAgain ==
  ASSUME NEW st, NEW B, SweptTo(st, B), NEW new \in Sweep(st)
  PROVE  SweptTo(new, B)
<1>1. Sound(st.stash, st.tree, st.metadata) /\ BlockSet(Mem(st.stash, st.tree)) = B
  BY DEF SweptTo
<1> QED
  BY <1>1, SweepIs

(* A new element goes to the first empty slot of the stash, if there is one.   *)
LEMMA StoredIs ==
  ASSUME NEW a, NEW t, NEW md, Sound(a, t, md), NEW b \in Block,
         \A c \in FullCells(Mem(a, t)) : Mem(a, t)[c].key # b.key,
         NEW w, w = write_block_to_empty_slot(a, b)
  PROVE  /\ Sound(w, t, md)
         /\ BlockSet(Mem(w, t)) = IF \E s \in 0 .. S - 1 : is_empty(a[s])
                                  THEN BlockSet(Mem(a, t)) \cup {b} ELSE BlockSet(Mem(a, t))
<1> DEFINE m == Mem(a, t)
           n == Mem(w, t)
           empties == {s \in 0 .. S - 1 : is_empty(a[s])}
           x == First(empties)
           c0 == <<Stash, x>>
<1>1. a \in StashType /\ t \in TreeType /\ Good(m) /\ AllRight(m, md) /\ m \in Memory
  BY DEF Sound, Good
<1>2. CASE empties = {}
  <2>1. w = a
    BY <1>2, FirstEmpty
  <2>2. ~ \E s \in 0 .. S - 1 : is_empty(a[s])
    BY <1>2
  <2> QED
    BY <2>1, <2>2
<1>3. CASE empties # {}
  <2>1. x \in empties /\ w = [a EXCEPT ![x] = b]
    BY <1>3, FirstEmpty
  <2>2. x \in 0 .. S - 1 /\ is_empty(a[x])
    BY <2>1
  <2> HIDE DEF empties, x
  <2>3. w \in StashType
    BY <1>1, <2>1, <2>2 DEF StashType, Content
  <2>4. c0 \in Cells /\ m[c0] = a[x] /\ n[c0] = b
    <3>1. c0 \in Cells /\ c0[1] = Stash /\ c0[2] = x
      BY <2>2 DEF Cells
    <3>2. w[x] = b
      BY <1>1, <2>1, <2>2 DEF StashType
    <3> HIDE DEF c0
    <3> QED
      BY <3>1, <3>2 DEF Mem
  <2>5. ASSUME NEW c \in Cells, c # c0
        PROVE  n[c] = m[c]
    <3>1. CASE c[1] = Stash
      <4>1. c[2] \in 0 .. S - 1 /\ c[2] # x
        BY <2>5, <3>1, CellShape
      <4>2. w[c[2]] = a[c[2]]
        BY <1>1, <2>1, <4>1 DEF StashType
      <4> QED
        BY <3>1, <4>2 DEF Mem
    <3>2. CASE c[1] # Stash
      BY <3>2 DEF Mem
    <3> QED
      BY <3>1, <3>2
  <2>6. n \in Memory
    BY <1>1, <2>3, MemType
  <2>7. c0[1] = Stash
    OBVIOUS
  <2> HIDE DEF m, n, c0
  <2>8. ~is_empty(b) /\ is_empty(m[c0])
    <3>1. b.pos \in Positions
      BY DEF Block
    <3>2. b.pos # DUMMY_POS
      BY <3>1, HeapAssumption DEF Positions, DUMMY_POS
    <3> QED
      BY <2>2, <2>4, <3>2 DEF is_empty
  <2>9. FullCells(n) = FullCells(m) \cup {c0} /\ c0 \notin FullCells(m)
    BY <2>4, <2>5, <2>8 DEF FullCells
  <2>10. \A c \in FullCells(m) : n[c] = m[c] /\ m[c].key # b.key
    BY <2>5, <2>9 DEF FullCells, m
  <2>11. Good(n)
    <3>1. Distinct(n)
      BY <1>1, <2>4, <2>9, <2>10 DEF Good, Distinct
    <3>2. OnPaths(n)
      BY <1>1, <2>7, <2>9, <2>10 DEF Good, OnPaths
    <3> QED
      BY <2>6, <3>1, <3>2 DEF Good
  <2>12. AllRight(n, md)
    <3> SUFFICES ASSUME NEW y \in Nodes PROVE Right(n, md, y)
      BY DEF AllRight
    <3>1. \A c \in Cells : c[1] # Stash /\ IsBelow(c[1], y) => n[c] = m[c]
      BY <2>5, <2>7
    <3>2. Right(m, md, y)
      BY <1>1 DEF AllRight
    <3> QED
      BY <3>1, <3>2, RightKept
  <2>13. BlockSet(n) = BlockSet(m) \cup {b}
    BY <2>4, <2>9, <2>10 DEF BlockSet
  <2>14. \E s \in 0 .. S - 1 : is_empty(a[s])
    BY <2>2
  <2> QED
    BY <1>1, <2>3, <2>11, <2>12, <2>13, <2>14 DEF Sound, m, n
<1> QED
  BY <1>2, <1>3

(* What a deletion by key ts on the path of q removes.                         *)
DeletedTo(B, new, ts, q) ==
  /\ new \in {B, {b \in B : b.key # ts}}
  /\ (\A b \in B : b.key = ts => b.pos = q) => new = {b \in B : b.key # ts}

LEMMA DeletedIs ==
  ASSUME NEW m, Good(m), NEW ts, NEW q \in Positions, NEW r, r = Removed(Load(m, q), ts),
         NEW n, n = Store(m, r, q)
  PROVE  r \in Array /\ Good(n) /\ DeletedTo(BlockSet(m), BlockSet(n), ts, q)
<1>1. /\ r \in Array /\ Good(n)
      /\ FullCells(n) = FullCells(m) \ HitCells(m, ts, q)
      /\ \A c \in FullCells(n) : n[c] = m[c]
  BY RemovedIs
<1>2. BlockSet(n) = {m[c] : c \in FullCells(m) \ HitCells(m, ts, q)}
  BY <1>1 DEF BlockSet
<1>3. CASE HitCells(m, ts, q) = {}
  <2>1. BlockSet(n) = BlockSet(m)
    BY <1>2, <1>3 DEF BlockSet
  <2>2. ASSUME \A b \in BlockSet(m) : b.key = ts => b.pos = q,
               NEW b \in BlockSet(m)
        PROVE  b.key # ts
    <3> SUFFICES ASSUME b.key = ts PROVE FALSE
      OBVIOUS
    <3>1. PICK c \in FullCells(m) : b = m[c]
      BY <2>2 DEF BlockSet
    <3>2. c[1] \in {Stash} \cup PathNodes(q) /\ c \in Cells
      BY <2>2, <3>1 DEF Good, OnPaths, FullCells
    <3> QED
      BY <1>3, <3>1, <3>2 DEF HitCells, CellsOn
  <2> QED
    BY <1>1, <2>1, <2>2 DEF DeletedTo
<1>4. CASE HitCells(m, ts, q) # {}
  <2>1. PICK c \in HitCells(m, ts, q) : TRUE
    BY <1>4
  <2>2. c \in FullCells(m) /\ m[c].key = ts
    BY <2>1 DEF HitCells
  <2>3. \A d \in FullCells(m) : m[d].key = ts => d = c
    BY <2>2 DEF Good, Distinct
  <2>4. HitCells(m, ts, q) = {c}
    BY <2>1, <2>3 DEF HitCells
  <2>5. BlockSet(n) = {b \in BlockSet(m) : b.key # ts}
    BY <1>2, <2>2, <2>3, <2>4 DEF BlockSet
  <2> QED
    BY <1>1, <2>5 DEF DeletedTo
<1> QED
  BY <1>3, <1>4

-------------------------------------------------------------------------------
(* The least element.                                                          *)

(* An empty block in the root is that of a refresh, or a heap's without one,   *)
(* which is empty.                                                             *)
RootKnown(md, B) == is_empty(md[0]) => md[0] = NoMin \/ (md[0] = Zeroed /\ B = {})

(* What find_min returns: an element that no other precedes, or an empty block *)
(* of key 0.                                                                   *)
MinOf(B, fm) ==
  IF \A b \in B : b.value = MaxPriority
  THEN fm.pos = DUMMY_POS /\ fm.key = 0
  ELSE /\ fm \in B /\ fm.value # MaxPriority
       /\ \A b \in B : fm.value <= b.value

LEMMA ElementIs ==
  ASSUME NEW m \in Memory, NEW b \in BlockSet(m)
  PROVE  /\ b \in Block /\ ~is_empty(b) /\ b.pos \in Positions
         /\ b.value \in Nat /\ b.value <= MaxPriority /\ MaxPriority \in Nat
<1>1. PICK c \in FullCells(m) : b = m[c]
  BY DEF BlockSet
<1>2. b \in Block /\ ~is_empty(b)
  BY <1>1, FullIsBlock DEF FullCells
<1>3. MaxPriority \in Nat /\ \A x \in Value : x \in 0 .. MaxPriority
  BY HeapElementAssumption
<1>4. b.value \in Value /\ b.pos \in Positions
  BY <1>2 DEF Block
<1> DEFINE v == b.value
<1>5. v \in Nat /\ v <= MaxPriority
  BY <1>3, <1>4
<1> QED
  BY <1>2, <1>3, <1>4, <1>5

(* All elements in the tree are below its root. *)
LEMMA ElementsPlaced ==
  ASSUME NEW a, NEW t, NEW m, m = Mem(a, t), Good(m), NEW b \in BlockSet(m)
  PROVE  \/ \E s \in 0 .. S - 1 : b = a[s] /\ ~is_empty(a[s])
         \/ b.value # MaxPriority => \E c \in BelowIn(m, 0) : b = m[c]
<1>1. PICK c \in FullCells(m) : b = m[c]
  BY DEF BlockSet
<1>2. c \in Cells /\ ~is_empty(m[c]) /\ m[c].pos \in Positions
  BY FullIsBlock DEF FullCells, Good
<1>3. CASE c[1] = Stash
  <2>1. c[2] \in 0 .. S - 1 /\ m[c] = a[c[2]]
    BY <1>2, <1>3, CellShape DEF Mem
  <2> QED
    BY <1>1, <1>2, <2>1
<1>4. CASE c[1] # Stash
  <2>1. c[1] \in PathNodes(m[c].pos)
    BY <1>4 DEF Good, OnPaths
  <2>2. IsBelow(c[1], 0)
    BY <1>2, <2>1, RootAboveAll
  <2> QED
    BY <1>1, <1>4, <2>2 DEF BelowIn, Eligible
<1> QED
  BY <1>3, <1>4

LEMMA FindMinIs ==
  ASSUME NEW a, NEW t, NEW md, Sound(a, t, md), NEW B, B = BlockSet(Mem(a, t)),
         RootKnown(md, B), NEW lesser,
         lesser = {s \in 0 .. S - 1 : ~is_empty(a[s]) /\ a[s].value < md[0].value},
         NEW least, least = {s \in lesser : \A x \in lesser : a[s].value <= a[x].value},
         NEW fm, fm = IF lesser = {} THEN md[0] ELSE a[First(least)]
  PROVE  MinOf(B, fm)
<1> DEFINE m == Mem(a, t)
           C == BelowIn(m, 0)
           v == md[0].value
<1>1. a \in StashType /\ t \in TreeType /\ Good(m) /\ AllRight(m, md) /\ m \in Memory
  BY DEF Sound, Good
<1>2. 0 \in Nodes
  <2>1. 0 \in Levels /\ 0 \in Positions
    BY HeapAssumption DEF Levels, Positions
  <2>2. PathNodes(0) # {} /\ \A x \in PathNodes(0) : 0 \in PathNodes(0)
    BY <2>1, RootAboveAll DEF PathNodes
  <2> QED
    BY <2>1, <2>2, IndexBounds DEF PathNodes
<1>3. Right(m, md, 0)
  BY <1>1, <1>2 DEF AllRight
<1>4. \A s \in 0 .. S - 1 : ~is_empty(a[s]) => a[s] \in B
  <2>1. \A s \in 0 .. S - 1 : <<Stash, s>> \in Cells /\ m[<<Stash, s>>] = a[s]
    BY DEF Mem, Cells
  <2> HIDE DEF m
  <2> QED
    BY <2>1 DEF BlockSet, FullCells, m
<1> HIDE DEF m
<1>5. \A b \in B : /\ b \in Block /\ ~is_empty(b) /\ b.value \in Nat
                   /\ b.value <= MaxPriority /\ MaxPriority \in Nat
  BY <1>1, ElementIs DEF m
<1>6. \A b \in B : \/ \E s \in 0 .. S - 1 : b = a[s] /\ ~is_empty(a[s])
                   \/ b.value # MaxPriority => \E c \in C : b = m[c]
  BY <1>1, ElementsPlaced DEF m
<1>7. \A c \in C : m[c] \in B /\ m[c].value # MaxPriority
  BY DEF BelowIn, Eligible, BlockSet, m
<1> HIDE DEF C
<1>8. IF C = {} THEN is_empty(md[0]) ELSE CopyOfLeast(m, C, md[0])
  BY <1>3 DEF Right, IsLeast, C
(* The root's minimum, or the limit, is what the stash is compared with. *)
<1>9. CASE B = {}
  <2>1. lesser = {} /\ C = {}
    BY <1>4, <1>7, <1>9
  <2>2. fm = md[0] /\ (md[0] = NoMin \/ md[0] = Zeroed)
    BY <1>8, <2>1 DEF RootKnown
  <2> QED
    BY <1>9, <2>2 DEF MinOf, NoMin, Zeroed
<1>10. CASE B # {}
  <2>1. MaxPriority \in Nat
    BY <1>5, <1>10
  <2>2. C = {} => md[0] = NoMin /\ v = MaxPriority
    BY <1>8, <1>10, NoMinIs DEF RootKnown
  <2>3. C # {} => md[0] \in B /\ v \in Nat /\ v < MaxPriority /\ \A c \in C : v <= m[c].value
    <3>1. SUFFICES ASSUME C # {} PROVE md[0] \in B /\ v \in Nat /\ v < MaxPriority
                                       /\ \A c \in C : v <= m[c].value
      OBVIOUS
    <3>2. PICK c \in C : md[0] = m[c] /\ \A d \in C : md[0].value <= m[d].value
      BY <1>8, <3>1 DEF CopyOfLeast
    <3>3. md[0] \in B /\ v # MaxPriority
      BY <1>7, <3>2
    <3>4. v \in Nat /\ v <= MaxPriority
      BY <1>5, <3>3
    <3> QED
      BY <2>1, <3>2, <3>3, <3>4
  <2>4. v \in Nat /\ v <= MaxPriority
    BY <2>1, <2>2, <2>3
  <2> HIDE DEF v
  (* Whatever is in the tree is not less than the root's minimum. *)
  <2>5. \A b \in B : \/ v <= b.value
                     \/ \E s \in lesser : b = a[s]
    <3> SUFFICES ASSUME NEW b \in B PROVE v <= b.value \/ \E s \in lesser : b = a[s]
      OBVIOUS
    <3>1. b.value \in Nat /\ b.value <= MaxPriority
      BY <1>5
    <3>2. CASE \E s \in 0 .. S - 1 : b = a[s] /\ ~is_empty(a[s])
      BY <2>4, <3>1, <3>2 DEF v
    <3>3. CASE b.value # MaxPriority => \E c \in C : b = m[c]
      BY <2>1, <2>3, <2>4, <3>1, <3>3
    <3> QED
      BY <1>6, <3>2, <3>3
  <2>6. \A s \in lesser : a[s] \in B /\ a[s].value \in Nat /\ a[s].value < v
    BY <1>4, <1>5 DEF v
  <2>7. CASE lesser = {}
    <3>1. fm = md[0] /\ \A b \in B : v <= b.value
      BY <2>5, <2>7
    <3>2. CASE C = {}
      <4>1. \A b \in B : b.value = MaxPriority
        BY <1>5, <2>1, <2>2, <3>1, <3>2
      <4> QED
        BY <2>2, <3>1, <3>2, <4>1 DEF MinOf, NoMin
    <3>3. CASE C # {}
      <4>1. md[0] \in B /\ md[0].value # MaxPriority
        BY <2>1, <2>3, <3>3 DEF v
      <4> QED
        BY <3>1, <4>1 DEF MinOf, v
    <3> QED
      BY <3>2, <3>3
  <2>8. CASE lesser # {}
    <3> DEFINE T == {a[s].value : s \in lesser}
    <3>1. PICK k \in T : \A x \in T : k <= x
      <4>1. T \in SUBSET Nat /\ T # {}
        BY <2>6, <2>8
      <4> HIDE DEF T
      <4> QED
        BY <4>1, LeastNatural
    <3>2. least \in SUBSET Nat /\ least # {}
      <4>1. lesser \in SUBSET Nat
        BY EvictionAssumption
      <4> QED
        BY <3>1, <4>1
    <3>3. First(least) \in least
      BY <3>2, FirstIs
    <3> DEFINE x == First(least)
    <3>4. x \in lesser /\ (\A y \in lesser : a[x].value <= a[y].value) /\ fm = a[x]
      BY <2>8, <3>3
    <3> HIDE DEF x
    <3>5. fm \in B /\ fm.value \in Nat /\ fm.value < v
      BY <2>6, <3>4
    <3>6. \A b \in B : fm.value <= b.value
      <4> SUFFICES ASSUME NEW b \in B PROVE fm.value <= b.value
        OBVIOUS
      <4>1. b.value \in Nat
        BY <1>5
      <4>2. v <= b.value => fm.value <= b.value
        BY <2>4, <3>5, <4>1
      <4>3. (\E s \in lesser : b = a[s]) => fm.value <= b.value
        BY <3>4
      <4> QED
        BY <2>5, <4>2, <4>3
    <3>7. fm.value # MaxPriority
      BY <2>1, <2>4, <3>5
    <3> QED
      BY <3>5, <3>6, <3>7 DEF MinOf
  <2> QED
    BY <2>7, <2>8
<1> QED
  BY <1>9, <1>10

-------------------------------------------------------------------------------
(* The invariant.                                                              *)

Held == BlockSet(Mem(stash, tree))

HeldBy(B, h) == \A b \in B : b.key \in DOMAIN h /\ b.pos = h[b.key]

(* The slots and the minima are right, every element has the position and the  *)
(* timestamp of a handle, and an empty minimum in the root has key 0.          *)
HeapInv == /\ Sound(stash, tree, metadata)
           /\ timestamp \in Nat /\ timestamp <= MaxInserts
           /\ handles \in [0 .. timestamp - 1 -> Positions]
           /\ HeldBy(Held, handles)
           /\ RootKnown(metadata, Held)

LEMMA InitiallyEmpty == Init => HeapInv /\ Held = {} /\ is_empty(metadata[0])
<1> SUFFICES ASSUME Init PROVE HeapInv /\ Held = {} /\ is_empty(metadata[0])
  OBVIOUS
<1> DEFINE m == Mem(stash, tree)
<1>1. stash \in StashType /\ tree \in TreeType
  BY DEF Init, StashType, TreeType, Content
<1>2. \A c \in Cells : m[c] = Empty
  BY CellShape DEF Init, Mem
<1>3. m \in Memory
  BY <1>1, MemType
<1> HIDE DEF m
<1>4. FullCells(m) = {}
  BY <1>2, EmptyBlock DEF FullCells
<1>5. Good(m) /\ BlockSet(m) = {}
  BY <1>3, <1>4 DEF Good, Distinct, OnPaths, BlockSet
<1>6. 0 \in Nodes
  <2>1. H \in 0 .. H /\ 0 \in Levels /\ 0 \in Positions
    BY HeapAssumption DEF Levels, Positions
  <2>2. get_index(0, 0) \in Nodes /\ get_index(0, 0) \in PathNodes(0)
    BY <2>1, IndexBounds DEF PathNodes
  <2> QED
    BY <2>1, <2>2, RootAboveAll, IndexBounds DEF PathNodes
<1>7. \A n \in Nodes : metadata[n] = Zeroed
  BY DEF Init
<1>8. AllRight(m, metadata)
  <2>1. \A n : BelowIn(m, n) = {}
    BY <1>4 DEF BelowIn, Eligible
  <2> QED
    BY <1>7, <2>1, NoMinIs DEF AllRight, Right, IsLeast
<1>9. Held = {}
  BY <1>5 DEF Held, m
<1>10. Sound(stash, tree, metadata)
  BY <1>1, <1>5, <1>8 DEF Sound, m
<1>11. timestamp = 0 /\ handles = [ts \in {} |-> 0] /\ MaxInserts \in Nat
  BY HeapElementAssumption DEF Init
<1>12. handles \in [0 .. timestamp - 1 -> Positions]
  BY <1>11
<1> QED
  BY <1>6, <1>7, <1>9, <1>10, <1>11, <1>12, NoMinIs DEF HeapInv, HeldBy, RootKnown

LEMMA SweptHolds ==
  ASSUME NEW st, NEW B, SweptTo(st, B), Becomes(st)
  PROVE  /\ Sound(stash', tree', metadata') /\ Held' = B
         /\ RootKnown(metadata', Held')
BY DEF SweptTo, Becomes, Held, RootRefreshed, RootKnown

LEMMA InsertStep ==
  ASSUME HeapInv, NEW priority \in Value, insert(priority)
  PROVE  /\ HeapInv'
         /\ call' = <<"insert", priority>>
         /\ \E pos \in Positions :
              /\ handles' = With(handles, timestamp, pos)
              /\ \/ Held' = Held \cup {Full(timestamp, pos, priority)}
                 \/ Held' = Held /\ ~ \E s \in 0 .. S - 1 : is_empty(stash[s])
<1>1. PICK pos \in Positions :
        /\ \E with \in {write_block_to_empty_slot(stash, Full(timestamp, pos, priority))} :
           \E st1 \in Sweep([stash |-> with, tree |-> tree, metadata |-> metadata]) :
           \E st2 \in Sweep(st1) : Becomes(st2)
        /\ handles' = With(handles, timestamp, pos)
  BY DEF insert
<1> DEFINE b == Full(timestamp, pos, priority)
           w == write_block_to_empty_slot(stash, b)
           st0 == [stash |-> w, tree |-> tree, metadata |-> metadata]
<1>2. PICK st1 \in Sweep(st0) : \E st2 \in Sweep(st1) : Becomes(st2)
  BY <1>1
<1>3. PICK st2 \in Sweep(st1) : Becomes(st2)
  BY <1>2
<1>4. /\ timestamp \in Nat /\ timestamp < MaxInserts /\ timestamp' = timestamp + 1
      /\ MaxInserts \in Nat /\ Key = 0 .. MaxInserts - 1
  BY HeapElementAssumption DEF insert, HeapInv
<1>5. b \in Block /\ b.key = timestamp /\ b.pos = pos
  <2>1. timestamp \in Key
    BY <1>4
  <2> QED
    BY <2>1 DEF Block, Full
<1>6. DOMAIN handles = 0 .. timestamp - 1 /\ handles \in [0 .. timestamp - 1 -> Positions]
  BY DEF HeapInv
<1>7. \A c \in FullCells(Mem(stash, tree)) : Mem(stash, tree)[c].key # timestamp
  <2>1. \A x \in Held : x.key \in 0 .. timestamp - 1
    BY <1>6 DEF HeapInv, HeldBy
  <2>2. \A c \in FullCells(Mem(stash, tree)) : Mem(stash, tree)[c] \in Held
    BY DEF Held, BlockSet
  <2> QED
    BY <1>4, <2>1, <2>2
<1> HIDE DEF b
<1>8. /\ Sound(w, tree, metadata)
      /\ BlockSet(Mem(w, tree)) = IF \E s \in 0 .. S - 1 : is_empty(stash[s])
                                  THEN Held \cup {b} ELSE Held
  <2>1. Sound(stash, tree, metadata)
    BY DEF HeapInv
  <2> HIDE DEF st0
  <2> QED
    BY <1>5, <1>7, <2>1, StoredIs DEF Held
<1> DEFINE B == BlockSet(Mem(w, tree))
<1>9. SweptTo(st2, B)
  <2>1. st0.stash = w /\ st0.tree = tree /\ st0.metadata = metadata
    OBVIOUS
  <2> HIDE DEF st0, w
  <2>2. SweptTo(st1, B)
    <3>1. Sound(st0.stash, st0.tree, st0.metadata)
      BY <1>8, <2>1
    <3>2. SweptTo(st1, BlockSet(Mem(st0.stash, st0.tree)))
      BY <1>2, <3>1, SweepIs
    <3> QED
      BY <2>1, <3>2
  <2> HIDE DEF B
  <2> QED
    BY <1>3, <2>2, SweptAgain
<1> HIDE DEF B
<1>10. Sound(stash', tree', metadata') /\ Held' = B /\ RootKnown(metadata', Held')
  BY <1>3, <1>9, SweptHolds
<1>11. \/ Held' = Held \cup {b}
       \/ Held' = Held /\ ~ \E s \in 0 .. S - 1 : is_empty(stash[s])
  BY <1>8, <1>10 DEF B
<1>12. /\ handles' \in [0 .. timestamp' - 1 -> Positions]
       /\ handles'[timestamp] = pos /\ timestamp \in DOMAIN handles'
       /\ \A k \in 0 .. timestamp - 1 : k \in DOMAIN handles' /\ handles'[k] = handles[k]
  <2>1. handles' = With(handles, timestamp, pos)
    BY <1>1
  <2>2. (0 .. timestamp - 1) \cup {timestamp} = 0 .. timestamp' - 1 /\ timestamp \notin 0 .. timestamp - 1
    BY <1>4
  <2>3. DOMAIN handles' = 0 .. timestamp' - 1
    BY <1>6, <2>1, <2>2 DEF With
  <2> QED
    BY <1>6, <2>1, <2>2, <2>3 DEF With
<1>13. HeldBy(Held', handles')
  <2>1. \A x \in Held : x.key \in 0 .. timestamp - 1 /\ x.pos = handles[x.key]
    BY <1>6 DEF HeapInv, HeldBy
  <2> QED
    BY <1>5, <1>11, <1>12, <2>1 DEF HeldBy
<1>14. timestamp' \in Nat /\ timestamp' <= MaxInserts
  BY <1>4
<1>15. HeapInv'
  BY <1>10, <1>12, <1>13, <1>14 DEF HeapInv
<1> QED
  BY <1>1, <1>11, <1>15 DEF b, insert

LEMMA DeleteStep ==
  ASSUME HeapInv, NEW pos \in Positions \cup {DUMMY_POS}, NEW ts, delete(pos, ts)
  PROVE  /\ HeapInv' /\ UNCHANGED handles
         /\ DeletedTo(Held, Held', ts, PathOf(pos))
<1> DEFINE q == PathOf(pos)
           m == Mem(stash, tree)
           r == Removed(Load(m, q), ts)
           n == Store(m, r, q)
<1>1. q \in Positions
  BY HeapAssumption DEF PathOf, Positions
<1>2. stash \in StashType /\ tree \in TreeType /\ Good(m) /\ AllRight(m, metadata)
  BY DEF HeapInv, Sound
<1>3. read_path(stash, tree, q) = Load(m, q)
  BY <1>1, <1>2, ReadIs
<1>4. PICK st1 \in Refreshed(r, q, tree, metadata) : \E st2 \in Sweep(st1) : Becomes(st2)
  BY <1>3 DEF delete
<1>5. PICK st2 \in Sweep(st1) : Becomes(st2)
  BY <1>4
<1>6. r \in Array /\ Good(n) /\ DeletedTo(BlockSet(m), BlockSet(n), ts, q)
  <2> HIDE DEF m, q
  <2> QED
    BY <1>1, <1>2, DeletedIs
<1>7. SweptTo(st1, BlockSet(n))
  <2> HIDE DEF q, r
  <2> QED
    BY <1>1, <1>2, <1>4, <1>6, RefreshedIs
<1>8. SweptTo(st2, BlockSet(n))
  <2> HIDE DEF n
  <2> QED
    BY <1>5, <1>7, SweptAgain
<1>9. Sound(stash', tree', metadata') /\ Held' = BlockSet(n) /\ RootKnown(metadata', Held')
  <2> HIDE DEF n
  <2> QED
    BY <1>5, <1>8, SweptHolds
<1>10. DeletedTo(Held, Held', ts, q)
  <2> HIDE DEF n, q
  <2> QED
    BY <1>6, <1>9 DEF Held
<1>11. UNCHANGED <<timestamp, handles>>
  BY DEF delete
<1>12. HeldBy(Held', handles')
  <2>1. Held' \subseteq Held
    BY <1>10 DEF DeletedTo
  <2> QED
    BY <1>11, <2>1 DEF HeapInv, HeldBy
<1> QED
  BY <1>9, <1>10, <1>11, <1>12 DEF HeapInv

-------------------------------------------------------------------------------
(* The heap's calls are those of a priority queue.                             *)

LEMMA ElementsAre ==
  ASSUME NEW a, NEW t, NEW used, used = UsedSlots(a), NEW places, places = UsedPlaces(t)
  PROVE  {a[s] : s \in used} \cup {t[nz[1]][nz[2]] : nz \in places} = BlockSet(Mem(a, t))
<1> USE DEF UsedSlots, UsedPlaces
<1> DEFINE m == Mem(a, t)
<1>1. \A s \in 0 .. S - 1 : <<Stash, s>> \in Cells /\ m[<<Stash, s>>] = a[s]
  BY DEF Mem, Cells
<1>2. \A c \in Nodes \X (0 .. Z - 1) : c \in Cells /\ m[c] = t[c[1]][c[2]]
  BY StashNoNode DEF Mem, Cells
<1> HIDE DEF m
<1>3. \A s \in used : a[s] \in BlockSet(m)
  BY <1>1 DEF BlockSet, FullCells
<1>4. \A nz \in places : t[nz[1]][nz[2]] \in BlockSet(m)
  BY <1>2 DEF BlockSet, FullCells
<1>5. ASSUME NEW c \in FullCells(m)
      PROVE  \/ \E s \in used : m[c] = a[s]
             \/ \E nz \in places : m[c] = t[nz[1]][nz[2]]
  <2>1. CASE c[1] = Stash
    <3>1. c[2] \in 0 .. S - 1 /\ c = <<Stash, c[2]>> /\ ~is_empty(m[c])
      BY <2>1, CellShape DEF FullCells
    <3> QED
      BY <1>1, <3>1
  <2>2. CASE c[1] # Stash
    <3>1. c \in Nodes \X (0 .. Z - 1) /\ ~is_empty(m[c])
      BY <2>2, CellShape DEF FullCells, Cells
    <3> QED
      BY <1>2, <3>1
  <2> QED
    BY <2>1, <2>2
<1> QED
  BY <1>3, <1>4, <1>5 DEF BlockSet, m

LEMMA ElementsHeld == Elements = Held
<1>1. FullSlots = UsedSlots(stash) /\ FullTreeSlots = UsedPlaces(tree)
  BY DEF FullSlots, FullTreeSlots, UsedSlots, UsedPlaces
<1> QED
  BY <1>1, ElementsAre DEF Elements, Held

LEMMA ElementsHeldNext == Elements' = Held'
<1>1. FullSlots' = UsedSlots(stash') /\ FullTreeSlots' = UsedPlaces(tree')
  BY DEF FullSlots, FullTreeSlots, UsedSlots, UsedPlaces
<1> QED
  BY <1>1, ElementsAre DEF Elements, Held

LEMMA LeastFound == HeapInv => MinOf(Held, find_min)
<1> SUFFICES ASSUME HeapInv PROVE MinOf(Held, find_min)
  OBVIOUS
<1> DEFINE lesser == {s \in 0 .. S - 1 : ~is_empty(stash[s]) /\ stash[s].value < metadata[0].value}
           least == {s \in lesser : \A x \in lesser : stash[s].value <= stash[x].value}
           fm == IF lesser = {} THEN metadata[0] ELSE stash[First(least)]
<1>1. find_min = fm
  BY DEF find_min
<1>2. Sound(stash, tree, metadata) /\ RootKnown(metadata, Held) /\ Held = BlockSet(Mem(stash, tree))
  BY DEF HeapInv, Held
<1>3. least = {s \in lesser : \A x \in lesser : stash[s].value <= stash[x].value}
  OBVIOUS
<1>4. fm = IF lesser = {} THEN metadata[0] ELSE stash[First(least)]
  OBVIOUS
<1> HIDE DEF fm, least
<1>5. lesser = {s \in 0 .. S - 1 : ~is_empty(stash[s]) /\ stash[s].value < metadata[0].value}
  OBVIOUS
<1> HIDE DEF lesser
<1> QED
  BY <1>1, <1>2, <1>3, <1>4, <1>5, FindMinIs

(* The minimum of the priority queue, as a set. *)
Least == IF is_empty(find_min) THEN {} ELSE {find_min}

LEMMA LeastIsMinimum ==
  HeapInv => NoneBelowMax \/ FindsMinimum
<1> SUFFICES ASSUME HeapInv, ~NoneBelowMax PROVE PQ!MinimumOf(Elements, Least)
  BY DEF FindsMinimum, Least
<1>1. MinOf(Held, find_min)
  BY LeastFound
<1>2. \A b \in Held : ~is_empty(b)
  BY DEF Held, BlockSet, FullCells
<1> DEFINE E == {e \in Elements : e.value # MaxPriority}
<1>3. CASE Elements = {}
  <2>1. is_empty(find_min)
    BY <1>1, <1>3, ElementsHeld DEF MinOf, is_empty
  <2> QED
    BY <1>3, <2>1 DEF PQ!MinimumOf, Least
<1>4. CASE E # {}
  <2>1. /\ find_min \in Elements /\ find_min.value # MaxPriority
        /\ \A b \in Elements : find_min.value <= b.value
    BY <1>1, <1>4, ElementsHeld DEF MinOf
  <2>2. Least = {find_min}
    BY <1>2, <2>1, ElementsHeld DEF Least
  <2> QED
    BY <1>4, <2>1, <2>2 DEF PQ!MinimumOf
<1> QED
  BY <1>3, <1>4 DEF NoneBelowMax

(* No two elements have a key in common. *)
LEMMA KeysApart ==
  ASSUME HeapInv, NEW b \in Held, NEW c \in Held, b.key = c.key
  PROVE  b = c
<1>1. Distinct(Mem(stash, tree))
  BY DEF HeapInv, Sound, Good
<1> QED
  BY <1>1 DEF Held, BlockSet, Distinct

LEMMA DeleteImplements ==
  ASSUME HeapInv, NEW ts \in DOMAIN handles, delete(handles[ts], ts), call' = <<"delete", ts>>
  PROVE  HeapInv' /\ PQ!Delete(ts)
<1>1. handles[ts] \in Positions
  BY DEF HeapInv
<1>2. PathOf(handles[ts]) = handles[ts]
  BY <1>1, HeapAssumption DEF PathOf, Positions, DUMMY_POS
<1>3. HeapInv' /\ UNCHANGED handles /\ DeletedTo(Held, Held', ts, handles[ts])
  BY <1>1, <1>2, DeleteStep
<1>4. \A b \in Held : b.key = ts => b.pos = handles[ts]
  BY DEF HeapInv, HeldBy
<1>5. Held' = {b \in Held : b.key # ts}
  BY <1>3, <1>4 DEF DeletedTo
<1>6. Elements' = {b \in Elements : b.key # ts}
  BY <1>5, ElementsHeld, ElementsHeldNext
<1> QED
  BY <1>3, <1>6 DEF PQ!Delete

LEMMA ExtractImplements ==
  ASSUME HeapInv, extract_min, call' = <<"extract_min">>
  PROVE  HeapInv' /\ (NoneBelowMax \/ PQ!ExtractMin)
<1> DEFINE fm == find_min
<1>1. delete(fm.pos, fm.key) /\ MinOf(Held, fm)
  BY LeastFound DEF extract_min
<1>2. \A b \in Held : b.pos \in Positions /\ ~is_empty(b)
  BY ElementIs DEF HeapInv, Sound, Good, Held
<1>3. fm.pos \in Positions \cup {DUMMY_POS}
  BY <1>1, <1>2 DEF MinOf
<1> HIDE DEF fm
<1>4. HeapInv' /\ UNCHANGED handles /\ DeletedTo(Held, Held', fm.key, PathOf(fm.pos))
  BY <1>1, <1>3, DeleteStep
<1>5. Elements' = Held'
  BY ElementsHeldNext
<1>6. CASE \A b \in Held : b.value = MaxPriority
  <2> SUFFICES ASSUME Elements = {} PROVE PQ!ExtractMin
    BY <1>4, <1>6, ElementsHeld DEF NoneBelowMax
  <2>1. fm.pos = DUMMY_POS
    BY <1>1, <1>6 DEF MinOf
  <2>2. Least = {}
    BY <2>1 DEF Least, is_empty, fm
  <2>3. Elements' = Elements \ Least
    BY <1>4, <1>5, <2>2, ElementsHeld DEF DeletedTo
  <2> QED
    BY <1>4, <2>3 DEF PQ!ExtractMin, Least
<1>7. CASE ~ \A b \in Held : b.value = MaxPriority
  <2>1. fm \in Held
    BY <1>1, <1>7 DEF MinOf
  <2>2. Least = {fm}
    BY <1>2, <2>1 DEF Least, fm
  <2>3. \A b \in Held : b.key = fm.key => b = fm
    BY <2>1, KeysApart
  <2>4. PathOf(fm.pos) = fm.pos
    BY <1>2, <2>1, HeapAssumption DEF PathOf, Positions, DUMMY_POS
  <2>5. Held' = {b \in Held : b.key # fm.key}
    BY <1>4, <2>3, <2>4 DEF DeletedTo
  <2>6. Held' = Held \ {fm}
    BY <2>3, <2>5
  <2>7. Elements' = Elements \ Least
    BY <1>5, <2>2, <2>6, ElementsHeld
  <2> QED
    BY <1>4, <2>2, <2>7 DEF PQ!ExtractMin, Least
<1> QED
  BY <1>6, <1>7

LEMMA InsertImplements ==
  ASSUME HeapInv, NEW priority \in Value, insert(priority)
  PROVE  /\ HeapInv'
         /\ \E pos \in Positions : PQ!Insert(Cardinality(DOMAIN handles), pos, priority)
<1>1. /\ HeapInv' /\ call' = <<"insert", priority>>
      /\ \E pos \in Positions :
           /\ handles' = With(handles, timestamp, pos)
           /\ \/ Held' = Held \cup {Full(timestamp, pos, priority)}
              \/ Held' = Held /\ ~ \E s \in 0 .. S - 1 : is_empty(stash[s])
  BY InsertStep
<1>2. Cardinality(DOMAIN handles) = timestamp
  <2>1. DOMAIN handles = 0 .. timestamp - 1 /\ timestamp \in Nat
    BY DEF HeapInv
  <2>2. Cardinality(0 .. timestamp - 1) = timestamp
    <3>1. 0 \in Int /\ timestamp - 1 \in Int
      BY <2>1
    <3>2. Cardinality(0 .. timestamp - 1)
          = IF 0 > timestamp - 1 THEN 0 ELSE (timestamp - 1) - 0 + 1
      BY <3>1, FS_Interval
    <3> QED
      BY <2>1, <3>2
  <2> QED
    BY <2>1, <2>2
<1>3. Elements = Held /\ Elements' = Held'
  BY ElementsHeld, ElementsHeldNext
<1>4. PICK pos \in Positions :
        /\ handles' = With(handles, timestamp, pos)
        /\ \/ Held' = Held \cup {Full(timestamp, pos, priority)}
           \/ Held' = Held /\ ~ \E s \in 0 .. S - 1 : is_empty(stash[s])
  BY <1>1
<1>5. PQ!Insert(timestamp, pos, priority)
  BY <1>1, <1>3, <1>4 DEF PQ!Insert, PQ!With, With, Full
<1> QED
  BY <1>1, <1>2, <1>5

LEMMA NextImplements ==
  ASSUME HeapInv, [Next]_vars
  PROVE  /\ HeapInv'
         /\ [/\ (NoneBelowMax /\ call' = <<"extract_min">>) \/ PQ!Operation
             /\ NoneBelowMax' \/ FindsMinimum']_(PQ!pqVars)
<1>1. CASE UNCHANGED vars
  <2>1. HeapInv'
    BY <1>1 DEF vars, HeapInv, Held
  <2>2. UNCHANGED PQ!pqVars
    BY <1>1 DEF vars, PQ!pqVars, Elements, FullSlots, FullTreeSlots, find_min
  <2> QED
    BY <2>1, <2>2
<1>2. CASE Next
  <2> DEFINE Step == \/ \E pos \in Positions : \E priority \in Value :
                          PQ!Insert(Cardinality(DOMAIN handles), pos, priority)
                     \/ \E ts \in DOMAIN handles : PQ!Delete(ts)
                     \/ PQ!ExtractMin
             Overlooked == NoneBelowMax /\ call' = <<"extract_min">>
  <2>1. HeapInv' /\ (Overlooked \/ Step)
    <3>1. ASSUME NEW priority \in Value, insert(priority)
          PROVE  HeapInv' /\ Step
      BY <3>1, InsertImplements
    <3>2. ASSUME NEW ts \in DOMAIN handles, delete(handles[ts], ts) /\ call' = <<"delete", ts>>
          PROVE  HeapInv' /\ Step
      BY <3>2, DeleteImplements
    <3>3. ASSUME extract_min /\ call' = <<"extract_min">>
          PROVE  HeapInv' /\ (Overlooked \/ Step)
      BY <3>3, ExtractImplements
    <3> QED
      BY <1>2, <3>1, <3>2, <3>3 DEF Next
  <2>2. NoneBelowMax' \/ FindsMinimum'
    <3>1. HeapInv' => (NoneBelowMax \/ FindsMinimum)'
      BY LeastIsMinimum, PTL
    <3> QED
      BY <2>1, <3>1
  <2>3. Overlooked \/ PQ!Operation
    <3>1. PQ!Cardinality(DOMAIN handles) = Cardinality(DOMAIN handles)
      BY DEF PQ!Cardinality, Cardinality
    <3> QED
      BY <2>1, <3>1 DEF PQ!Operation
  <2> QED
    BY <2>1, <2>2, <2>3
<1> QED
  BY <1>1, <1>2

LEMMA HeapInvariant == Spec => []HeapInv
<1>1. Init => HeapInv
  BY InitiallyEmpty
<1>2. HeapInv /\ [Next]_vars => HeapInv'
  BY NextImplements
<1> QED
  BY <1>1, <1>2, PTL DEF Spec

(* The first documented invariant of the heap: for every height, stash size    *)
(* and number of insertions, each node of metadata holds a current copy of an  *)
(* element with the least priority in its subtree, though insert, delete and   *)
(* extract_min refresh only the paths that they evict.                         *)
THEOREM MinimaRight == Spec => []MinimaAreRight
<1>1. HeapInv => MinimaAreRight
  <2> SUFFICES ASSUME HeapInv, NEW n \in Nodes
               PROVE  LET below == {b \in ElementsBelow(n) : b.value # MaxPriority} IN
                      IF below = {} THEN is_empty(metadata[n])
                      ELSE metadata[n] \in below /\ \A b \in below : metadata[n].value <= b.value
    BY DEF MinimaAreRight
  <2> DEFINE m == Mem(stash, tree)
             C == BelowIn(m, n)
             below == {b \in ElementsBelow(n) : b.value # MaxPriority}
  <2>1. below = {m[c] : c \in C}
    <3>1. \A c \in Nodes \X (0 .. Z - 1) : c \in Cells /\ c[1] # Stash /\ m[c] = tree[c[1]][c[2]]
      BY StashNoNode DEF Mem, Cells
    <3>2. \A c \in Cells : c[1] # Stash => c \in Nodes \X (0 .. Z - 1)
      BY CellShape DEF Cells
    <3> HIDE DEF m
    <3>3. ASSUME NEW b \in below
          PROVE  \E c \in C : b = m[c]
      <4>1. PICK c \in FullTreeSlots : IsBelow(c[1], n) /\ b = tree[c[1]][c[2]]
        BY DEF ElementsBelow
      <4>2. c \in Cells /\ c[1] # Stash /\ m[c] = b /\ ~is_empty(m[c])
        BY <3>1, <4>1 DEF FullTreeSlots
      <4> QED
        BY <4>1, <4>2 DEF BelowIn, Eligible, FullCells
    <3>4. ASSUME NEW c \in C
          PROVE  m[c] \in below
      <4>1. /\ c \in Cells /\ ~is_empty(m[c]) /\ c[1] # Stash /\ IsBelow(c[1], n)
            /\ m[c].value # MaxPriority
        BY DEF BelowIn, Eligible, FullCells
      <4>2. c \in FullTreeSlots /\ m[c] = tree[c[1]][c[2]]
        BY <3>1, <3>2, <4>1 DEF FullTreeSlots
      <4> QED
        BY <4>1, <4>2 DEF ElementsBelow
    <3> HIDE DEF below, C
    <3> QED
      BY <3>3, <3>4
  <2>2. IsLeast(m, C, metadata[n])
    BY DEF HeapInv, Sound, AllRight, Right
  <2> HIDE DEF m, C, below
  <2>3. IF below = {} THEN is_empty(metadata[n])
        ELSE metadata[n] \in below /\ \A b \in below : metadata[n].value <= b.value
    BY <2>1, <2>2 DEF IsLeast, CopyOfLeast
  <2> QED
    BY <2>3 DEF below
<1> QED
  BY <1>1, HeapInvariant, PTL

(* What a deletion relies on, for every height, stash size and number of       *)
(* insertions: an element is in one slot only, in the stash or on the path     *)
(* that insert returned with its timestamp, wherever the evictions put it.     *)
THEOREM HandlesFind == Spec => []FoundByHandle
<1>1. HeapInv => FoundByHandle
  <2> SUFFICES ASSUME HeapInv PROVE FoundByHandle
    OBVIOUS
  <2> DEFINE m == Mem(stash, tree)
             F == FullCells(m)
             keys == {b.key : b \in Elements}
             f == [c \in F |-> m[c].key]
  <2>1. Distinct(m) /\ OnPaths(m)
    BY DEF HeapInv, Sound, Good
  <2>2. IsFiniteSet(F) /\ Cardinality(F) = Cardinality(FullSlots) + Cardinality(FullTreeSlots)
    <3>1. FullSlots = UsedSlots(stash) /\ FullTreeSlots = UsedPlaces(tree)
      BY DEF FullSlots, FullTreeSlots, UsedSlots, UsedPlaces
    <3> QED
      BY <3>1, CellsCounted
  <2>3. \A c \in Nodes \X (0 .. Z - 1) : c \in Cells /\ c[1] # Stash /\ m[c] = tree[c[1]][c[2]]
    BY StashNoNode DEF Mem, Cells
  <2>4. Elements = BlockSet(m)
    BY ElementsHeld DEF Held
  <2> HIDE DEF m
  <2>5. f \in Bijection(F, keys)
    <3>1. keys = {m[c].key : c \in F}
      BY <2>4 DEF BlockSet
    <3> QED
      BY <2>1, <3>1 DEF Distinct, Bijection, Injection, Surjection, IsInjective
  <2> HIDE DEF F, f, keys
  <2>6. Cardinality(F) = Cardinality(keys)
    BY <2>2, <2>5, FS_Bijection DEF ExistsBijection
  <2>7. \A b \in Elements : b.pos = handles[b.key]
    BY ElementsHeld DEF HeapInv, HeldBy
  <2>8. \A c \in FullTreeSlots : c[1] \in PathNodes(tree[c[1]][c[2]].pos)
    BY <2>1, <2>3 DEF OnPaths, FullCells, FullTreeSlots
  <2> QED
    BY <2>2, <2>6, <2>7, <2>8 DEF FoundByHandle, keys
<1> QED
  BY <1>1, HeapInvariant, PTL

(* The heap implements a priority queue, for every height, stash size and      *)
(* number of insertions: an insertion loses its element only to a full stash,  *)
(* delete removes just the element of its handle, and unless all elements have *)
(* the priority K::MAX, find_min returns an element with the least one and     *)
(* extract_min removes just that one.                                          *)
THEOREM HeapIsPriorityQueue == Spec => ImplementsPriorityQueue
<1>1. Init => PQ!Init
  <2> SUFFICES ASSUME Init PROVE PQ!Init
    OBVIOUS
  <2>1. HeapInv /\ Held = {} /\ is_empty(metadata[0])
    BY InitiallyEmpty
  <2>2. Elements = {}
    BY <2>1, ElementsHeld
  <2>3. is_empty(find_min)
    <3>1. MinOf(Held, find_min)
      BY <2>1, LeastFound
    <3> QED
      BY <2>1, <3>1 DEF MinOf, is_empty
  <2> QED
    BY <2>2, <2>3 DEF PQ!Init, Init
<1>2. HeapInv /\ [Next]_vars
        => [/\ (NoneBelowMax /\ call' = <<"extract_min">>) \/ PQ!Operation
            /\ NoneBelowMax' \/ FindsMinimum']_(PQ!pqVars)
  BY NextImplements
<1> QED
  BY <1>1, <1>2, HeapInvariant, PTL DEF Spec, ImplementsPriorityQueue
===============================================================================
