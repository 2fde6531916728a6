------------------------------ MODULE Compaction ------------------------------
(* Oblivious compaction, distribution and rotation (sort/src/compaction.rs and *)
(* rotate.rs).  An array is a function on 0 .. n - 1, a slice of it is given   *)
(* by its first index lo and its length.  Which pairs are swapped depends on   *)
(* the prefix sums only, never on the elements.                                *)
EXTENDS Naturals, FiniteSets, SequencesExt

(* The arrays met are at most 2^7 long. *)
Powers == {2 ^ k : k \in 0 .. 7}
LOCAL Least(S) == CHOOSE p \in S : \A q \in S : p <= q

get_strictly_bigger_power_of_two(n) == Least({p \in Powers : p > n})
get_smaller_or_equal_power_of_two(n) == get_strictly_bigger_power_of_two(n) \div 2
next_power_of_two(n) == Least({p \in Powers : p >= n})

Len0(arr) == Cardinality(DOMAIN arr)
Identity(n) == [i \in 0 .. n - 1 |-> i]

compute_prefix_sum(arr, kept) ==
  [i \in 0 .. Len0(arr) |-> Cardinality({j \in 0 .. i - 1 : arr[j] \in kept})]

(* cswap(l, l + d) for every l of the set Left, no two of which overlap. *)
Exchanged(arr, d, Left) ==
  [i \in DOMAIN arr |-> CASE i \in Left -> arr[i + d]
                          [] i >= d /\ i - d \in Left -> arr[i - d]
                          [] OTHER -> arr[i]]
-------------------------------------------------------------------------------
(* What one level of the recursion on a power of two knows: the marks of its   *)
(* left half, and the offsets of the two halves.                               *)
LeftMarks(pre, lo, n) == pre[lo + n \div 2] - pre[lo]
zleft(n, z) == z % (n \div 2)
zright(pre, lo, n, z) == (z + LeftMarks(pre, lo, n)) % (n \div 2)

(* Mutant of Crossing: the left half's own offset decides alone. *)
Crossing_OneSide(pre, lo, n, z) ==
  LET half == n \div 2 IN
  {lo + i : i \in {j \in 0 .. half - 1 : (z >= half) # (j >= zright(pre, lo, n, z))}}

(* The pairs swapped between the halves. *)
Crossing(pre, lo, n, z) ==
  LET half == n \div 2
      s_a  == zleft(n, z) + LeftMarks(pre, lo, n) >= half
      s_b  == z >= half IN
  {lo + i : i \in {j \in 0 .. half - 1 : (s_a # s_b) # (j >= zright(pre, lo, n, z))}}

(* Length 2: (!m) & x is x if m = 0 and 0 if m = 1. *)
ShouldSwap(pre, lo, z) ==
  (IF pre[lo + 1] = pre[lo] THEN pre[lo + 2] - pre[lo + 1] ELSE 0) # z

Pair(arr, pre, lo, z) == Exchanged(arr, 1, IF ShouldSwap(pre, lo, z) THEN {lo} ELSE {})

RECURSIVE compact_payload_offset(_, _, _, _, _)
compact_payload_offset(arr, pre, lo, n, z) ==
  LET half == n \div 2 IN
  IF n = 2 THEN Pair(arr, pre, lo, z)
  ELSE Exchanged(
         compact_payload_offset(
           compact_payload_offset(arr, pre, lo, half, zleft(n, z)),
           pre, lo + half, half, zright(pre, lo, n, z)),
         half, Crossing(pre, lo, n, z))

RECURSIVE distribute_payload_offset(_, _, _, _, _)
distribute_payload_offset(arr, pre, lo, n, z) ==
  LET half == n \div 2 IN
  IF n = 2 THEN Pair(arr, pre, lo, z)
  ELSE distribute_payload_offset(
         distribute_payload_offset(
           Exchanged(arr, half, Crossing(pre, lo, n, z)),
           pre, lo, half, zleft(n, z)),
         pre, lo + half, half, zright(pre, lo, n, z))

(* Any length: the last n1 elements, a power of two, are compacted so that     *)
(* they continue the first n2 ones, cyclically.                                *)
RightOffset(n1, n2, m) == (n1 - n2 + m) % n1

RECURSIVE compact_slice(_, _, _)
compact_slice(arr, pre, n) ==
  LET n1 == get_smaller_or_equal_power_of_two(n)
      n2 == n - n1
      m  == pre[n2] - pre[0] IN
  CASE n <= 1 -> arr
    [] n > 1 /\ n2 = 0 -> compact_payload_offset(arr, pre, 0, n, 0)
    [] OTHER -> Exchanged(
                  compact_payload_offset(compact_slice(arr, pre, n2),
                                         pre, n2, n1, RightOffset(n1, n2, m)),
                  n1, m .. n2 - 1)

RECURSIVE distribute_slice(_, _, _)
distribute_slice(arr, pre, n) ==
  LET n1 == get_smaller_or_equal_power_of_two(n)
      n2 == n - n1
      m  == pre[n2] - pre[0] IN
  CASE n <= 1 -> arr
    [] n > 1 /\ n2 = 0 -> distribute_payload_offset(arr, pre, 0, n, 0)
    [] OTHER -> distribute_payload_offset(
                  distribute_slice(Exchanged(arr, n1, m .. n2 - 1), pre, n2),
                  pre, n2, n1, RightOffset(n1, n2, m))

compact_payload(arr, pre) == compact_slice(arr, pre, Len0(arr))

(* Mutant of distribute_payload: it compacts. *)
distribute_payload_Compacts(arr, pre) == compact_slice(arr, pre, Len0(arr))

distribute_payload(arr, pre) == distribute_slice(arr, pre, Len0(arr))
-------------------------------------------------------------------------------
(* compact_goodrich: csum[i] is how far the kept element at i has to move      *)
(* left; round i moves those by 2^i whose bit i is set, from left to right.    *)
Distance(arr, kept) ==
  [i \in DOMAIN arr |->
     IF i # 0 /\ arr[i] \in kept THEN Cardinality({j \in 0 .. i : arr[j] \notin kept}) ELSE 0]

MovedLeft(st, b, offset) ==
  IF (st.csum[b] \div offset) % 2 = 0 THEN st
  ELSE [arr  |-> Exchanged(st.arr, offset, {b - offset}),
        csum |-> [st.csum EXCEPT ![b - offset] = st.csum[b] - offset, ![b] = 0]]

(* The pairs (b, offset) in the order of the two loops. *)
RECURSIVE Sweeps(_, _)
Sweeps(n, offset) ==
  IF offset >= next_power_of_two(n) THEN << >>
  ELSE [k \in 1 .. n - offset |-> <<k - 1 + offset, offset>>] \o Sweeps(n, 2 * offset)

compact_goodrich(arr, kept) ==
  IF Len0(arr) = 0 THEN arr
  ELSE FoldLeft(LAMBDA st, bo : MovedLeft(st, bo[1], bo[2]),
                [arr |-> arr, csum |-> Distance(arr, kept)],
                Sweeps(Len0(arr), 1)).arr
-------------------------------------------------------------------------------
reverse_region(arr, start, end) ==
  [i \in DOMAIN arr |-> IF i \in start .. end - 1 THEN arr[start + end - 1 - i] ELSE arr[i]]

(* Mutant of RotatedBy: the whole is reversed first.                           *)
RotatedBy_WholeFirst(arr, s) ==
  reverse_region(reverse_region(reverse_region(arr, 0, Len0(arr)), 0, s), s, Len0(arr))

(* One rotation by s for each bit s < n of k: both parts, then the whole.      *)
RotatedBy(arr, s) ==
  reverse_region(reverse_region(reverse_region(arr, 0, s), s, Len0(arr)), 0, Len0(arr))

RECURSIVE RotatedFrom(_, _, _)
RotatedFrom(arr, k, s) ==
  IF s >= Len0(arr) THEN arr
  ELSE RotatedFrom(IF (k \div s) % 2 = 1 THEN RotatedBy(arr, s) ELSE arr, k, 2 * s)

rotate_left(arr, k) == RotatedFrom(arr, k, 1)
================================================================================
