---------------------------- MODULE SortingNetworks ----------------------------
(* The sorting networks of crates/sort as data: a network is a sequence of     *)
(* stages, a stage a set of disjoint comparators <<l, l + d>> that all put the *)
(* smaller key on the same side.                                               *)
EXTENDS Compaction, Integers

Stage(d, up, Left) == <<[d |-> d, up |-> up, Left |-> Left]>>

(* Elements are records with a key; whatever else they carry (the payload of   *)
(* bitonic_payload_sort, the value of a Wrapper) moves along.  Ascending       *)
(* comparators swap when !(left <= right), descending ones when left <= right, *)
(* equal keys included.                                                        *)
Swapped(arr, s) ==
  {l \in s.Left : IF s.up THEN arr[l].key > arr[l + s.d].key
                          ELSE arr[l].key <= arr[l + s.d].key}

(* Mutant of CompareExchange: the payload array is not swapped along. *)
CompareExchange_PayloadStays(arr, s) ==
  LET moved == Exchanged(arr, s.d, Swapped(arr, s)) IN
  [i \in DOMAIN arr |-> [moved[i] EXCEPT !.from = arr[i].from]]

CompareExchange(arr, s) == Exchanged(arr, s.d, Swapped(arr, s))

(* The stages one after the other; the singletons make TLC evaluate each.      *)
RECURSIVE Applied(_, _)
Applied(arr, network) ==
  IF network = << >> THEN arr
  ELSE CHOOSE r \in {Applied(a, Tail(network)) : a \in {CompareExchange(arr, Head(network))}} : TRUE
-------------------------------------------------------------------------------
(* bitonic.rs *)
RECURSIVE PowerStages(_, _, _, _)
PowerStages(start, size, s2, up) ==
  IF s2 = 0 THEN << >>
  ELSE Stage(s2, up, {l \in start .. start + size - 1 : ((l - start) \div s2) % 2 = 0})
         \o PowerStages(start, size, s2 \div 2, up)

bitonic_merge_pow2(start, size, up) == PowerStages(start, size, size \div 2, up)

(* s2 is half of the least power of two that is at least size. *)
MergeSplit(size) == get_strictly_bigger_power_of_two(size - 1) \div 2

RECURSIVE bitonic_merge(_, _, _)
bitonic_merge(start, size, up) ==
  LET s2 == MergeSplit(size) IN
  Stage(s2, up, start .. start + size - s2 - 1)
    \o (IF s2 > 1 THEN bitonic_merge_pow2(start, s2, up) ELSE << >>)
    \o (IF size - s2 > 1 THEN bitonic_merge(start + s2, size - s2, up) ELSE << >>)

(* The halves are sorted in opposite directions and merged. *)
RECURSIVE bitonic_sort_inner(_, _, _)
bitonic_sort_inner(start, size, up) ==
  LET half == size \div 2 IN
  (IF size - half > 1 THEN bitonic_sort_inner(start + half, size - half, up) ELSE << >>)
    \o (IF half > 1 THEN bitonic_sort_inner(start, half, ~up) ELSE << >>)
    \o bitonic_merge(start, size, up)

bitonic_sort(len) == IF len <= 1 THEN << >> ELSE bitonic_sort_inner(0, len, TRUE)
-------------------------------------------------------------------------------
(* batcher.rs: for p = 1, 2, 4, .. < n and k = p, p/2, .., 1 one stage of      *)
(* distance k over the blocks that start at j = k % p and are 2k apart.        *)
Halvings(p) == [e \in 1 .. Cardinality({q \in Powers : q <= p}) |-> p \div 2 ^ (e - 1)]
Doublings(len) == SetToSortSeq({p \in Powers : p < len}, LAMBDA a, b : a < b)

BlockPositions(len, p, k) ==
  {l \in 0 .. len - 1 - k : l >= k % p /\ ((l - (k % p)) \div k) % 2 = 0}

(* Mutant of PaperLeft: comparators across the blocks of 2p stay in. *)
PaperLeft_AcrossBlocks(len, p, k) == BlockPositions(len, p, k)

(* batcher_sort_paper keeps the comparators that stay in one block of 2p. *)
PaperLeft(len, p, k) ==
  {l \in BlockPositions(len, p, k) : l \div (2 * p) = (l + k) \div (2 * p)}

(* The faster one decides once for each j: all bits of j and j + k above those *)
(* of 2p - 1 must agree.                                                       *)
BlockStart(l, p, k) == l - ((l - (k % p)) % k)

UntrustedLeft(len, p, k) ==
  {l \in BlockPositions(len, p, k) :
     BlockStart(l, p, k) \div (2 * p) = (BlockStart(l, p, k) + k) \div (2 * p)}

BatcherStages(len, left) ==
  FlattenSeq([a \in DOMAIN Doublings(len) |->
    LET p == Doublings(len)[a] IN
    FlattenSeq([b \in DOMAIN Halvings(p) |->
      LET k == Halvings(p)[b] IN Stage(k, TRUE, left[p, k])])])

batcher_sort(len) ==
  BatcherStages(len, [p, k \in Powers |-> PaperLeft(len, p, k)])

batcher_sort_untrusted(len) ==
  BatcherStages(len, [p, k \in Powers |-> UntrustedLeft(len, p, k)])
-------------------------------------------------------------------------------
(* bose_nelson.rs *)
CSWAP(a, b) == Stage(b - a, TRUE, {a})

(* How much of the second run the first half of the first one merges with. *)
MergedShare(size1, size2) ==
  IF size1 % 2 = 0 THEN (size2 + 1) \div 2 ELSE size2 \div 2

RECURSIVE bn_merge(_, _, _, _)
bn_merge(start1, size1, start2, size2) ==
  LET s1 == size1 \div 2
      s2 == MergedShare(size1, size2) IN
  CASE size1 = 1 /\ size2 = 1 -> CSWAP(start1, start2)
    [] size1 = 1 /\ size2 = 2 -> CSWAP(start1, start2 + 1) \o CSWAP(start1, start2)
    [] size1 = 2 /\ size2 = 1 -> CSWAP(start1, start2) \o CSWAP(start1 + 1, start2)
    [] OTHER -> bn_merge(start1, s1, start2, s2)
                  \o bn_merge(start1 + s1, size1 - s1, start2 + s2, size2 - s2)
                  \o bn_merge(start1 + s1, size1 - s1, start2, s2)

RECURSIVE bn_sort(_, _)
bn_sort(start, size) ==
  LET s2 == size \div 2 IN
  IF size <= 1 THEN << >>
  ELSE bn_sort(start, s2) \o bn_sort(start + s2, size - s2)
         \o bn_merge(start, s2, start + s2, size - s2)

bose_nelson_sort(len) == bn_sort(0, len)
================================================================================
