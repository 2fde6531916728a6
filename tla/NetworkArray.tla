----------------------------- MODULE NetworkArray -----------------------------
(* One array and the calls of crates/sort on it.  Its elements have a key, 0   *)
(* or 1, and remember the index they came from.  To the sorting networks the   *)
(* key is the key: a network that sorts every input of zeros and ones sorts    *)
(* every input.  To compaction it is the mark: the elements of key 1 are kept, *)
(* the others are dummies.  oblivious_memcpy of the linear ORAM, which ends in  *)
(* a rotation, copies a range of it to another array.                          *)
EXTENDS SortingNetworks

CONSTANTS MaxLen,
          MaxShuffle    \* longest array that is also shuffled, with every choice of tags

ASSUME NetworkArrayAssumption == MaxLen \in Nat /\ MaxLen < 64 /\ MaxShuffle \in Nat

VARIABLES input,        \* the array before the first call
          arr,
          payload,      \* prefix sums handed from one call to its inverse, or a copied range
          ret,          \* what the last call returned, or the rotation or offset asked for
          did           \* the calls so far

vars == <<input, arr, payload, ret, did>>

n == Len0(input)
kept == {input[i] : i \in {j \in 0 .. n - 1 : input[j].key = 1}}

Init == \E len \in 0 .. MaxLen : \E keys \in [0 .. len - 1 -> {0, 1}] :
          /\ input = [i \in 0 .. len - 1 |-> [key |-> keys[i], from |-> i]]
          /\ arr = input
          /\ payload = << >> /\ ret = 0 /\ did = << >>
-------------------------------------------------------------------------------
(* Mutant of Marked: the payload is computed anew from the array as it is now. *)
Marked_Anew == compute_prefix_sum(arr, kept)

(* The caller computes the payload before its first call. *)
Marked == IF payload = << >> THEN compute_prefix_sum(arr, kept) ELSE payload

Compact ==
  /\ did = << >>
  /\ \E pre \in {Marked} : /\ arr' = compact_payload(arr, pre)
                           /\ payload' = pre
                           /\ ret' = pre[n]
  /\ did' = <<"compact">>
  /\ UNCHANGED input

CompactGoodrich ==
  /\ did = << >>
  /\ arr' = compact_goodrich(arr, kept)
  /\ ret' = Cardinality(kept)
  /\ did' = <<"goodrich">>
  /\ UNCHANGED <<input, payload>>

(* The first distribution of a fresh array, or the inverse of a compaction.    *)
Distribute ==
  /\ did \in {<< >>, <<"compact">>}
  /\ \E pre \in {Marked} : arr' = distribute_payload(arr, pre) /\ payload' = pre
  /\ did' = Append(did, "distribute")
  /\ UNCHANGED <<input, ret>>

(* Answers are compacted by the payload that distributed the questions.        *)
CompactBack ==
  /\ did = <<"distribute">>
  /\ arr' = compact_payload(arr, payload)
  /\ did' = Append(did, "compact")
  /\ UNCHANGED <<input, payload, ret>>

Rotate(k) ==
  /\ n > 1 /\ did = << >>
  /\ arr' = rotate_left(arr, k)
  /\ ret' = k
  /\ did' = <<"rotate">>
  /\ UNCHANGED <<input, payload>>

Sorting(name, network) ==
  /\ did = << >>
  /\ arr' = Applied(arr, network)
  /\ did' = <<name>>
  /\ UNCHANGED <<input, payload, ret>>

BitonicSort == Sorting("bitonic", bitonic_sort(n))
BatcherSort == Sorting("batcher", batcher_sort(n))
BatcherSortUntrusted == Sorting("untrusted", batcher_sort_untrusted(n))
BoseNelsonSort == Sorting("bose_nelson", bose_nelson_sort(n))

(* shuffle tags every element with a random key, sorts by it, drops the tags.  *)
Shuffle ==
  /\ did = << >> /\ n <= MaxShuffle
  /\ \E tag \in [0 .. n - 1 -> {0, 1}] :
       \E sorted \in {Applied([i \in 0 .. n - 1 |-> [key |-> tag[i], from |-> i]],
                              bitonic_sort(n))} :
         arr' = [i \in 0 .. n - 1 |-> input[sorted[i].from]]
  /\ did' = <<"shuffle">>
  /\ UNCHANGED <<input, payload, ret>>

(* Before the copy the destination holds elements of its own.                  *)
OldElement(j) == [key |-> 0, from |-> -1 - j]
OldDst(len) == [j \in 0 .. len - 1 |-> OldElement(j)]

(* Mutant of ShiftAmount: an offset behind the source is shifted by, too. *)
ShiftAmount_Always(len, src_offset) == src_offset % len

ShiftAmount(len, src_offset) == IF src_offset >= n THEN 0 ELSE src_offset % len

(* The range lands at its indices modulo the length, and is rotated to index 0. *)
oblivious_memcpy(dst, src_offset) ==
  LET len == Len0(dst)
      from(j) == {i \in src_offset .. Min({src_offset + len, n}) - 1 : i % len = j}
      landed == [j \in 0 .. len - 1 |->
                   IF from(j) = {} THEN dst[j] ELSE input[CHOOSE i \in from(j) : TRUE]]
  IN rotate_left(landed, ShiftAmount(len, src_offset))

(* The keys of the source play no part; one source of each length is enough.   *)
Memcpy(len, src_offset) ==
  /\ did = << >> /\ kept = {}
  /\ payload' = oblivious_memcpy(OldDst(len), src_offset)
  /\ ret' = src_offset
  /\ did' = <<"memcpy">>
  /\ UNCHANGED <<input, arr>>

Next == \/ Compact \/ CompactGoodrich \/ Distribute \/ CompactBack
        \/ \E k \in 0 .. n : Rotate(k)
        \/ BitonicSort \/ BatcherSort \/ BatcherSortUntrusted \/ BoseNelsonSort
        \/ Shuffle
        \/ \E len \in 1 .. n + 1, src_offset \in 0 .. n + 1 : Memcpy(len, src_offset)

Spec == Init /\ [][Next]_vars
-------------------------------------------------------------------------------
(* Nothing is lost or copied, and every element keeps its payload: what        *)
(* get_batch needs to take its answers back to the callers' order.             *)
KeepsElements == {arr[i] : i \in 0 .. n - 1} = {input[i] : i \in 0 .. n - 1}

(* compact and compact_goodrich are stable: the first `ret` elements are the   *)
(* kept ones in their old order, for every length and every pattern of marks.  *)
StableCompaction ==
  did \in {<<"compact">>, <<"goodrich">>} =>
    /\ {arr[i] : i \in 0 .. ret - 1} = kept
    /\ \A i, j \in 0 .. ret - 1 : i < j => arr[i].from < arr[j].from

(* Distribution spreads the first elements, in order, over the marked          *)
(* positions (of a fresh array, kept says which positions are marked).         *)
DistributionFollowsMarks ==
  did = <<"distribute">> => \A e \in kept : arr[e.from].from = payload[e.from]

(* Distribution and compaction by one payload undo each other in either order, *)
(* dummies included: what test_distribute_after_compact_rands samples, and     *)
(* what ShardedMap's get_batch relies on to bring answers back.                *)
Inverses == Len(did) = 2 => arr = input

(* rotate_left by k moves the element of index i to (i + n - k) % n.           *)
RotatesLeft ==
  did = <<"rotate">> => \A i \in 0 .. n - 1 : arr[(i + n - ret) % n] = input[i]

(* The destination gets the source's elements from the offset on; behind its   *)
(* end it has old ones, all of them where they were if there is none to copy.  *)
CopiesRange ==
  did = <<"memcpy">> =>
    \A j \in DOMAIN payload :
      CASE ret + j < n -> payload[j] = input[ret + j]
        [] ret >= n    -> payload[j] = OldElement(j)
        [] OTHER       -> payload[j].from < 0

(* Every network sorts arrays of every length, powers of two or not: also the  *)
(* one of the deprecated _batcher_sort_untrusted_but_faster ("I'm not sure if  *)
(* this paper is correct").                                                    *)
Sorts ==
  did \in {<<"bitonic">>, <<"batcher">>, <<"untrusted">>, <<"bose_nelson">>} =>
    \A i \in 1 .. n - 1 : arr[i - 1].key <= arr[i].key
================================================================================
