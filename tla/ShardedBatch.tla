----------------------------- MODULE ShardedBatch -----------------------------
(* What the batch operations of ShardedMap (sharded_map.rs) compute on their   *)
(* own, before they send and after they have received: which keys go to which  *)
(* worker, and how the answers find their way back.                            *)
EXTENDS SortingNetworks, ShardedTasks

CONSTANTS SUBTASK_SIZE,    \* keys per command (32 in the code)
          DefaultKey

ASSUME BatchAssumption == SUBTASK_SIZE \in Nat \ {0} /\ DefaultKey \in Nat

(* The first len keys sorted; `from` is where each was.                        *)
SortedBy(keys, len) ==
  Applied([i \in 0 .. len - 1 |-> [key |-> keys[i], from |-> i]], bitonic_sort(len))
-------------------------------------------------------------------------------
(* get_batch_distinct, get_batch_leaky and insert_batch_distinct: every        *)
(* partition gets a copy of the whole batch in which the foreign elements are  *)
(* marked, and the first b elements after compaction.                          *)
(* Mutant of PartitionView: the index of a foreign element is not erased.      *)
PartitionView_AllValid(keys, values, part, p) ==
  [i \in DOMAIN keys |-> [index |-> i, k |-> keys[i], v |-> values[i]]]

(* insert_batch_distinct fills in v for foreign elements, too. *)
PartitionView(keys, values, part, p) ==
  [i \in DOMAIN keys |->
     [index |-> IF part[keys[i]] = p THEN i ELSE InvalidId, k |-> keys[i], v |-> values[i]]]

Valid(view) == {view[i] : i \in {j \in DOMAIN view : view[j].index # InvalidId}}

CompactedView(keys, values, part, p) ==
  LET view == PartitionView(keys, values, part, p) IN
  compact_payload(view, compute_prefix_sum(view, Valid(view)))

FirstBlocks(view, b) == [i \in 1 .. b |-> view[i - 1]]

DistinctTasks(kind, keys, values, part, b) ==
  [j \in 1 .. P |->
     [worker |-> j - 1,
      cmd |-> [kind |-> kind, offset |-> 0,
               blocks |-> FirstBlocks(CompactedView(keys, values, part, j - 1), b)]]]

(* The answers of all partitions are sorted by index: which slot comes where.  *)
InOrder(index) ==
  LET order == SortedBy(index, Len0(index)) IN [i \in DOMAIN index |-> order[i].from]
-------------------------------------------------------------------------------
(* get_batch and insert_batch: the batch is sorted by partition and key, the   *)
(* first of each run of equal keys is kept (prefix_sum_1), and the kept ones   *)
(* of partition j are spread over slots j * b, j * b + 1, .. (prefix_sum_2).   *)
Entry(p, k, v) == [partition |-> p, key |-> k, value |-> v]

Entries(keys, values, part) ==
  [i \in DOMAIN keys |-> Entry(part[keys[i]], keys[i], values[i])]

(* cmp_ct orders by partition, then by key. *)
SortKey(e) == e.partition * 1000 + e.key

NewKey(sorted, i) == i = 0 \/ sorted[i].key # sorted[i - 1].key

prefix_sum_1(sorted) ==
  [i \in 0 .. Len0(sorted) |-> Cardinality({j \in 0 .. i - 1 : NewKey(sorted, j)})]

par_load(sorted) ==
  [p \in 0 .. P - 1 |->
     Cardinality({i \in DOMAIN sorted : NewKey(sorted, i) /\ sorted[i].partition = p})]

LoadBefore(load, p) == FoldLeft(LAMBDA a, q : a + load[q - 1], 0, [q \in 1 .. p |-> q])

LesserOf(a, b) == IF a < b THEN a ELSE b

prefix_sum_2(load, b) ==
  [s \in 0 .. b * P |->
     IF s = 0 THEN 0
     ELSE LoadBefore(load, (s - 1) \div b)
            + LesserOf(((s - 1) % b) + 1, load[(s - 1) \div b])]

(* insert_batch gives repeated keys the invalid partition P; get_batch does    *)
(* not need to.                                                                *)
Marked(sorted) ==
  [i \in DOMAIN sorted |->
     IF NewKey(sorted, i) THEN sorted[i] ELSE [sorted[i] EXCEPT !.partition = P]]

Padded(arr, len) ==
  [i \in 0 .. len - 1 |-> IF i \in DOMAIN arr THEN arr[i] ELSE Entry(P, DefaultKey, DefaultValue)]

Spread(sorted, pre1, pre2, b) ==
  distribute_payload(compact_slice(Padded(sorted, b * P), pre1, Len0(sorted)), pre2)

(* Sub-tasks of at most SUBTASK_SIZE slots, partition by partition. *)
Subtasks(kind, slots, b) ==
  FlattenSeq([j \in 1 .. P |->
    [k \in 1 .. div_ceil(b, SUBTASK_SIZE) |->
       LET offset == (k - 1) * SUBTASK_SIZE
           low    == (j - 1) * b + offset
           high   == LesserOf(low + SUBTASK_SIZE, j * b) IN
       [worker |-> j - 1,
        cmd |-> [kind |-> kind, offset |-> offset,
                 blocks |-> [s \in 1 .. high - low |-> slots[low + s - 1]]]]]])

(* Everything the two operations remember until the replies are in; total is  *)
(* par_load_ps[P].                                                             *)
BatchPlan(kind, keys, values, part, b) ==
  LET entries == Entries(keys, values, part)
      order   == SortedBy([i \in DOMAIN entries |-> SortKey(entries[i])], Len0(keys))
      sorted  == [i \in DOMAIN keys |-> entries[order[i].from]]
      pre1    == prefix_sum_1(sorted)
      load    == par_load(sorted)
      pre2    == prefix_sum_2(load, b)
      marked  == IF kind = "Insertv2" THEN Marked(sorted) ELSE sorted IN
  [pre1  |-> pre1, pre2 |-> pre2, load |-> load, total |-> LoadBefore(load, P),
   index |-> [i \in DOMAIN keys |-> order[i].from],
   tasks |-> Subtasks(kind, Spread(marked, pre1, pre2, b), b)]

(* A repeated key takes over the answer of its predecessor; the test compares  *)
(* the counts before position i and before position i - 1.                     *)
Repeats(pre1, i) == i > 0 /\ pre1[i] = pre1[i - 1]

Propagated(res, pre1) ==
  LET f[i \in DOMAIN res] == IF Repeats(pre1, i) THEN f[i - 1] ELSE res[i] IN f

(* get_batch brings the answers of the slots back to the order of the keys.    *)
BackInOrder(res, plan, len) ==
  LET packed   == compact_payload(res, plan.pre2)
      gathered == distribute_payload([i \in 0 .. len - 1 |-> packed[i]], plan.pre1)
      answers  == Propagated(gathered, plan.pre1)
      order    == SortedBy(plan.index, len) IN
  [i \in 0 .. len - 1 |-> answers[order[i].from]]

(* Nothing there depends on the answers, only on the plan: it tells for every  *)
(* position of the batch the slot that its answer is taken from.               *)
Sources(plan, b, len) == BackInOrder([s \in Slots(b) |-> s], plan, len)
================================================================================
