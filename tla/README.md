# A TLA+ verification of rostl

rostl is a Rust library of oblivious data structures: their memory access
patterns do not depend on the data. This directory models what those
structures *compute*. Obliviousness itself (which addresses are touched, in
constant time) is not a property of the models; wherever the code writes
`x.cmov(&y, c)` the model has a conditional assignment.

Paths below are relative to `src/crates/`.

## 1. The system

| component | source | state | operations |
|---|---|---|---|
| Bucket tree | `oram/src/heap_tree.rs` | a vector of 2^h - 1 nodes | `get_index`, path and sibling access |
| Circuit ORAM | `oram/src/circuit_oram.rs` | stash (S slots, then room for one path), tree of buckets of Z blocks, eviction counter | `read`, `write`, `write_or_insert`, `update`; inside: path read and write-back, `evict_once_fast`, deterministic evictions |
| Linear ORAM | `oram/src/linear_oram.rs` | an array | scanning `read`, `write` |
| Recursive position map | `oram/src/recursive_oram.rs` | a linear ORAM and a chain of Circuit ORAMs | `access_position` (returns the old position and stores the new one) |
| Arrays, vector | `datastructures/src/array.rs`, `vector.rs` | an ORAM and its position map(s) | `read`, `write`, `update`, `resize`, `push_back`, `pop_back` |
| Queue | `datastructures/src/queue.rs` | slots with timestamps, lowest and highest timestamp, size | `maybe_push`, `maybe_pop` |
| Unsorted map | `datastructures/src/map.rs` | two cuckoo tables, an insertion queue, size | `insert`, `insert_cond`, `deamortize_insertion_queue`, `get`, `write` |
| Stack | `datastructures/src/stack.rs` | a Circuit ORAM, the position of the top, size | `maybe_push`, `maybe_pop` |
| Heap | `datastructures/src/heap.rs` | a Circuit ORAM, a tree of minima, a timestamp | `insert`, `delete`, `find_min`, `extract_min` |
| Sharded map | `datastructures/src/sharded_map.rs` | 15 worker threads with an unsorted map each, command and reply channels, size | batched `get` and `insert`, start-up barrier, shutdown on drop |
| Compaction | `sort/src/compaction.rs`, `rotate.rs` | none (pure) | `compact`, `compact_payload`, `distribute_payload`, rotations |
| Sorting | `sort/src/bitonic.rs`, `batcher.rs`, `bose_nelson.rs`, `shuffle.rs` | none (pure) | sorting networks, shuffle |
| Primitives | `primitives/src/` | none | `cmov`, `cxchg`, options, powers of two |
| Page storage | `storage/src/` | a vector behind a lock | page read and write |

**How they interact.** Everything except the sharded map is a value behind
`&mut self`: one call at a time, so a call is one step. A position-based ORAM
relies on its caller: the caller must pass the position under which the block
was last stored, and remember the new one. The recursive position map plays
that role for the arrays; the stack keeps the positions in its own elements;
the heap returns them to its user. The unsorted map keeps its tables in an
oblivious array and its overflow in the queue. The vector is a dynamic array
with a length; the arrays ask the position map and pass what it says to the ORAM. The sharded map is the one
concurrent part: commands go to the workers over unbounded channels, replies
come back over one shared channel.

**What is hard.** The eviction (three passes whose plan must be carried out
exactly, one block held in hand); a stash of fixed size whose overflow loses a
block without an error; position maps that must agree with the blocks over any
sequence of calls; timestamps against slot order in the queue; chains of kicks
that stop half-way in the map; numbers used again in the stack; positions that
are chained through the levels of a recursive map; minima that only the evicted
paths refresh; resizing; and, in the
sharded map, out-of-order replies, duplicate keys and a worker that dies. The
full list, each at its line, is under `hazards` in `PROJECT.json`.

**What makes each part correct.** The ORAM: it is a map from keys to values,
each key in one block, each block on the path its client remembers; while the
stash has a free slot nothing is ever lost. The queue: first in, first out. The
map: inserted keys stay, in one place, with their last value, and lookups find
them. The stack: last in, first out. The arrays: index to last value written.
The heap: `find_min` is the least priority present. The sharded map: a batch
answers each key as the single map would, and every batch call returns. The
networks: the output is sorted and a permutation.

## 2. Modules

```
HeapTree ── Eviction ── OramSlots ── CircuitORAM ── MCCircuitORAM
   │           │            └── Heap ── MCHeap              │
   │           └── EvictPath ── MCEvictPath                 │
   └────── PathOram ────────────────────────────────────────┘
Maps ── OramMap (abstract)          CircuitORAM => PathOram => OramMap
Maps ── PriorityQueue (abstract)    Heap => PriorityQueue
CircuitORAM ── Stack (by INSTANCE) ── MCContainers (by INSTANCE)
PositionTable ── PositionMap (abstract)
         ├── RecursivePositionMap ── MCArrays   RecursivePositionMap => PositionMap
         └── Arrays ── MCArrays                 Arrays => PlainArray (abstract)
QueueOps ── ShortQueue ── MCContainers          ShortQueue => FifoQueue (abstract)
QueueOps ── UnsortedMap ── MCUnsortedMap        UnsortedMap => KeyedMap (abstract)
Compaction ── SortingNetworks ── NetworkArray
                    └── ShardedBatch ── MCShardedMap
ShardedTasks ──┬── ShardedBatch               │
               └── ShardedMap ────────────────┘  ShardedMap => BatchMap (abstract)
```

The proofs are in modules of their own:

```
OramSlots ── EvictionProofs (lemmas) ──┬── CircuitORAMProofs   (with EvictPath, CircuitORAM)
                                       └── HeapProofs          (with Heap)
PathOram ── PathOramProofs ── CircuitORAMProofs (by INSTANCE)
ShortQueue ── ShortQueueProofs ── UnsortedMapProofs (by INSTANCE, with UnsortedMap)
Arrays ── ArraysProofs                                 (with RecursivePositionMap)
ShardedMap ── ShardedProofs
```


* **HeapTree**: node indices. The node of depth d on the path of p is selected
  by the d *low-order* bits of p; the tests on paths come out of `p % 2^d`.
* **Eviction**: `read_path`, `write_path` and `evict_once_fast` as operators on
  the array the code works on (the stash with the path behind it). One operator
  per quantity of the three passes: `Goals`, `LevelGoals`, `DeepestIdx`,
  `Deepest` and `HasEmpty` (first pass), `Target` by a recursive function from
  the leaf up (second), `Moved` with the held block (third).
* **EvictPath**: that eviction alone, started from *every* content that
  satisfies "a tree block is on its own path", and repeated. One path is
  enough: exclusive-or with a position maps every path to it, and the code
  compares positions bit by bit.
* **OramSlots**: what the operations are made of, for the ORAM and for the heap,
  which uses the same functions of `circuit_oram.rs`: the removing scan,
  `write_block_to_empty_slot`, and a path's way from the tree through an
  eviction and back.
* **CircuitORAM**: stash, tree, counter, and the client's position map. Each
  public operation is one action and runs its whole body: scan and removal,
  insertion into the first free stash slot, eviction of the path, write-back,
  two deterministic evictions. `read` and `write_or_insert` with
  `new_pos = DUMMY_POS` are the actions `Take` and `Delete`.
* **PathOram**: the same operations over a *set* of blocks with a place each.
  The evictions of one call are abstracted to "every block stays or sinks on
  its own path, never into the root bucket, buckets hold at most Z".
* **OramMap**: what a caller is promised. With `Lossy` an operation may drop
  the block it moves, which is what a stash overflow does.
* **MCCircuitORAM** instantiates `CircuitORAM` twice, with an ample and with a
  tight stash; a behaviour is one of either. It extends `PathOram`, with
  `blocks` as what the slots hold, so that `PathOram`'s properties are those
  checked of the slots.
* **Heap**, **PriorityQueue**: elements in a stash and tree of their own, on the
  operators of `OramSlots` (the code uses the ORAM's scans, path access and
  eviction, not its operations), and `metadata`, the tree of minima. `update_min` computes all new minima of a path
  from the leaf up; an operation is the sequence of evictions and refreshes that
  the code makes. `handles` remembers what `insert` returned.
* **RecursivePositionMap**, **PositionMap**: the linear level and `h` levels of
  blocks. `access_position` is one step: `KeyAt` takes the key apart, `Trail`
  follows the old positions, and every level's node moves to a new position and
  points to the next one's. The abstract map is a table of positions.
* **PositionTable**: what both share, and the arrays use: the arithmetic of `new`
  (how many entries there are, which is not always `n`) and one table with
  `Looked` and `Stored`.
* **Arrays**, **PlainArray**: one module for all kinds, since they differ in few
  places; `kind` is drawn at the start. A read, write or update first stores the
  new position in the table and then scans the ORAM at the old one; `Meets` says
  what the scan may find when a block is not where it is looked for. `resize`
  writes all old indices to the new array, one after another.
* **QueueOps**, **ShortQueue**, **FifoQueue**: the queue as a record and its
  operations (used by the map too), the component, and the abstract queue.
* **UnsortedMap**, **KeyedMap**: `try_insert_entry` returns the set of its
  outcomes, one per random victim. A bucket is the set of its valid elements.
  `KeyedMap` with `Hidden` lets lookups miss.
* **Stack**: on the detailed Circuit ORAM, by `INSTANCE`, so that what really
  happens to two blocks of one number is explored.
* **MCContainers** extends `ShortQueue` and instantiates `Stack`; a behaviour is
  one of either.
* **Compaction**: `compact`, `compact_payload`, `distribute_payload`,
  `compact_goodrich` and `rotate_left` as functions on arrays, with the
  recursions and offsets of the code.
* **SortingNetworks**: a network is data, a sequence of stages of disjoint
  comparators; `CompareExchange` applies a stage to an array of keys with
  payloads.
* **NetworkArray**: the calls of both on one array. A key is 0 or 1, which is
  the mark for a compaction and enough to test a network; an element also
  remembers where it came from. `oblivious_memcpy` of the linear ORAM is here,
  too, because it ends in a rotation.
* **ShardedBatch**: the computations of the batch operations on the caller's
  side (sorting by partition and key, prefix sums, loads, spreading over slots,
  sub-tasks, and the way back), on the networks of the two modules above.
* **ShardedTasks**: what those computations owe the protocol. A task is a command
  with its worker; `IndexedTasks`, `InsertionTasks` and `Routes` say that no two
  blocks have one slot in the results, that every key of the batch is in a
  command to its own worker, that all copies of a key carry one value from the
  batch, and where each position finds its answer.
* **ShardedMap**: the caller, P workers and the channels. A batch operation is
  several steps: the call up to its first `send` (`GetBatch`, `InsertBatch`,
  ...), one `Send` per command, one `Receive` per reply, `Return`. A worker
  takes one command per step (`Serve`, `WorkerPanics`, `Stop`). The start-up
  barrier and `drop` with its joins are steps, too. The computations are constant
  operators of the module (`TasksFor`, `Ordering`, `PlanFor`, `SourcesIn`)
  with a contract each (`DistinctContract`, `OrderContract`, `PlanContract`).
  The configurations bind them to those of `ShardedBatch`, so that the runs
  execute the code's networks, and TLC evaluates the contracts on them for all
  batches, hash functions and batch sizes of the run. The proofs use the
  contracts alone.
* **BatchMap**: one map that takes and answers whole batches atomically; a call
  of `ShardedMap` takes effect when it returns.

Operators whose name ends in a suffix such as `Target_NoLeaf` are mutants: the
same definition with a plausible bug, used to show that a property notices it.

**Abstractions.** An emptied block keeps a stale key and value in the code; all
readers test `is_empty` first, so the models have one empty block. The tail of
the stash after a call is a stale copy of a path that the next call overwrites,
so it is not state. Buckets of the map are sets, since no operation depends on
the order in a bucket. `usize::MAX`, the limit of the queue's timestamps, is
the constant `MaxTimestamp`. The hash functions of the map are drawn once from
a set. Random positions and victims are free choices, so whatever is shown
holds for every outcome of the generator. A worker of the sharded map has the
map that `KeyedMap` promises, without hidden elements, so what goes wrong in
its runs is not the scan of the queue again; the slots it panics for are a free
choice (`WorkersPanic`). A worker that panics has applied any part of its
command. The levels of the position map, and the ORAM of the arrays, are sets of
blocks found where they were last stored: what `PathOram` promises while `Inv1`
holds. The tables of the unsorted map are plain arrays. The code keeps both in one
multiway array that it makes for `table_size` elements (`map.rs:158`) and fills
with up to `2 * table_size` buckets, while the array's documentation speaks of
"a fixed number of total elements" (`array.rs:325`). Its ORAM may then hold twice
as many blocks as it has leaves, and whether its stash takes them up is a question of
probabilities. `Arrays` calls such an array `harmed`: that the tables of the map are plain is
assumed, and not shown by `ImplementsArray`. The arrays assume `Inv1` for at most as many blocks as leaves; beyond
that `StoredIn` may lose a block. Whether a misplaced block is met by a scan is
left open. An element of the heap is its priority; the payload travels with it.
`update` is modelled with the closure
that swaps a value in and returns what it saw, which determines any other.

**Caller obligations** are guards: the position passed is the recorded one for
a key of the position map (any position otherwise), no key is inserted twice,
no real pop of an empty queue or stack, no push beyond the capacity, no insert
with a full insertion queue (the code panics), no array index at or beyond the
length, no new length below 2, no deletion from the heap by a handle
that `insert` did not return. The batch operations get new
keys to insert, and distinct ones where their documentation asks for it; the
batch size is any number, and a call whose assertions refuse it panics, after
which the map can only be dropped. `UnsortedMap!Write` of a key the
code misses is a step that changes nothing and answers "not found": the code
panics on its assertion there.

**Debug assertions.** The runs of the stack, the heap and the arrays are about
the release build. In a debug build the second block of one number is noticed by
an assertion of the removal scan, if a scan happens to meet both; extracting
from an empty heap fails the assertion on the position of a path; and `resize`
to fewer elements may fail the one on the index of the linear ORAM.

## 3. Runs

| run | what it explores | what it shows |
|---|---|---|
| `eviction` | height 4, Z = 2 as in the code, one stash slot, all contents | no block lost, duplicated or moved off its path; one block per level changes; the deepest level that can receive a block does; if some block of the stash or the root bucket could go to a level below that has room, one block leaves them (none ever enters the root) |
| `circuit` | 3 keys, 4 leaves; a stash of 2 slots and one of 1 | in both: no duplicates, every block on the client's path, at worst the block of the current call is dropped, and the detailed ORAM implements `PathOram`, root bucket empty; with 2 slots `Inv1` holds after every call, so that the ORAM is exactly a map (theorem `CircuitOramIsMapUnderInv1`); with 1 the stash does overflow |
| `containers` | a queue of 3 slots and 8 timestamps; a stack of 2 elements over 2 leaves | queue: documented invariants, no gaps in the stamps, FIFO; stack: in the test's call pattern the list stays intact and pops come in reverse order |
| `unsorted_map` | 5 keys, buckets of 1, 2 buckets per table, queue of 3, two hash functions | nothing lost or copied by kicks; lookups only miss hidden queued keys |
| `networks` | every array of zeros and ones up to length 11, every rotation, every range to copy | both compactions are stable, distribution follows the marks, each undoes the other, rotations rotate; the four networks, the "untrusted" one included, sort and keep payloads; `oblivious_memcpy` copies the range asked for and leaves the rest old |
| `sharded_map` | 2 workers that may die, 2 hash functions, any 2 calls with up to 3 keys, any batch size, sub-tasks of one key | one map whatever the interleaving, insertions of repeated keys left out; one reply per command and none left over; `size` counts; keys in foreign shards are copies; liveness: calls end while all workers live, `drop` ends every thread |
| `heap` | 4 leaves, buckets of 2, 1 stash slot, 3 insertions of 3 priorities (the last is `K::MAX`), deletions by any handle, also twice | every node of `metadata` is a current copy of a least element below it; every element is on the path of its handle, once; the heap is a priority queue that drops an element only on inserting into a full stash, while it is empty or has an element below `K::MAX` |
| `arrays` | the position map with 8 keys, two recursive levels and accesses beyond them; arrays of 2 and 3 (short, long), up to 4 (dynamic, vector), 2 × 2 (multiway) | no access misses a node and each returns the position last stored for its key; every kind of array is a plain one, over resizing and growth, until a resize that shrinks too far or until a multiway array has more elements than its size |

Four more runs, `map_get`, `stack_lifo`, `sharded_get_repeats` and `heap_max`, must
be found violated (section 4).

**Bounds.** Every branch of the eviction needs at most a stash, two inner
levels and a leaf, with one block to carry and one to swap: height 4 gives it,
and Z = 2 several empty slots to choose from. The ORAM run has Z = 1, so that
three keys already crowd a tree of seven buckets. The overflow of a stash needs
one more key than stash slots (`TightS`). The heap has the code's Z = 2, which
`update_min` relies on; three elements (`MaxInserts`) can be in the stash, on a
path and beside it, and a third insertion meets a full stash. A height of 3
gives a sibling at every inner depth.

Two new positions per draw (`RandomBound`) tell a node that moved from one that
did not; `new` draws position 0 for everything (`InitialBound`), and a few
accesses reach all combinations. With a linear level of 2 and a fan-out of 2,
eight keys need two recursive levels, and key 8 is one beyond them. Arrays of 2
to 4 elements have position maps without and with a recursive level, with a
size that is no power of two (3), a harmless shrinking (4 to 3), and harmful ones
(4 to 2, 3 to 2). Growth from 2 to 4 is the vector's only step of its kind, the
next ones differ in size only. `MaxSize`, `FixedSizes`, `MultiWaySizes` and
`Keys` are bounds, too.

A gap in the queue needs three slots; eight
timestamps let it wrap through its slots more than twice. A kick through both
tables back into the queue needs a shared bucket in each. Keys are a symmetry
set in the ORAM run, as no definition tells keys apart. The views leave out
`ret`, `out`, `answer` and `call`, which no guard reads, number the queue's stamps in the
map by rank, and do not tell apart the empty minima of the heap below its root; action properties are still evaluated on every transition.
The bound of the stack is its capacity, and the stamps of the map's queue are
unbounded in effect (`MaxTimestamp` = 1000 is never reached under the view).

Lengths up to 11 take the recursions of compaction and of the bitonic merge
through powers of two (2, 4, 8) and through splits whose remainder is 1, a
power of two, and neither (11 = 8 + 3, 3 = 2 + 1). A comparator network sorts
every input if it sorts those of zeros and ones. Two workers, with one hash
function that divides the keys and one that does not, give a worker without
keys, a full one, and slots with junk; with sub-tasks of one key
(`SUBTASK_SIZE`) a worker has up to three commands in flight. The batches are
all those of one or two keys, all orders of three, and five with repetitions. `MaxCalls` = 2
lets the second call meet what the first left behind, in the maps and in the
channels; `Capacity` = 2 makes `insert_batch_distinct` refuse a third key, which
`insert_batch` does not. Repeated keys are offered where the code handles them
(`RepeatedKeys`): `insert_batch` and `get_batch_leaky`.

**Deadlock** is checked except where behaviours end: an array has had its one
or two calls (`networks`), or the map was dropped, or waits for a worker that
died (`sharded_map`). There `CallsReturn` and `DropEnds` say more.

**Fairness** is only assumed for the sharded map (`FairSpec`). Each thread that
can take a step eventually does: weak fairness of the caller's steps inside a
call or a drop, and of each worker's arriving at the barrier, serving and
stopping. The threads are operating-system threads that are always runnable
unless they wait in `Barrier::wait`, `recv` or `join`, and those wake when
their condition holds; a channel or a barrier keeps that condition until the
waiting thread has seen it, so weak fairness is enough. Nothing is assumed that
makes the caller start another call, drop the map, or that makes a worker
panic. All other components are sequential, and every call is one step.

## 4. Where the code and its documentation part

Each of these is a run that TLC must find violated.

* `map_get`: `get` returns false for a key that is in the map. It scans the
  first `size` slots of the insertion queue (`map.rs:191`), but slots are freed
  in timestamp order. Three queued elements in slots 0, 1, 2 suffice: the first
  leaves, the second is kicked back into slot 0, and slot 2 lies behind the two
  scanned ones. `write` (`map.rs:282`) then fails its assertion.
  `OnlyHiddenKeysMissed` shows that this is the only way a lookup goes wrong.
* `stack_lifo`: `maybe_pop` passes `read_pos` where it computed a `new_pos` that
  would delete the block (`stack.rs:87`). The popped block stays in the ORAM,
  and after another push there are two with one number.
* `sharded_get_repeats`: `get_batch` accepts repeated keys but answers them
  wrongly. It copies the answer of position i - 1 to i where
  `prefix_sum_1[i] == prefix_sum_1[i - 1]` (`sharded_map.rs:593`), one position
  late: the repeat keeps a dummy's answer and its successor loses its own.
  With distinct keys the loop copies nothing, and `sharded_map` passes.
* `heap_max`: `find_min` promises the minimum of every heap that is not empty
  (`heap.rs:67`), but a heap whose elements all have the priority `K::MAX` yields
  an empty block, because minima are compared by a strict `<` from `K::MAX` on
  (`heap.rs:118`, `:122`, `:73`). `extract_min`, "find and delete the minimum
  element", then deletes under timestamp 0 at the last path: the element inserted
  first if it is met there, or nothing. `FindsMinimum` is the promise;
  `ImplementsPriorityQueue` shows that this is the only exception
  (`NoneBelowMax`): the abstract `PriorityQueue` makes none.

More are part of the models but have no run of their own; the properties are
stated so that they hold with them.

* `resize` writes every old index to the new array, also those it has no room
  for (`array.rs:284`). Such an index is cut down to its low-order bits, and may
  take the position of a kept one, whose element is then lost; or there are more
  blocks than leaves, and the stash may overflow. `ImplementsArray` speaks of
  behaviours before that (`harmed`; `Fits` says when shrinking is harmless).
* Nothing keeps a caller from writing more elements to a multiway array than the
  total size it is made for, and the unsorted map does (section 2). Such an array
  is `harmed`, too (`HasRoom`).
* Reading an index of a long, dynamic or multiway array that was never written
  leaves the caller's variable alone, where a short array yields the default
  value. `PlainArray` lets a cell have no value.
* The documentation of `CircuitORAM::new` allows fewer than `2^33` blocks
  (`circuit_oram.rs:216`) and its assertion `u32::MAX` of them. More than `2^31`
  are rounded up to `max_n = 2^32` leaves; `max_n as PositionType` is then 0, and
  the eviction counter's remainder panics (`circuit_oram.rs:415`), as do the draws
  from `0..0` of the heap. The models have at most 32 levels (`EvictionAssumption`).
* `Heap::insert` returns a handle also when the stash was full and the element
  is lost (`heap.rs:149`). `PriorityQueue!Insert` allows just that.
* `oblivious_memcpy` divides by the length of the destination: an empty one
  panics.

* A dummy pop of the stack may move the top, for the reason `stack_lifo` has.
  `ChainIntact` and `LifoUntilReuse` speak of behaviours before that (`moved`).
* `insert_batch` promises that the first occurrence of a repeated key is used
  (`sharded_map.rs:741`), but the bitonic network is not stable and compares
  partition and key only: a batch with the keys 1, 2, 2 can leave the second value
  of 2. `BatchMap!Insert` keeps the promise, and `ImplementsBatchMap` leaves the
  return of such an insertion out (`RepeatedInsertion`). That one of the values
  stays, the same one for every lookup, is proved (`InsertionsKeepOneValue`).
* `insert_batch_distinct` marks foreign keys by their index but sends
  `v.is_some` for all (`sharded_map.rs:701`), and the worker inserts by
  `v.is_some`: up to b keys of other partitions per call fill each shard.
  `ForeignKeysAreCopies` and `ImplementsBatchMap` show that no answer changes.
* A caller that waits for the reply of a worker that panicked waits for ever,
  because other senders keep the channel open; the panic with the text
  "probably early termination?" (`sharded_map.rs:582`) is not reached that way.
  `CallsReturn` leaves out the behaviours with a death, so it does not count
  this as a violation; it shows that this is the only way to hang, and `DropEnds` that
  dropping the map ends every thread even after a death.

## 5. Proofs

All theorems hold for every value of the constants that the named assumptions
allow. These ask for no more than the code: trees of at least two and at most 32
levels (`HeapAssumption`, `EvictionAssumption`: `new` asserts `1 < max_n`, and
with 33 levels the code could not make a step, see section 4), at least one
block per bucket and one stash slot, a `NoKey` and a `NoValue` that are no real ones. `MaxTimestamp`
stands for `usize::MAX`. The heap's (`HeapElementAssumption`) say that priorities
do not exceed `K::MAX`, that buckets hold two blocks, which `update_min` itself
relies on, and that the keys are the timestamps. The number of insertions, the
bound `MaxInserts` of the run, is any number. Of the position map,
`PositionTableAssumption` and `PositionMapAssumption` ask for at least one key
(`debug_assert!(n > 0)`), a fan-out of at least 2 and one bucket; the bounds of the
positions drawn may be any. Of the arrays, `ArraysAssumption` asks for a subarray
and for sizes of at least 1, none above the bound `MaxSize`.

| module | theorems about | states of the runs' properties |
|---|---|---|
| `PathOramProofs` | the path ORAM over sets of blocks | `TypeOK`, `OneBlockPerKey`, `OnClientPath`, `ImplementsLossyMap`; the strict map under `Inv1` |
| `CircuitORAMProofs` | one eviction, repeated | `BlocksPreserved`, `SinksOnOwnPath`, `OneBlockPerLevel`, `DeepestLevelFills`, `StashDrains` |
| | the ORAM on slots | it implements `PathOram`, and so has all of its properties |
| `HeapProofs` | the heap | `MinimaAreRight`, `FoundByHandle`, `ImplementsPriorityQueue` |
| `ShortQueueProofs` | the queue | `TypeOK`, `DocumentedInvariants`, `NoGaps`, `ImplementsFifo` |
| `UnsortedMapProofs` | the cuckoo map | `KeyAtMostOnce`, `InOwnBucket`, `OnlyHiddenKeysMissed`, `ImplementsMapWithMisses` |
| `ArraysProofs` | the recursive position map | `PointersAgree`, `ImplementsPositionMap` |
| | the arrays and the vector | `ImplementsArray` |
| `ShardedProofs` | the sharded map, its workers and channels | `ReplyPerCommand`, `SizeIsCount`, `ForeignKeysAreCopies`, `ImplementsBatchMap`, `AnswersEveryKey` |

**The path ORAM.** The inductive invariant is
`TypeOK /\ OneBlockPerKey /\ OnClientPath` with finiteness of `blocks`. The path
invariant is what makes a scan complete (a block of k, if there is one, is met),
unique keys what makes the removal exact, and both need the other: a block that
a scan missed would become a second one. Each operation has the same shape
(remove the matches, perhaps store one block, relocate), so the lemmas are about
that shape and each action instantiates them. Refinement follows because
relocation does not change `Dict`.

**One eviction** (`EvictionProofs`, `CircuitORAMProofs`). The three passes are
proved one after the other. The second one leaves a plan (`Planned`): every move
goes down to a level that its block can reach and that has room or sends its
own block away, no level between the two moves, and whichever level could take
a block gets one passing or stopping there. This is an induction from the leaf
up, in which at most one move is open (`ScannedTo`). With the first pass it
becomes `GreedyPlan`, which speaks of the array only. The third pass is compared
with `Outcome`, the array in which every planned move is made at once; by
induction from the stash down (`CarriedTo`), what is above is done, what is
below untouched, and the block held is the one whose move is open. `Dest`, where
each occupied slot's block goes, is one-to-one and onto the occupied slots of
`Outcome`, so nothing is lost, copied or altered. That the plan is greedy gives
the theorems on filling and draining. The inductive invariant of `EvictPath` is
`PathInv`: no block twice, each where the path of its position still is the path
at hand.

**The ORAM on slots** (`CircuitORAMProofs`). Stash and tree are seen as one
memory of cells; reading and writing back a path are `Load` and `Store` on it,
an eviction makes it sink (`EvictionSinksBlocks`), and the scan of an operation
empties the cells of its key (`RemovedIs`). The arithmetic behind that is that
two positions have a node of depth d in common exactly if they agree in d
low-order bits (`SameNode`). `Good` says that keys are unique and blocks on
their own paths. The inductive invariant is `SlotInv /\ Path!IInv`: the slots
alone do not say where a client looks, and the abstract blocks do not say
that no two slots hold the same one. `SlotsImplementPathOram` carries the
theorems of `PathOram` over: `CircuitORAM => PathOram => OramMap`.

**The heap** (`HeapProofs`). What has to be shown is that a refreshed path makes
*all* minima right, though those off the path are not looked at. Nodes off a path have no
node of the path below them (`BelowOffPath`), so an eviction does not touch what
they account for; and what is below a node of the path is its bucket, what is
below its child on the path, and what is below the sibling (`BelowChildren`),
whose minimum is right already. `Carries` says what `update_min` has in hand at
each depth: the initial minimum exactly if nothing below is eligible, and else
the least below. `HeapInv` adds to the minima (`AllRight`) that slots are `Good`,
that every element has the position and timestamp of a handle, and that an empty
block in the root has key 0 and no priority below `K::MAX` unless the heap is
empty. The last part is needed: `find_min` compares the stash with the priority
of an empty root, and `extract_min` deletes under its key. `LeastIsMinimum` gives
`FindsMinimum` of every state but those of `NoneBelowMax`.

**The queue** (`ShortQueueProofs`). The documented invariants
are not inductive: a pop sets `lowest_timestamp` to the second lowest stamp, and
that the sequence read off the stamps loses just its head needs to know that the
stamps are consecutive. The strengthening `Sound` says that each of the last
`size` stamps is in exactly one slot and that `lowest_timestamp` is the least of
them.

**The cuckoo map** (`UnsortedMapProofs`). The inductive invariant is that every
element of a table is in the bucket of its own key, no key is in two places of
tables and queue, the queue is `Sound`, and `size` counts the keys. A kick
exchanges one element for another between a bucket and the queue, so the lemmas
follow one element in hand through `try_insert_entry` and the chain of
`deamortize_insertion_queue`.

**The position map** (`ArraysProofs`), for every number of keys, fan-out and
size of the linear level, hence any number of levels. The inductive invariant
`IInv` says that every level is `Entire`: each of its keys has one block there,
at the position that the level above has for it, with a full node. That is
`PointersAgree` with the shape of the levels. An access moves one block of each
level and stores, one level up, exactly the position it moves to, so agreement
is kept if the keys that an access takes from `k` are those of a chain of parents
(`ParentKey`), and if it changes no other chain: two keys pass the same node of
level i exactly if they are equal modulo `Width(i)` (`SameNode`), an arithmetical
fact about the low-order digits, read from the least on (`KeyAtIs`). At level `h` that is
the index into `PositionMap`'s table, which gives the refinement (`MapIsTable`).
That recursive functions such as `KeyAt` and `Trail` have the values their
equations say is itself proved (`RecursionExists`), by least counterexample.

**The arrays** (`ArraysProofs`), every kind, of any size and with any number of
subarrays, over any such table. The inductive invariant `ArrayInv` (before the
first harmful `resize` or write) says that the blocks have different keys, that each is at
the position its table has for it (`InPlace`), that there are leaves for all keys
that are, or by writing to a cell get, stored (`KeysDue`), and that whatever is in
a vector was pushed. The position is why a scan meets the block, the leaves why
storing one loses none, and in a multiway array both need that the cells of
different subarrays have different keys (`RealIndex`). One access is proved once
(`AccessKeeps`, `AccessMemory`) and each call cites it. A `resize` and a growing
`push_back` are an induction over the indices copied (`CopiesAre`): after i of
them, each has its value in a block, and those with room for it have it in place,
because an index beyond the new size takes no kept one's place (`Fits`); a vector
that doubles always fits. `ArraysArePlain` is the refinement.

**The sharded map** (`ShardedProofs`) is proved for every number of workers, all
batches, hash functions and batch sizes, any number of calls and any
interleaving, with deaths of workers. What is assumed of the computations around
the protocol is `DistinctContract`, `OrderContract` and `PlanContract`; that the
code's networks meet them is model-checked (`sharded_map`, and `NetworkArray`
for the networks alone). The inductive invariant `IInv` follows the tasks of the
call at hand: each is still waiting in the outbox or a command channel, or its
reply is under way, or its reply has arrived and its answers are in their slots.
`expected` is the number of those still due; after a death it is greater than
what can still arrive, which is why a call with a dead worker can only end in a
panic or not at all, and never takes effect. Replies may overtake each other
because no two tasks share a slot (`SlotsApart`), and a reply carries the slots.
While the caller is idle, all channels are empty, `size` counts the keys, and the
workers' maps agree with one map, `Stored`. While it inserts, a worker's key has
the value of that map or the value of the batch, and `InsertedWhole` says that
when no reply is due, it is the batch's everywhere. So a call takes effect as a
whole when it returns (`BatchesImplemented`). That theorem has the hypothesis
that `get_batch` is not called with repeated keys: with them it is false
(`sharded_get_repeats`), and so is `AnswersEveryKey`, which holds under the same
hypothesis (`GetsAnswerEveryKey`). Insertions of repeated keys are no part of
`ImplementsBatchMap`; `InsertionsKeepOneValue` says of all insertions that one
value of each key is stored everywhere and that nothing else changes.

**Only model-checked**: `EvictionsSuffice` (`Inv1` for the slots: it depends on
the sizes, and with a smaller stash it is false), the stack, and the
networks. The networks are recursive
operators whose recursion follows the length of the data: such modules, and what
a recursive definition computes for every input, are out of the prover's reach.
So are liveness under fairness and `ENABLED` (`CallsReturn`, `DropEnds`).

## 6. Plan

All components of section 1 that keep state are modelled. A proof that is left:
`ChainIntact` of the stack before the first dummy pop that moves the top, on the
lemmas of `EvictionProofs`.

## 7. Not modelled

The inline assembly and the constant-time claims (they are about instructions),
benchmarks, scripts and CI (no state of the library), and page storage (a
vector behind a lock that no other crate uses). `reverse_bits`,
`print_for_debug` and the formatting code have no effect on the state.
`compute_safe_batch_size` is a pure estimate that callers may use; the models
take any batch size. A worker thread that cannot be spawned makes `new` panic,
before there is a map. The width of the power-of-two helpers is left out, as no
array comes near it. Of the oblivious primitives, `cmov` and `cxchg` are the
conditional assignments of every model. Dropping a fixed array frees its memory
and nothing else.
