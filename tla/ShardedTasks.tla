----------------------------- MODULE ShardedTasks -----------------------------
(* The commands that the batch operations of ShardedMap (sharded_map.rs) send  *)
(* to the workers, and what the computations around them owe the protocol: how *)
(* a batch is cut into commands, and where its answers are found again.        *)
EXTENDS Integers, Sequences, FiniteSets, Functions

CONSTANTS P,               \* partitions (15 in the code)
          DefaultValue

ASSUME TasksAssumption == P \in Nat \ {0}

Workers == 0 .. P - 1

OOption(found, v) == [is_some |-> found, value |-> v]
NoAnswer == OOption(FALSE, DefaultValue)

(* usize::MAX, as the index of an element of another partition. *)
InvalidId == 1000000

div_ceil(a, d) == (a + d - 1) \div d

BatchLen(keys) == Cardinality(DOMAIN keys)
Distinct(keys) == IsInjective(keys)
Queries(keys, part, p) == Cardinality({i \in DOMAIN keys : part[keys[i]] = p})
FitsPartitions(keys, part, b) == \A p \in Workers : Queries(keys, part, p) <= b
-------------------------------------------------------------------------------
(* A task is a command with the worker it goes to.  The answer to block x of a *)
(* command belongs into one of the P * b slots of the results.                 *)
Slots(b) == 0 .. P * b - 1
SlotOf(task, x, b) == task.worker * b + task.cmd.offset + x - 1
KeyOf(cmd, x) ==
  IF cmd.kind \in {"Get", "Insert"} THEN cmd.blocks[x].k ELSE cmd.blocks[x].key

(* Commands of one kind to existing workers, no two blocks with the same slot. *)
Dispatched(tasks, kind, b) ==
  /\ tasks \in Seq(Range(tasks))
  /\ \A t \in Range(tasks) : /\ t = [worker |-> t.worker, cmd |-> t.cmd]
                             /\ t.worker \in Workers /\ t.cmd.kind = kind
                             /\ t.cmd.offset \in Nat /\ (kind = "Get" => t.cmd.offset = 0)
                             /\ t.cmd.blocks \in Seq(Range(t.cmd.blocks))
  /\ \A t, u \in Range(tasks) : \A x \in DOMAIN t.cmd.blocks, y \in DOMAIN u.cmd.blocks :
       /\ SlotOf(t, x, b) \in Slots(b)
       /\ SlotOf(t, x, b) = SlotOf(u, y, b) => t = u /\ x = y

(* get_batch_distinct and get_batch_leaky: all slots are filled; every position *)
(* of the batch is the index of one block, at the worker of its key, and all   *)
(* other blocks are invalid.                                                   *)
IndexedTasks(tasks, keys, part, b) ==
  /\ Dispatched(tasks, "Get", b)
  /\ \A s \in Slots(b) : \E t \in Range(tasks) : \E x \in DOMAIN t.cmd.blocks : s = SlotOf(t, x, b)
  /\ \A i \in DOMAIN keys : \E t \in Range(tasks) : \E x \in DOMAIN t.cmd.blocks :
       /\ t.cmd.blocks[x].index = i
       /\ t.worker = part[keys[i]] /\ KeyOf(t.cmd, x) = keys[i]
  /\ \A t, u \in Range(tasks) : \A x \in DOMAIN t.cmd.blocks, y \in DOMAIN u.cmd.blocks :
       LET index == t.cmd.blocks[x].index IN
       /\ DOMAIN t.cmd.blocks[x] = {"index", "k", "v"}
       /\ index \in DOMAIN keys \cup {InvalidId}
       /\ index = u.cmd.blocks[y].index /\ index # InvalidId => t = u /\ x = y

(* get_batch, of distinct keys: where each position finds its answer.          *)
Routes(source, tasks, keys, part, b) ==
  \A i \in DOMAIN keys : \E t \in Range(tasks) : \E x \in DOMAIN t.cmd.blocks :
    /\ source[i] = SlotOf(t, x, b)
    /\ t.worker = part[keys[i]] /\ KeyOf(t.cmd, x) = keys[i]

(* An element to insert: Insert goes by v.is_some, Insertv2 by the partition.  *)
Live(task, x) ==
  IF task.cmd.kind = "Insert" THEN task.cmd.blocks[x].v.is_some
  ELSE task.cmd.blocks[x].partition = task.worker
ValueOf(cmd, x) == IF cmd.kind = "Insert" THEN cmd.blocks[x].v.value ELSE cmd.blocks[x].value

(* insert_batch_distinct and insert_batch: every key of the batch goes to the  *)
(* worker it belongs to, whatever any worker inserts is from the batch, and of *)
(* the values that the batch has for a key all workers get the same one.       *)
InsertionTasks(tasks, kind, keys, values, part, b) ==
  /\ Dispatched(tasks, kind, b)
  /\ \E val \in [Range(keys) -> Range(values)] :
       /\ \A k \in Range(keys) : \E i \in DOMAIN keys : keys[i] = k /\ values[i] = val[k]
       /\ \A k \in Range(keys) : \E t \in Range(tasks) : \E x \in DOMAIN t.cmd.blocks :
            Live(t, x) /\ t.worker = part[k] /\ KeyOf(t.cmd, x) = k
       /\ \A t \in Range(tasks) : \A x \in DOMAIN t.cmd.blocks :
            Live(t, x) => /\ KeyOf(t.cmd, x) \in Range(keys)
                          /\ ValueOf(t.cmd, x) = val[KeyOf(t.cmd, x)]
================================================================================
