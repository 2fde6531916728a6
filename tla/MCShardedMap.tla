----------------------------- MODULE MCShardedMap -----------------------------
(* Two workers and three keys, for TLC.  The computations around the protocol  *)
(* are those of the code, in ShardedBatch.                                     *)
EXTENDS ShardedMap, ShardedBatch

MCKey == {0, 1, 2}
MCValue == 0 .. 3

(* One key each way, and all keys at one worker. *)
MCPartitions == {[k \in MCKey |-> k % 2], [k \in MCKey |-> 1]}

BatchesUpTo(n) == UNION {[0 .. len - 1 -> MCKey] : len \in 1 .. n}
Batch(a, b, c) == 0 :> a @@ 1 :> b @@ 2 :> c

(* All batches of one or two keys, all orders of three, some repetitions. *)
MCBatches == BatchesUpTo(2)
             \cup {Batch(p[1], p[2], 3 - p[1] - p[2]) : p \in {q \in MCKey \X MCKey : q[1] # q[2]}}
             \cup {Batch(1, 1, 0), Batch(0, 2, 0), Batch(2, 2, 2), Batch(1, 2, 2), Batch(0, 0, 1)}

(* The value tells the position apart, so that it is seen which one was used.  *)
MCValues == {[i \in 0 .. len - 1 |-> i + 1] : len \in 1 .. 3}
================================================================================
