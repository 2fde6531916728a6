----------------------------- MODULE MCUnsortedMap -----------------------------
(* UnsortedMap with buckets of one element and two buckets per table, for TLC. *)
EXTENDS UnsortedMap

(* Keys 0..4 are pairs of a table-1 and a table-0 bucket.  Either all of them  *)
(* share a bucket of table 1, or nearly all do and each kick can move on.      *)
MCHash == {[t \in {0, 1} |-> [k \in Key |-> IF t = 1 THEN 0 ELSE k % 2]],
           [t \in {0, 1} |-> [k \in Key |-> IF t = 1 THEN k \div 4 ELSE k \div 3]]}

(* Only the order of the queue's stamps matters: they are numbered from 1.     *)
Rank(s) == IF s \notin Enqueued(insertion_queue) THEN 0
           ELSE insertion_queue.elements[s].timestamp
                  - (insertion_queue.highest_timestamp - insertion_queue.size)
QueueView == [s \in QSlots |-> <<Rank(s), IF Rank(s) = 0 THEN NoValue
                                          ELSE insertion_queue.elements[s].value>>]

(* `ret` is a record of the last call that no guard reads; TLC still checks    *)
(* the action properties on every transition, with the ret of that transition. *)
MCView == <<size, table, hash_key, QueueView>>
================================================================================
