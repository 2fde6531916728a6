------------------------------- MODULE QueueOps -------------------------------
(* ShortQueue (datastructures/src/queue.rs) as a value: N slots, each with the *)
(* timestamp of its element or 0, and the operations on it.                    *)
EXTENDS FiniteSetsExt

CONSTANTS N,              \* number of slots
          Element,
          DefaultElement, \* T::default()
          MaxTimestamp    \* usize::MAX: a push beyond it would overflow

ASSUME QueueAssumption == /\ N \in Nat \ {0}
                          /\ DefaultElement \in Element
                          /\ MaxTimestamp \in Nat \ {0}

QSlots == 0 .. N - 1
ShortQueueElement == [timestamp : 0 .. MaxTimestamp, value : Element]
ShortQueue == [elements : [QSlots -> ShortQueueElement],
               highest_timestamp : 0 .. MaxTimestamp,
               lowest_timestamp : 1 .. MaxTimestamp,
               size : 0 .. N]

NewQueue ==
  [elements |-> [s \in QSlots |-> [timestamp |-> 0, value |-> DefaultElement]],
   highest_timestamp |-> 0, lowest_timestamp |-> 1, size |-> 0]

Enqueued(q) == {s \in QSlots : q.elements[s].timestamp # 0}
Timestamps(q, slots) == {q.elements[s].timestamp : s \in slots}

(* Mutant of Pushed: lowest_timestamp follows the newest element.              *)
Pushed_LowestIsNewest(q, e) ==
  LET t == q.highest_timestamp + 1 IN
  [elements |-> [q.elements EXCEPT ![Min(QSlots \ Enqueued(q))] = [timestamp |-> t, value |-> e]],
   highest_timestamp |-> t, lowest_timestamp |-> t, size |-> q.size + 1]

(* maybe_push(true, e): the first free slot receives e, stamped with the next  *)
(* timestamp; the oldest timestamp is recomputed over all the slots.           *)
Pushed(q, e) ==
  LET t == q.highest_timestamp + 1 IN
  [elements |-> [q.elements EXCEPT ![Min(QSlots \ Enqueued(q))] = [timestamp |-> t, value |-> e]],
   highest_timestamp |-> t,
   lowest_timestamp |-> Min({t} \cup Timestamps(q, Enqueued(q))),
   size |-> q.size + 1]

(* The slots a real pop empties. *)
Oldest(q) == {s \in QSlots : q.elements[s].timestamp = q.lowest_timestamp}

(* Mutant of Front: every queued value is copied out, and the last one stays. *)
Front_LastQueued(q, out) == q.elements[Max(Enqueued(q))].value

(* What it copies to the caller's out. *)
Front(q, out) == IF Oldest(q) = {} THEN out ELSE q.elements[Max(Oldest(q))].value

(* A popped slot keeps its value; only its timestamp is cleared. *)
Cleared(q, slots) ==
  [s \in QSlots |-> IF s \in slots THEN [q.elements[s] EXCEPT !.timestamp = 0]
                    ELSE q.elements[s]]

(* Mutants of Popped: the scan for the second lowest stamp starts from zero;   *)
(* it does not leave out the element that is popped.                           *)
Popped_FromZero(q) ==
  [elements |-> Cleared(q, Oldest(q)), highest_timestamp |-> q.highest_timestamp,
   lowest_timestamp |-> Min({0} \cup Timestamps(q, Enqueued(q) \ Oldest(q))),
   size |-> q.size - 1]

Popped_LowestKept(q) ==
  [elements |-> Cleared(q, Oldest(q)), highest_timestamp |-> q.highest_timestamp,
   lowest_timestamp |-> Min({q.highest_timestamp} \cup Timestamps(q, Enqueued(q))),
   size |-> q.size - 1]

(* maybe_pop(true): the oldest element leaves and the second lowest timestamp  *)
(* of the scan becomes the lowest; a queue that empties keeps its highest one. *)
Popped(q) ==
  [elements |-> Cleared(q, Oldest(q)), highest_timestamp |-> q.highest_timestamp,
   lowest_timestamp |-> Min({q.highest_timestamp}
                            \cup Timestamps(q, Enqueued(q) \ Oldest(q))),
   size |-> q.size - 1]

(* The queue as a sequence, oldest first: the stamps in it are the last `size` *)
(* ones given out.                                                             *)
Stamped(q, t) == CHOOSE s \in Enqueued(q) : q.elements[s].timestamp = t
Contents(q) ==
  [i \in 1 .. q.size |-> q.elements[Stamped(q, q.highest_timestamp - q.size + i)].value]
================================================================================
