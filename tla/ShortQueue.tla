------------------------------ MODULE ShortQueue ------------------------------
(* A ShortQueue in the hands of a caller that respects its assertions: no real *)
(* push when it is full, no real pop when it is empty.                         *)
EXTENDS QueueOps, Sequences

VARIABLES queue,
          out            \* the caller's variable that receives popped elements

vars == <<queue, out>>

Init == queue = NewQueue /\ out = DefaultElement

MaybePush(real, e) ==
  /\ real => queue.size < N /\ queue.highest_timestamp < MaxTimestamp
  /\ queue' = IF real THEN Pushed(queue, e) ELSE queue
  /\ UNCHANGED out

MaybePop(real) ==
  /\ real => queue.size > 0
  /\ queue' = IF real THEN Popped(queue) ELSE queue
  /\ out' = IF real THEN Front(queue, out) ELSE out

Next == \E real \in BOOLEAN : \/ MaybePop(real)
                              \/ \E e \in Element : MaybePush(real, e)

Spec == Init /\ [][Next]_vars
-------------------------------------------------------------------------------
TypeOK == queue \in ShortQueue /\ out \in Element

(* The invariants documented on the struct: size counts the elements with a    *)
(* non-zero timestamp; their timestamps are unique and between lowest and      *)
(* highest; lowest is the oldest one, and not zero even in an empty queue.     *)
DocumentedInvariants ==
  /\ queue.size = Cardinality(Enqueued(queue))
  /\ \A s, t \in Enqueued(queue) :
       queue.elements[s].timestamp = queue.elements[t].timestamp => s = t
  /\ \A s \in Enqueued(queue) :
       queue.elements[s].timestamp \in queue.lowest_timestamp .. queue.highest_timestamp
  /\ queue.lowest_timestamp # 0
  /\ queue.size > 0 =>
       /\ queue.lowest_timestamp \in Timestamps(queue, Enqueued(queue))
       /\ queue.highest_timestamp \in Timestamps(queue, Enqueued(queue))

(* Why taking the lowest stamp is first-in first-out: the stamps in the queue  *)
(* are exactly the last `size` ones that were given out.                       *)
NoGaps == Timestamps(queue, Enqueued(queue))
            = queue.highest_timestamp - queue.size + 1 .. queue.highest_timestamp

Fifo == INSTANCE FifoQueue WITH items <- Contents(queue)

(* In whatever slots the elements lie, they come out in the order they went    *)
(* in, and a dummy operation (real = false) changes nothing.                   *)
ImplementsFifo == Fifo!Spec
================================================================================
