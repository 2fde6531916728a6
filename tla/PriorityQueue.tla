----------------------------- MODULE PriorityQueue -----------------------------
(* What the heap promises: a collection of elements with priorities, of which  *)
(* one with the least priority is known at any time, and of which each can be  *)
(* deleted by the handle (position, timestamp) it got when it was inserted.    *)
(* An insertion may drop its element, but only when there is no room.          *)
EXTENDS Maps, Naturals, FiniteSets

CONSTANTS Position, Priority

VARIABLES elements,    \* the elements: [pos, key (the timestamp), value]
          least,       \* the minimum, as a set of at most one element
          handles,     \* timestamp -> the position returned with it
          call,        \* the last call
          room         \* is there room for another element?

pqVars == <<elements, least, handles, call, room>>

MinimumOf(s, m) ==
  IF s = {} THEN m = {} ELSE \E e \in s : m = {e} /\ \A f \in s : e.value <= f.value

Init == elements = {} /\ least = {} /\ handles = [ts \in {} |-> 0] /\ call = <<"new">>

Insert(ts, pos, priority) ==
  /\ call' = <<"insert", priority>>
  /\ handles' = With(handles, ts, pos)
  /\ \/ elements' = elements \cup {[pos |-> pos, key |-> ts, value |-> priority]}
     \/ ~room /\ UNCHANGED elements

Delete(ts) ==
  /\ call' = <<"delete", ts>>
  /\ UNCHANGED handles
  /\ elements' = {e \in elements : e.key # ts}

ExtractMin ==
  /\ call' = <<"extract_min">>
  /\ UNCHANGED handles
  /\ elements' = elements \ least

Operation == \/ \E pos \in Position : \E priority \in Priority :
                  Insert(Cardinality(DOMAIN handles), pos, priority)
             \/ \E ts \in DOMAIN handles : Delete(ts)
             \/ ExtractMin

Next == Operation /\ MinimumOf(elements', least')

Spec == Init /\ [][Next]_pqVars
================================================================================
