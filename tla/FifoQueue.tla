------------------------------- MODULE FifoQueue -------------------------------
(* What a bounded queue promises: the elements come out in the order they went *)
(* in, each of them once.                                                      *)
EXTENDS Sequences, Naturals

CONSTANTS N,              \* capacity
          Element,
          DefaultElement  \* what the caller's `out` holds before the first pop

VARIABLES items,          \* oldest first
          out             \* where the caller receives what it pops

fifoVars == <<items, out>>

Init == items = <<>> /\ out = DefaultElement

Push(e) == /\ Len(items) < N
           /\ items' = Append(items, e)
           /\ UNCHANGED out

Pop == /\ items # <<>>
       /\ out' = Head(items)
       /\ items' = Tail(items)

Next == Pop \/ \E e \in Element : Push(e)

Spec == Init /\ [][Next]_fifoVars
================================================================================
