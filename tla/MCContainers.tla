----------------------------- MODULE MCContainers -----------------------------
(* The two small containers, a ShortQueue and a Stack over a tree with two     *)
(* leaves, for TLC: a behaviour is one of either.                              *)
EXTENDS ShortQueue

CONSTANTS H, MaxN, Z, S, Value, Default, NoValue    \* of the stack

VARIABLES stash, tree, evict_counter, top, height, popped, pushed, stage, moved,
          subject      \* the container at hand; the other one stays as it is

Stk == INSTANCE Stack WITH size <- height, out <- popped

stackVars == <<stash, tree, evict_counter, top, height, popped, pushed, stage, moved>>

MCInit == Init /\ Stk!Init /\ subject \in {"queue", "stack"}

MCNext == /\ UNCHANGED subject
          /\ \/ subject = "queue" /\ Next /\ UNCHANGED stackVars
             \/ subject = "stack" /\ Stk!Next /\ UNCHANGED vars

MCSpec == MCInit /\ [][MCNext]_<<vars, stackVars, subject>>

(* No guard of the stack reads what it popped.  That is left out of the        *)
(* fingerprint; TLC checks the action properties on every transition, with its *)
(* value there.                                                                *)
MCView == <<subject, vars, stash, tree, evict_counter, top, height, pushed, stage, moved>>

(* The stack's linked list is in full, each element where the one above says,  *)
(* until a number is used twice or a dummy pop moved the top.                  *)
ChainIntact == Stk!ChainIntact

(* The stack's pop returns what was pushed last, under the same condition.     *)
LifoUntilReuse == Stk!LifoUntilReuse

(* "Pops the top element from the stack if `real` is true.  The popped element *)
(* is returned in `out`" (the documentation of maybe_pop), without dummy pops. *)
LifoWithoutDummyPops == Stk!LifoWithoutDummyPops
================================================================================
