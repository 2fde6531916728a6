--------------------------------- MODULE Stack ---------------------------------
(* Stack (datastructures/src/stack.rs), in the release build: a linked list in *)
(* a Circuit ORAM, the element pushed as number i being the block with key i,  *)
(* and the position of its successor stored in the element above it.           *)
EXTENDS HeapTree, Sequences

CONSTANTS Value, Default, NoValue,
          Z, S           \* bucket and stash size of the ORAM

VARIABLES stash, tree, evict_counter,   \* the ORAM, as in module CircuitORAM
          top, size,
          out,           \* the caller's variable that receives popped values
          pushed,        \* history: the values pushed and not yet popped
          stage,         \* history: "reused" once a number is pushed again
          moved          \* history: was a dummy pop made on a non-empty stack?

oram == <<stash, tree, evict_counter>>
vars == <<oram, top, size, out, pushed, stage, moved>>

StackElement == [value : Value, next : -1 .. MaxN - 1]

(* The ORAM's position map is in `top` and in the elements. *)
ORAM == INSTANCE CircuitORAM WITH
          Key <- 0 .. MaxN + 1, Value <- StackElement,
          Default <- [value |-> Default, next |-> 0], NoKey <- -1, NoValue <- NoValue,
          pmap <- << >>, ret <- << >>

Init == /\ stash = [s \in 0 .. S - 1 |-> ORAM!Empty]
        /\ tree = [n \in Nodes |-> [z \in 0 .. Z - 1 |-> ORAM!Empty]]
        /\ evict_counter = 0
        /\ top = ORAM!DUMMY_POS /\ size = 0
        /\ out = Default
        /\ pushed = << >> /\ stage = "pushing" /\ moved = FALSE

(* Mutant of new_id: the element takes the number of the current top. *)
new_id_Size == IF size = 0 THEN 1 ELSE size

new_id == size + 1

(* write_or_insert at a random position, where no block of that number is      *)
(* expected; a dummy push stores nothing, but does remove what its scan meets. *)
MaybePush(real, v) ==
  /\ real => size < MaxN
  /\ \E read_pos \in Positions :
       IF real
       THEN \E new_pos \in Positions :
              /\ ORAM!Access(new_id, read_pos,
                             ORAM!Full(new_id, new_pos, [value |-> v, next |-> top]))
              /\ top' = new_pos /\ size' = size + 1
              /\ pushed' = Append(pushed, v)
       ELSE ORAM!Access(new_id, read_pos, ORAM!Empty) /\ UNCHANGED <<top, size, pushed>>
  /\ stage' = IF real /\ stage = "popping" THEN "reused" ELSE stage
  /\ UNCHANGED <<out, moved>>

(* Mutant of target_id: the element below the top is popped. *)
target_id_Below == size - 1

target_id == size

(* read with new_pos = read_pos, although the code computes a new_pos that     *)
(* would delete the element of a real pop: what is met is stored again.        *)
ReadTop(read_pos, real) ==
  LET found == ORAM!Found(target_id, read_pos) IN
  \E imse \in IF found = {} THEN {[value |-> Default, next |-> 0]}
              ELSE {b.value : b \in found} :
    /\ ORAM!Access(target_id, read_pos,
                   IF found = {} THEN ORAM!Empty ELSE ORAM!Full(target_id, read_pos, imse))
    /\ IF real THEN out' = imse.value /\ top' = imse.next ELSE UNCHANGED <<out, top>>

Popped(real) ==
  /\ \E read_pos \in IF real THEN {top} ELSE Positions : ReadTop(read_pos, real)
  /\ IF real THEN size' = size - 1 /\ pushed' = SubSeq(pushed, 1, Len(pushed) - 1)
     ELSE UNCHANGED <<size, pushed>>
  /\ moved' = (moved \/ (~real /\ size > 0))
  /\ stage' = IF real /\ stage = "pushing" THEN "popping" ELSE stage

MaybePop(real) == (real => size > 0) /\ Popped(real)

Next == \E real \in BOOLEAN : MaybePop(real) \/ \E v \in Value : MaybePush(real, v)

Spec == Init /\ [][Next]_vars

-------------------------------------------------------------------------------
(* Where the element with number i is expected: the top is in `top`, every     *)
(* other one where the element above it says.                                  *)
ElementsNamed(i) == {b \in ORAM!Blocks : b.key = i}
Expected(i, b) == \/ i = size /\ b.pos = top
                  \/ \E above \in ElementsNamed(i + 1) : b.pos = above.value.next

(* The documented invariant, that the list is in decreasing order of numbers,  *)
(* in full: as long as no number is used twice and no dummy pop moved the top, *)
(* each of the elements 1..size is in one block, where the element above it    *)
(* says, and holds the value pushed under its number.                          *)
ChainIntact ==
  stage # "reused" /\ ~moved =>
    \A i \in 1 .. size : \E b \in ORAM!Blocks :
      ElementsNamed(i) = {b} /\ Expected(i, b) /\ b.value.value = pushed[i]

LastIn == pushed[Len(pushed)]

(* Pop returns what was pushed last, under every call pattern without a push   *)
(* after a pop and without a dummy pop of a non-empty stack: the pattern of    *)
(* test_stack.                                                                 *)
LifoUntilReuse ==
  [][size' < size /\ stage # "reused" /\ ~moved => out' = LastIn]_vars

(* "Pops the top element from the stack if `real` is true.  The popped element *)
(* is returned in `out`" (the documentation of maybe_pop), without dummy pops. *)
LifoWithoutDummyPops == [][size' < size /\ ~moved => out' = LastIn]_vars
================================================================================
