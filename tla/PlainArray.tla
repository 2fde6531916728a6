------------------------------ MODULE PlainArray ------------------------------
(* What the arrays and the vector promise: a cell for every subarray and       *)
(* index, which holds the value last written.  A cell never written has no     *)
(* value: reading it leaves the caller's variable as it was, and an update     *)
(* starts from the default value.                                              *)
EXTENDS Maps, Integers

CONSTANTS Subarray, MaxSize, Value, Default, NoValue

VARIABLES contents,    \* cell -> value, for the cells written
          length,      \* the indices are 0 .. length - 1
          answer       \* the last call: its cell, was there a value, and which (of
                       \* a write or push_back, the value stored)

arrayVars == <<contents, length, answer>>

NoCell == <<0, 0>>
Cells == Subarray \X (0 .. length - 1)
IsWritten(c) == c \in DOMAIN contents
ValueOr(c, other) == IF IsWritten(c) THEN contents[c] ELSE other

(* A short array starts with a default value in every cell. *)
Init == /\ length \in 0 .. MaxSize
        /\ \E D \in {{}, {0} \X (0 .. length - 1)} : contents = [c \in D |-> Default]
        /\ answer = Answer("new", NoCell, TRUE, NoValue)

Read(c) == /\ answer' = Answer("read", c, IsWritten(c), ValueOr(c, NoValue))
           /\ UNCHANGED <<contents, length>>

Write(c, v) == /\ answer' = Answer("write", c, TRUE, v)
               /\ contents' = With(contents, c, v)
               /\ UNCHANGED length

(* update with a closure that swaps v in and returns what it saw.              *)
Update(c, v) == /\ answer' = Answer("update", c, IsWritten(c), ValueOr(c, Default))
                /\ contents' = With(contents, c, v)
                /\ UNCHANGED length

(* The cells that are kept count as written from then on.                      *)
Resize(n) == /\ answer' = Answer("resize", NoCell, TRUE, NoValue)
             /\ length' = n
             /\ contents' = [c \in {x \in {0} \X (0 .. length - 1) : x[2] < n} |->
                               ValueOr(c, Default)]

Push(v) == /\ answer' = Answer("push_back", NoCell, TRUE, v)
           /\ length' = length + 1
           /\ contents' = With(contents, <<0, length>>, v)

(* Whatever was pushed has a value. *)
Pop == /\ length > 0 /\ IsWritten(<<0, length - 1>>)
       /\ answer' = Answer("pop_back", NoCell, TRUE, contents[<<0, length - 1>>])
       /\ length' = length - 1
       /\ contents' = Without(contents, <<0, length - 1>>)

Next == \/ \E c \in Cells : \/ Read(c)
                            \/ \E v \in Value : Write(c, v) \/ Update(c, v)
        \/ \E n \in 2 .. MaxSize : Resize(n)
        \/ \E v \in Value : Push(v)
        \/ Pop

Spec == Init /\ [][Next]_arrayVars
===============================================================================
