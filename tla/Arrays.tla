--------------------------------- MODULE Arrays ---------------------------------
(* The arrays of datastructures/src/array.rs and the vector of vector.rs.  One *)
(* kind is chosen at the start: "short" and "long" are the variants of         *)
(* FixedArray; "dynamic" is DynamicArray, "multiway" MultiWayArray, "vector"   *)
(* EagerVector over a DynamicArray.  All but "short" keep their elements in an *)
(* ORAM, at the positions of one map, or of one for each subarray.  Map and    *)
(* ORAM do what PositionMap and, under Inv1, PathOram promise.                 *)
EXTENDS PositionTable, Maps

CONSTANTS W,                       \* subarrays of a multiway array
          SHORT_ARRAY_THRESHOLD,
          Value, Default, NoValue,
          FixedSizes,              \* bound: sizes of fixed arrays
          MultiWaySizes,           \* bound: sizes of multiway arrays
          MaxSize                  \* bound: the largest size of the others

ASSUME ArraysAssumption ==
  /\ W \in Nat \ {0} /\ Default \in Value
  /\ MaxSize \in Nat /\ FixedSizes \subseteq 1 .. MaxSize /\ MultiWaySizes \subseteq 1 .. MaxSize

VARIABLES kind,
          size,        \* FixedArray's N, and pos_map.n of the others
          pos_map,     \* subarray -> table of positions
          data,        \* the blocks of the ORAM; of a short array its cells
          len,         \* the vector's n
          answer,      \* the last call and its result
          harmed       \* history: was the array shrunk too far, or overfilled?

vars == <<kind, size, pos_map, data, len, answer, harmed>>

NoCell == <<0, 0>>
Subarrays == IF kind = "multiway" THEN 0 .. W - 1 ELSE {0}
(* Reads and writes are of an index below the length: an assertion of the      *)
(* vector, an obligation of the callers otherwise.                             *)
Length == IF kind = "vector" THEN len ELSE size
Cells == Subarrays \X (0 .. Length - 1)

NewArray(k, n) ==
  /\ kind = k /\ size = n
  /\ IF k = "short"
     THEN pos_map = << >> /\ data = [i \in 0 .. n - 1 |-> Default]
     ELSE pos_map \in [Subarrays -> NewTables(n)] /\ data = {}

Init == /\ \/ \E n \in FixedSizes :
                NewArray(IF n <= SHORT_ARRAY_THRESHOLD THEN "short" ELSE "long", n)
           \/ \E n \in 2 .. MaxSize : NewArray("dynamic", n)
           \/ \E n \in MultiWaySizes : NewArray("multiway", n)
           \/ NewArray("vector", 2)
        /\ len = 0
        /\ answer = Answer("new", NoCell, TRUE, NoValue)
        /\ harmed = FALSE

(* Mutant of get_real_index: the index is not shifted. *)
get_real_index_NoShift(c) == IF kind = "multiway" THEN c[2] + c[1] ELSE c[2]

(* The key of a cell in the ORAM. *)
get_real_index(c) == IF kind = "multiway" THEN c[2] * W + c[1] ELSE c[2]

--------------------------------------------------------------------------------
(* The ORAM with its position map, as [table, blocks], of an array of n cells. *)
Contents(table, blocks) == [table |-> table, blocks |-> blocks]
Block(key, pos, value) == [key |-> key, pos |-> pos, value |-> value]

(* The scan for a key meets its block at the position it is given.  A block    *)
(* stored elsewhere it meets by chance: in the stash, or where the paths are   *)
(* still one.                                                                  *)
Meets(blocks, key, pos) ==
  LET there == {b \in blocks : b.key = key /\ b.pos = pos}
      elsewhere == {b \in blocks : b.key = key /\ b.pos # pos}
  IN {there \cup chance : chance \in SUBSET elsewhere}

(* The least power of two that is not below n. *)
TwoTo[i \in Nat] == IF i = 0 THEN 1 ELSE 2 * TwoTo[i - 1]
Leaves(n) == CHOOSE l \in {TwoTo[e] : e \in 0 .. n} : n <= l /\ l < 2 * n

(* With more blocks than leaves the stash may overflow, and lose the block.    *)
StoredIn(blocks, block, n) ==
  {blocks \cup {block}} \cup (IF Cardinality(blocks) < Leaves(n) THEN {} ELSE {blocks})

(* The three accesses: pos_map is told a new position first, and the ORAM is   *)
(* scanned at the old one.                                                     *)
ReadCell(c) ==
  \E pos \in Random(size, RandomBound),
     met \in Meets(data, get_real_index(c), Looked(pos_map[c[1]], size, c[2])) :
    /\ pos_map' = [pos_map EXCEPT ![c[1]] = Stored(@, size, c[2], pos)]
    /\ IF met = {}
       THEN answer' = Answer("read", c, FALSE, NoValue) /\ UNCHANGED data
       ELSE \E b \in met :
              /\ answer' = Answer("read", c, TRUE, b.value)
              /\ data' \in StoredIn(data \ met, Block(b.key, pos, b.value), size)

(* write_or_insert, and update but for its answer. *)
Written(st, n, i, key, value) ==
  UNION {UNION {{Contents(Stored(st.table, n, i, pos), blocks) :
                   blocks \in StoredIn(st.blocks \ met, Block(key, pos, value), n)} :
                  met \in Meets(st.blocks, key, Looked(st.table, n, i))} :
           pos \in Random(n, RandomBound)}

WriteCell(c, v) ==
  \E st \in Written(Contents(pos_map[c[1]], data), size, c[2], get_real_index(c), v) :
    /\ pos_map' = [pos_map EXCEPT ![c[1]] = st.table]
    /\ data' = st.blocks

(* What a read of index i may find, into a variable with the default value.    *)
ValuesAt(i) ==
  UNION {IF met = {} THEN {Default} ELSE {b.value : b \in met} :
           met \in Meets(data, i, Looked(pos_map[0], size, i))}

(* The new array of n cells after resize has written every old index to it,    *)
(* those that it has no room for included.                                     *)
Copies(n, v) ==
  LET copied[i \in 0 .. size] ==
        IF i = 0 THEN {Contents(t, {}) : t \in NewTables(n)}
        ELSE UNION {Written(st, n, i - 1, i - 1, v[i - 1]) : st \in copied[i - 1]}
  IN copied[size]

(* Reading the old array moves its blocks; it is dropped, so only the values   *)
(* read matter.                                                                *)
Resized(n) ==
  UNION {Copies(n, v) : v \in {f \in [0 .. size - 1 -> Value] :
                                 \A i \in 0 .. size - 1 : f[i] \in ValuesAt(i)}}

(* No index beyond the new size takes the place of a kept one in the position  *)
(* map, and the ORAM has a leaf for every element copied.                      *)
Fits(n) == /\ \A i \in n .. size - 1 : Slot(n, i) >= n
           /\ size <= Leaves(n)
--------------------------------------------------------------------------------
Read(c) == /\ IF kind = "short"
              THEN answer' = Answer("read", c, TRUE, data[c[2]]) /\ UNCHANGED <<pos_map, data>>
              ELSE ReadCell(c)
           /\ UNCHANGED <<kind, size, len, harmed>>

(* The subarrays of a multiway array have a total size of `size`; nothing      *)
(* keeps a caller from writing more elements.                                  *)
HasRoom(c) ==
  kind = "multiway" => Cardinality({b.key : b \in data} \cup {get_real_index(c)}) <= size

Write(c, v) == /\ IF kind = "short" THEN data' = [data EXCEPT ![c[2]] = v] /\ UNCHANGED pos_map
                  ELSE WriteCell(c, v)
               /\ answer' = Answer("write", c, TRUE, v)
               /\ harmed' = (harmed \/ ~HasRoom(c))
               /\ UNCHANGED <<kind, size, len>>

(* With the closure that swaps v in and returns what it saw.                   *)
Update(c, v) ==
  /\ kind \in {"dynamic", "multiway"}
  /\ WriteCell(c, v)
  /\ \E met \in Meets(data, get_real_index(c), Looked(pos_map[c[1]], size, c[2])) :
       IF met = {} THEN answer' = Answer("update", c, FALSE, Default)
       ELSE \E b \in met : answer' = Answer("update", c, TRUE, b.value)
  /\ harmed' = (harmed \/ ~HasRoom(c))
  /\ UNCHANGED <<kind, size, len>>

Resize(n) ==
  /\ kind = "dynamic" /\ n # size
  /\ \E st \in Resized(n) : pos_map' = [w \in {0} |-> st.table] /\ data' = st.blocks
  /\ size' = n
  /\ harmed' = (harmed \/ ~Fits(n))
  /\ answer' = Answer("resize", NoCell, TRUE, NoValue)
  /\ UNCHANGED <<kind, len>>

(* A vector as long as its array doubles the array first. *)
PushBack(v) ==
  /\ kind = "vector" /\ len < MaxSize
  /\ size' = IF len = size THEN 2 * len ELSE size
  /\ \E old \in IF len = size THEN Resized(2 * len) ELSE {Contents(pos_map[0], data)} :
     \E st \in Written(old, size', len, len, v) :
       pos_map' = [w \in {0} |-> st.table] /\ data' = st.blocks
  /\ len' = len + 1
  /\ answer' = Answer("push_back", NoCell, TRUE, v)
  /\ UNCHANGED <<kind, harmed>>

(* The element popped is read, and stays where it is. *)
PopBack ==
  /\ kind = "vector" /\ len > 0
  /\ \E pos \in Random(size, RandomBound),
        met \in Meets(data, len - 1, Looked(pos_map[0], size, len - 1)) :
       /\ pos_map' = [w \in {0} |-> Stored(pos_map[0], size, len - 1, pos)]
       /\ IF met = {}
          THEN answer' = Answer("pop_back", NoCell, TRUE, Default) /\ UNCHANGED data
          ELSE \E b \in met :
                 /\ answer' = Answer("pop_back", NoCell, TRUE, b.value)
                 /\ data' \in StoredIn(data \ met, Block(b.key, pos, b.value), size)
  /\ len' = len - 1
  /\ UNCHANGED <<kind, size, harmed>>

Next == \/ \E c \in Cells : \/ Read(c)
                            \/ \E v \in Value : Write(c, v) \/ Update(c, v)
        \/ \E n \in 2 .. MaxSize : Resize(n)
        \/ \E v \in Value : PushBack(v)
        \/ PopBack

Spec == Init /\ [][Next]_vars
--------------------------------------------------------------------------------
(* The blocks that a read of the cell would find. *)
Findable(c) == {b \in data : /\ b.key = get_real_index(c)
                             /\ b.pos = Looked(pos_map[c[1]], size, c[2])}

PA == INSTANCE PlainArray WITH
        Subarray <- 0 .. W - 1,
        contents <- IF kind = "short" THEN [c \in Cells |-> data[c[2]]]
                    ELSE [c \in {x \in Cells : Findable(x) # {}} |->
                            (CHOOSE b \in Findable(c) : TRUE).value],
        length <- Length

(* Every kind of array answers from the value last written to a cell, keeps    *)
(* its elements over resizing and growth, and its subarrays apart, until it is *)
(* shrunk too far or overfilled: by a resize that copies an index beyond the   *)
(* new size over the position of a kept one, or more elements than there are   *)
(* leaves, or by a multiway array's caller who writes more than its total size *)
(* of elements.                                                                *)
ImplementsArray == PA!Init /\ [][~harmed' => PA!Next]_vars
================================================================================
