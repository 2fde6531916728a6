-------------------------- MODULE RecursivePositionMap --------------------------
(* RecursivePositionMap (oram/src/recursive_oram.rs): a linear ORAM over       *)
(* Circuit ORAMs of growing size.  A node of one level holds the positions of  *)
(* FAN_OUT nodes of the next; those of the last level are what the user wants. *)
(* A level is the ORAM that PathOram promises while Inv1 holds: a set of       *)
(* blocks, each found where it was last stored, and only there.                *)
EXTENDS PositionTable

CONSTANTS n,           \* the number of keys, and of positions
          Keys         \* the keys accessed

ASSUME PositionMapAssumption == n \in Nat \ {0} /\ Keys \subseteq Nat

VARIABLES linear,      \* the entries of the linear level, bucket after bucket
          levels,      \* level -> its blocks: key, position and node
          ret          \* the last access: its key and the position returned

mapVars == <<linear, levels, ret>>

h == Height(n)
Width(i) == LINEAR_MAP_SIZE * Power[i]
Digits == 0 .. FAN_OUT - 1

(* The positions of level i, of which level h is the user's ORAM.              *)
PositionsOf(i, bound) == Random(IF i = h THEN n ELSE Width(i), bound)

(* new: a position for every node of every level, stored in the level above.   *)
New ==
  LET places == UNION {{<<i, j>> : j \in 0 .. Width(i) - 1} : i \in 0 .. h} IN
  \E drawn \in [places -> 0 .. InitialBound - 1] :
    /\ \A p \in places : drawn[p] \in PositionsOf(p[1], InitialBound)
    /\ linear = [k \in 0 .. Min({Entries(n), LINEAR_MAP_SIZE}) - 1 |->
                   IF k < n THEN drawn[<<0, k>>] ELSE DUMMY_POS]
    /\ levels = [i \in 0 .. h - 1 |->
                   {[key |-> j, pos |-> drawn[<<i, j>>],
                     node |-> [d \in Digits |-> drawn[<<i + 1, j * FAN_OUT + d>>]]] :
                      j \in 0 .. Width(i) - 1}]
    /\ ret = Access(0, DUMMY_POS)

(* The keys of the nodes that an access to k passes: the low-order bits of k   *)
(* select a linear entry, and each further digit an entry of a node.           *)
Digit(k, i) == (k \div Width(i)) % FAN_OUT

(* Mutant of KeyAt: the key of the level above is not shifted. *)
KeyAt_NoShift(k) ==
  LET key[i \in 0 .. h] ==
        IF i = 0 THEN k % LINEAR_MAP_SIZE ELSE key[i - 1] + Digit(k, i - 1)
  IN key

KeyAt(k) ==
  LET key[i \in 0 .. h] ==
        IF i = 0 THEN k % LINEAR_MAP_SIZE
        ELSE key[i - 1] * FAN_OUT + Digit(k, i - 1)
  IN key

(* The block that the scan for a key meets, and the node in it: a default one  *)
(* if there is none.                                                           *)
Met(i, key, pos) == {b \in levels[i] : b.key = key /\ b.pos = pos}
Node(i, key, pos) ==
  LET met == Met(i, key, pos) IN
  IF met = {} THEN [d \in Digits |-> DUMMY_POS] ELSE (CHOOSE b \in met : TRUE).node

(* The positions found on the way to k: each level yields that of the next.    *)
Trail(k) ==
  LET key == KeyAt(k)
      pos[i \in 0 .. h] ==
        IF i = 0 THEN IF key[0] \in DOMAIN linear THEN linear[key[0]] ELSE DUMMY_POS
        ELSE Node(i - 1, key[i - 1], pos[i - 1])[Digit(k, i - 1)]
  IN pos

(* Mutant of Updated: the node is stored again where it was found. *)
Updated_SamePosition(i, key, pos, new_pos, digit, next) ==
  (levels[i] \ Met(i, key, pos))
    \cup {[key |-> key, pos |-> pos, node |-> [Node(i, key, pos) EXCEPT ![digit] = next]]}

(* update of one level: the node moves to new_pos, and points to the position  *)
(* that the node of the next level is about to move to.                        *)
Updated(i, key, pos, new_pos, digit, next) ==
  (levels[i] \ Met(i, key, pos))
    \cup {[key |-> key, pos |-> new_pos, node |-> [Node(i, key, pos) EXCEPT ![digit] = next]]}

access_position(k, new_pos) ==
  \E key \in {KeyAt(k)}, old \in {Trail(k)},
     new \in {f \in [0 .. h -> 0 .. RandomBound - 1] :
                /\ f[h] = new_pos
                /\ \A i \in 0 .. h - 1 : f[i] \in PositionsOf(i, RandomBound)} :
    /\ linear' = [e \in DOMAIN linear |-> IF e = key[0] THEN new[0] ELSE linear[e]]
    /\ levels' = [i \in 0 .. h - 1 |->
                    Updated(i, key[i], old[i], new[i], Digit(k, i), new[i + 1])]
    /\ ret' = Access(k, old[h])

Accesses == \E k \in Keys, new_pos \in PositionsOf(h, RandomBound) : access_position(k, new_pos)

MapSpec == New /\ [][Accesses]_mapVars
---------------------------------------------------------------------------------
(* The position of node j of level i, as the level above has it.               *)
PointerTo(i, j) ==
  IF i = 0 THEN {linear[j]}
  ELSE {b.node[j % FAN_OUT] : b \in {c \in levels[i - 1] : c.key = j \div FAN_OUT}}

(* Every level holds each of its nodes once, at the position that the level    *)
(* above has for it, so that no access ever misses a node (debug_assert!(      *)
(* _found)) and loses the keys below it.                                       *)
PointersAgree ==
  \A i \in 0 .. h - 1 : \A j \in 0 .. Width(i) - 1 :
    \E b \in levels[i] : /\ {c \in levels[i] : c.key = j} = {b}
                         /\ PointerTo(i, j) = {b.pos}

(* The table that the levels spell out: what an access to each key would find. *)
PM == INSTANCE PositionMap WITH
        table <- [k \in 0 .. Entries(n) - 1 |-> Trail(k)[h]],
        Positions <- PositionsOf(h, RandomBound)

(* However deep the recursion, an access returns the position last stored for  *)
(* its key, stores the new one, and changes that of no other key.              *)
ImplementsPositionMap == PM!Init /\ [][PM!Next]_mapVars
=================================================================================
