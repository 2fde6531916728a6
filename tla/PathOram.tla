------------------------------- MODULE PathOram -------------------------------
(* CircuitORAM (oram/src/circuit_oram.rs) at the level its callers reason      *)
(* about: a set of blocks, each in the stash or in a node of the path of its   *)
(* own position, and a client that remembers the position of every key.  What  *)
(* an eviction moves is left open here: any move down a block's own path that  *)
(* respects the bucket size.  Module CircuitORAM has the real eviction.        *)
EXTENDS HeapTree, FiniteSets, Maps

CONSTANTS Key, Value, Default, NoKey, NoValue,
          Z,           \* blocks per bucket
          S            \* stash slots

ASSUME BlockAssumption == /\ Default \in Value
                          /\ NoValue \notin Value /\ NoKey \notin Key
                          /\ Z \in Nat \ {0}
                          /\ S \in Nat \ {0}

VARIABLES blocks,      \* the full blocks: key, position, value and place
          pmap,        \* the client's position map
          ret          \* the last call and its answer

vars == <<blocks, pmap, ret>>

Stash == -1
Places == {Stash} \cup UNION {PathNodes(p) : p \in Positions}
Block  == [key : Key, pos : Positions, value : Value, at : Places]
Payload(b) == [key |-> b.key, pos |-> b.pos, value |-> b.value]

(* The tail of the stash holds the path of p, so a scan of the whole stash     *)
(* sees exactly these blocks.                                                  *)
Scanned(p) == {b \in blocks : b.at \in {Stash} \cup PathNodes(p)}
Matching(k, p) == {b \in Scanned(p) : b.key = k}

StashFull(s) == Cardinality({b \in s : b.at = Stash}) >= S

(* write_block_to_empty_slot on the first S slots: it fails silently when they *)
(* are all taken, and no caller looks at its result.                           *)
Stored(s, k, p, v) ==
  IF StashFull(s) THEN s
  ELSE s \cup {[key |-> k, pos |-> p, value |-> v, at |-> Stash]}

(* Evictions only move a block down its path, and never into the root bucket:  *)
(* the root is scanned together with the stash, and no level-0 slot is ever a  *)
(* destination.                                                                *)
Below(b) == {b.at} \cup {n \in PathNodes(b.pos) : n > b.at /\ n > 0}
Relocated(s) == UNION {{[b EXCEPT !.at = n] : n \in Below(b)} : b \in s}

Evict(s) ==
  /\ blocks' \in SUBSET Relocated(s)
  /\ {Payload(b) : b \in blocks'} = {Payload(b) : b \in s}
  /\ \A b, c \in blocks' : Payload(b) = Payload(c) => b = c
  /\ \A n \in Nodes : Cardinality({b \in blocks' : b.at = n}) <= Z

(* Where the client looks for k: the position it recorded, or, for a key it    *)
(* never stored, any position (callers pass a random or a stale one).          *)
At(k) == IF k \in DOMAIN pmap THEN {pmap[k]} ELSE Positions

Init == /\ blocks = {}
        /\ pmap = [k \in {} |-> 0]
        /\ ret = Answer("new", NoKey, FALSE, NoValue)

(* read, keeping the block: it is stored again under new_pos. *)
Read(k, pos, new_pos) ==
  LET hit == Matching(k, pos) IN
  \/ /\ hit = {}
     /\ ret' = Answer("read", k, FALSE, NoValue)
     /\ UNCHANGED pmap
     /\ Evict(blocks)
  \/ \E b \in hit :
       /\ ret' = Answer("read", k, TRUE, b.value)
       /\ pmap' = With(pmap, k, new_pos)
       /\ Evict(Stored(blocks \ hit, k, new_pos, b.value))

(* read with new_pos = DUMMY_POS: an empty block is stored back. *)
Take(k, pos) ==
  LET hit == Matching(k, pos) IN
  /\ pmap' = Without(pmap, k)
  /\ \/ hit = {} /\ ret' = Answer("take", k, FALSE, NoValue)
     \/ \E b \in hit : ret' = Answer("take", k, TRUE, b.value)
  /\ Evict(blocks \ hit)

(* Nothing is stored when the key is not found. *)
Write(k, pos, new_pos, val) ==
  LET hit == Matching(k, pos) IN
  /\ ret' = Answer("write", k, hit # {}, NoValue)
  /\ \/ hit = {} /\ UNCHANGED pmap /\ Evict(blocks)
     \/ /\ hit # {}
        /\ pmap' = With(pmap, k, new_pos)
        /\ Evict(Stored(blocks \ hit, k, new_pos, val))

WriteOrInsert(k, pos, new_pos, val) ==
  LET hit == Matching(k, pos) IN
  /\ pmap' = With(pmap, k, new_pos)
  /\ ret' = Answer("write_or_insert", k, hit # {}, NoValue)
  /\ Evict(Stored(blocks \ hit, k, new_pos, val))

(* write_or_insert with new_pos = DUMMY_POS. *)
Delete(k, pos) ==
  LET hit == Matching(k, pos) IN
  /\ pmap' = Without(pmap, k)
  /\ ret' = Answer("delete", k, hit # {}, NoValue)
  /\ Evict(blocks \ hit)

(* The closure given to update sees the old or the default value, returns it,  *)
(* and leaves val in its place.                                                *)
Update(k, pos, new_pos, val) ==
  LET hit == Matching(k, pos) IN
  /\ pmap' = With(pmap, k, new_pos)
  /\ \/ hit = {} /\ ret' = Answer("update", k, FALSE, Default)
     \/ \E b \in hit : ret' = Answer("update", k, TRUE, b.value)
  /\ Evict(Stored(blocks \ hit, k, new_pos, val))

Next == \E k \in Key : \E pos \in At(k) :
          \/ Take(k, pos)
          \/ Delete(k, pos)
          \/ \E new_pos \in Positions :
               \/ Read(k, pos, new_pos)
               \/ \E val \in Value :
                    \/ Write(k, pos, new_pos, val)
                    \/ WriteOrInsert(k, pos, new_pos, val)
                    \/ Update(k, pos, new_pos, val)

Spec == Init /\ [][Next]_vars
-------------------------------------------------------------------------------
TypeOK ==
  /\ blocks \subseteq Block
  /\ pmap \in UNION {[D -> Positions] : D \in SUBSET Key}
  /\ ret \in [op : Ops, key : Key \cup {NoKey},
           found : BOOLEAN, value : Value \cup {NoValue}]

(* read_and_remove_element and remove_element assert that a scan meets a key   *)
(* at most once: no key is ever in two blocks, in whatever places they are.    *)
UniqueKeys(s) == \A b, c \in s : b.key = c.key => b = c
OneBlockPerKey == UniqueKeys(blocks)

(* The path invariant of a tree ORAM: the client finds every block where its   *)
(* position map says, in the stash or on that path.                            *)
Agrees(s, m) == \A b \in s : /\ b.key \in DOMAIN m
                             /\ b.pos = m[b.key]
                             /\ b.at \in {Stash} \cup PathNodes(b.pos)
OnClientPath == Agrees(blocks, pmap)

(* Inv1 of the struct: there is an empty slot in the first S stash slots.      *)
Inv1 == ~StashFull(blocks)

(* The map a set of blocks stands for; a block dropped from a full stash is   *)
(* simply no longer there.                                                     *)
DictOf(s) == [k \in {b.key : b \in s} |-> (CHOOSE b \in s : b.key = k).value]
Dict == DictOf(blocks)

LossyMap == INSTANCE OramMap WITH dict <- Dict, Lossy <- TRUE
StrictMap == INSTANCE OramMap WITH dict <- Dict, Lossy <- FALSE

(* Every operation answers from, and changes, only the key it names, as a map  *)
(* does; at worst the block it moves is dropped when the stash overflows.      *)
ImplementsLossyMap == LossyMap!Spec

(* While Inv1 holds no operation drops anything.                               *)
ImplementsStrictMap == StrictMap!Spec
===============================================================================
