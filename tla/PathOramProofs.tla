----------------------------- MODULE PathOramProofs -----------------------------
(* The path invariant of the ORAM, and that its operations are those of a map, *)
(* for every tree height, bucket and stash size and every set of keys.         *)
EXTENDS PathOram, FiniteSetTheorems, TLAPS

IInv == TypeOK /\ OneBlockPerKey /\ OnClientPath /\ IsFiniteSet(blocks)

(* A set of blocks that could be the blocks of a client with position map m.   *)
Sound(s, m) == s \subseteq Block /\ UniqueKeys(s) /\ Agrees(s, m)

-------------------------------------------------------------------------------
(* Finite maps. *)

LEMMA WithType ==
  ASSUME NEW A, NEW B, NEW f \in UNION {[D -> B] : D \in SUBSET A},
         NEW k \in A, NEW v \in B
  PROVE  With(f, k, v) \in UNION {[D -> B] : D \in SUBSET A}
<1>1. PICK D \in SUBSET A : f \in [D -> B]
  OBVIOUS
<1>2. With(f, k, v) \in [D \cup {k} -> B]
  BY <1>1 DEF With
<1> QED
  BY <1>2

LEMMA WithoutType ==
  ASSUME NEW A, NEW B, NEW f \in UNION {[D -> B] : D \in SUBSET A}, NEW k
  PROVE  Without(f, k) \in UNION {[D -> B] : D \in SUBSET A}
<1>1. PICK D \in SUBSET A : f \in [D -> B]
  OBVIOUS
<1>2. Without(f, k) \in [D \ {k} -> B]
  BY <1>1 DEF Without
<1> QED
  BY <1>2

(* With unique keys the dictionary of a set of blocks has the value of the one *)
(* block of each key.                                                          *)
LEMMA DictValue ==
  ASSUME NEW s, UniqueKeys(s), NEW b \in s
  PROVE  b.key \in DOMAIN DictOf(s) /\ DictOf(s)[b.key] = b.value
<1>1. b.key \in {c.key : c \in s}
  OBVIOUS
<1>2. (CHOOSE c \in s : c.key = b.key) = b
  BY DEF UniqueKeys
<1> QED
  BY <1>1, <1>2 DEF DictOf

LEMMA DictIsFunction ==
  ASSUME NEW s
  PROVE  DictOf(s) = [j \in DOMAIN DictOf(s) |-> DictOf(s)[j]]
BY DEF DictOf

-------------------------------------------------------------------------------
(* The scan of an operation finds exactly the blocks of its key. *)
LEMMA ScanFindsAll ==
  ASSUME OnClientPath, NEW k \in Key, NEW pos \in At(k)
  PROVE  Matching(k, pos) = {b \in blocks : b.key = k}
<1>1. ASSUME NEW b \in blocks, b.key = k
      PROVE  b.at \in {Stash} \cup PathNodes(pos)
  <2>1. /\ k \in DOMAIN pmap
        /\ b.pos = pmap[k]
        /\ b.at \in {Stash} \cup PathNodes(b.pos)
    BY <1>1 DEF OnClientPath, Agrees
  <2>2. pos = pmap[k]
    BY <2>1 DEF At
  <2> QED
    BY <2>1, <2>2
<1> QED
  BY <1>1 DEF Matching, Scanned

(* Taking the blocks of a key away. *)
LEMMA RemoveKeeps ==
  ASSUME NEW m, Sound(blocks, m), NEW k, NEW hit, hit = {b \in blocks : b.key = k}
  PROVE  /\ Sound(blocks \ hit, m)
         /\ Sound(blocks \ hit, Without(m, k))
         /\ \A b \in blocks \ hit : b.key # k
         /\ DictOf(blocks \ hit) = Without(DictOf(blocks), k)
<1>1. Sound(blocks \ hit, m)
  BY DEF Sound, UniqueKeys, Agrees
<1>2. \A b \in blocks \ hit : b.key # k
  OBVIOUS
<1>3. Sound(blocks \ hit, Without(m, k))
  BY <1>1, <1>2 DEF Sound, Agrees, Without
<1>4. DictOf(blocks \ hit) = Without(DictOf(blocks), k)
  <2>1. {b.key : b \in blocks \ hit} = {b.key : b \in blocks} \ {k}
    OBVIOUS
  <2>2. ASSUME NEW j \in {b.key : b \in blocks \ hit}
        PROVE  DictOf(blocks \ hit)[j] = DictOf(blocks)[j]
    <3>1. PICK b \in blocks \ hit : b.key = j
      BY <2>2
    <3>2. DictOf(blocks \ hit)[j] = b.value
      BY <3>1, <1>1, DictValue DEF Sound
    <3>3. DictOf(blocks)[j] = b.value
      BY <3>1, DictValue DEF Sound
    <3> QED
      BY <3>2, <3>3
  <2>3. DOMAIN DictOf(blocks \ hit) = DOMAIN DictOf(blocks) \ {k}
    BY <2>1 DEF DictOf
  <2>4. \A j \in DOMAIN DictOf(blocks) \ {k} : DictOf(blocks \ hit)[j] = DictOf(blocks)[j]
    BY <2>1, <2>2 DEF DictOf
  <2> QED
    BY <2>3, <2>4, DictIsFunction DEF Without
<1> QED
  BY <1>1, <1>2, <1>3, <1>4

(* Storing a block of a key that has none: it is there, or the stash was full. *)
LEMMA StoreKeeps ==
  ASSUME NEW s, NEW m, Sound(s, m), NEW k \in Key, NEW p \in Positions, NEW v \in Value,
         \A b \in s : b.key # k
  PROVE  /\ Sound(Stored(s, k, p, v), With(m, k, p))
         /\ \/ StashFull(s) /\ DictOf(Stored(s, k, p, v)) = DictOf(s)
            \/ ~StashFull(s) /\ DictOf(Stored(s, k, p, v)) = With(DictOf(s), k, v)
<1> DEFINE new == [key |-> k, pos |-> p, value |-> v, at |-> Stash]
<1>1. Sound(s, With(m, k, p))
  BY DEF Sound, Agrees, With
<1>2. CASE StashFull(s)
  BY <1>1, <1>2 DEF Stored
<1>3. CASE ~StashFull(s)
  <2>1. Stored(s, k, p, v) = s \cup {new}
    BY <1>3 DEF Stored
  <2>2. s \cup {new} \subseteq Block
    BY DEF Sound, Block, Places
  <2>3. UniqueKeys(s \cup {new})
    BY DEF Sound, UniqueKeys
  <2>4. Agrees(s \cup {new}, With(m, k, p))
    BY <1>1 DEF Sound, Agrees, With
  <2>5. DictOf(s \cup {new}) = With(DictOf(s), k, v)
    <3>1. new.key = k /\ new.value = v
      OBVIOUS
    <3> HIDE DEF new
    <3>2. DOMAIN DictOf(s \cup {new}) = DOMAIN DictOf(s) \cup {k}
      BY <3>1 DEF DictOf
    <3>3. DictOf(s \cup {new})[k] = v
      BY <2>3, <3>1, DictValue
    <3>4. ASSUME NEW j \in DOMAIN DictOf(s), j # k
          PROVE  DictOf(s \cup {new})[j] = DictOf(s)[j]
      <4>1. PICK b \in s : b.key = j
        BY DEF DictOf
      <4>2. DictOf(s)[b.key] = b.value
        BY DictValue DEF Sound
      <4>3. DictOf(s \cup {new})[b.key] = b.value
        BY <2>3, DictValue
      <4> QED
        BY <4>1, <4>2, <4>3
    <3> QED
      BY <3>2, <3>3, <3>4, DictIsFunction DEF With
  <2> QED
    BY <1>3, <2>1, <2>2, <2>3, <2>4, <2>5 DEF Sound
<1> QED
  BY <1>2, <1>3

(* An eviction moves blocks and changes nothing else. *)
LEMMA EvictKeeps ==
  ASSUME NEW s, NEW m, Sound(s, m), Evict(s)
  PROVE  Sound(blocks', m) /\ DictOf(blocks') = DictOf(s)
<1>1. ASSUME NEW c \in blocks'
      PROVE  \E b \in s : /\ c \in Block
                          /\ b.key = c.key /\ b.pos = c.pos /\ b.value = c.value
                          /\ c.at \in {Stash} \cup PathNodes(c.pos)
  <2>1. PICK b \in s : \E n \in Below(b) : c = [b EXCEPT !.at = n]
    BY <1>1 DEF Evict, Relocated
  <2>2. PICK n \in Below(b) : c = [b EXCEPT !.at = n]
    BY <2>1
  <2>3. b \in Block
    BY DEF Sound
  <2>4. n \in {Stash} \cup PathNodes(b.pos)
    BY <2>2 DEF Below, Sound, Agrees
  <2>5. n \in Places
    BY <2>3, <2>4 DEF Places, Block
  <2> QED
    BY <2>2, <2>3, <2>4, <2>5 DEF Block
<1>2. blocks' \subseteq Block
  BY <1>1
<1>3. UniqueKeys(blocks')
  <2> SUFFICES ASSUME NEW c \in blocks', NEW d \in blocks', c.key = d.key
               PROVE  c = d
    BY DEF UniqueKeys
  <2>1. PICK b \in s : b.key = c.key /\ b.pos = c.pos /\ b.value = c.value
    BY <1>1
  <2>2. PICK e \in s : e.key = d.key /\ e.pos = d.pos /\ e.value = d.value
    BY <1>1
  <2>3. b = e
    BY <2>1, <2>2 DEF Sound, UniqueKeys
  <2>4. Payload(c) = Payload(d)
    BY <2>1, <2>2, <2>3 DEF Payload
  <2> QED
    BY <2>4 DEF Evict
<1>4. Agrees(blocks', m)
  BY <1>1 DEF Sound, Agrees
<1>5. ASSUME NEW b \in s
      PROVE  \E c \in blocks' : c.key = b.key /\ c.value = b.value
  <2>1. Payload(b) \in {Payload(c) : c \in blocks'}
    BY DEF Evict
  <2>2. PICK c \in blocks' : Payload(c) = Payload(b)
    BY <2>1
  <2> QED
    BY <2>2 DEF Payload
<1>6. {c.key : c \in blocks'} = {b.key : b \in s}
  BY <1>1, <1>5
<1>7. ASSUME NEW j \in {b.key : b \in s}
      PROVE  DictOf(blocks')[j] = DictOf(s)[j]
  <2>1. PICK b \in s : b.key = j
    OBVIOUS
  <2>2. PICK c \in blocks' : c.key = b.key /\ c.value = b.value
    BY <1>5
  <2> QED
    BY <2>1, <2>2, <1>3, DictValue DEF Sound
<1> QED
  BY <1>2, <1>3, <1>4, <1>6, <1>7 DEF Sound, DictOf

LEMMA EvictFinite ==
  ASSUME NEW s, NEW m, Sound(s, m), IsFiniteSet(s), Evict(s)
  PROVE  IsFiniteSet(blocks')
<1> DEFINE from == [c \in blocks' |-> CHOOSE b \in s : Payload(b) = Payload(c)]
<1>1. ASSUME NEW c \in blocks'
      PROVE  from[c] \in s /\ Payload(from[c]) = Payload(c)
  <2>1. Payload(c) \in {Payload(b) : b \in s}
    BY DEF Evict
  <2> QED
    BY <2>1
<1>2. ASSUME NEW c \in blocks', NEW d \in blocks', from[c] = from[d]
      PROVE  c = d
  <2>1. Payload(c) = Payload(d)
    BY <1>1, <1>2
  <2> QED
    BY <2>1 DEF Evict
<1>3. from \in Injection(blocks', s)
  BY <1>1, <1>2 DEF Injection, IsInjective
<1> QED
  BY <1>3, FS_Injection

-------------------------------------------------------------------------------
(* What an operation does to the blocks, in the three cases there are. *)

LEMMA HitValue ==
  ASSUME IInv, NEW k \in Key, NEW pos \in At(k)
  PROVE  /\ Matching(k, pos) = {} <=> k \notin DOMAIN Dict
         /\ \A b \in Matching(k, pos) : Dict[k] = b.value /\ b.value \in Value
<1>1. Matching(k, pos) = {b \in blocks : b.key = k}
  BY ScanFindsAll DEF IInv
<1>2. DOMAIN Dict = {b.key : b \in blocks}
  BY DEF Dict, DictOf
<1>3. ASSUME NEW b \in Matching(k, pos)
      PROVE  Dict[k] = b.value /\ b.value \in Value
  <2>1. b \in blocks /\ b.key = k
    BY <1>1
  <2>2. b.value \in Value
    BY <2>1 DEF IInv, TypeOK, Block
  <2> QED
    BY <2>1, <2>2, DictValue DEF IInv, OneBlockPerKey, Dict
<1> QED
  BY <1>1, <1>2, <1>3

LEMMA RoomInStash ==
  ASSUME IsFiniteSet(blocks), Inv1, NEW hit
  PROVE  ~StashFull(blocks \ hit)
<1> DEFINE all  == {b \in blocks : b.at = Stash}
           rest == {b \in blocks \ hit : b.at = Stash}
<1>1. IsFiniteSet(all)
  BY FS_Subset
<1>2. rest \in SUBSET all
  OBVIOUS
<1>3. Cardinality(rest) <= Cardinality(all)
  BY <1>1, <1>2, FS_Subset
<1>4. Cardinality(rest) \in Nat /\ Cardinality(all) \in Nat
  BY <1>1, <1>2, FS_Subset, FS_CardinalityType
<1> QED
  BY <1>3, <1>4, BlockAssumption DEF Inv1, StashFull

LEMMA Replace ==
  ASSUME IInv, NEW k \in Key, NEW pos \in At(k), NEW p \in Positions, NEW v \in Value,
         Evict(Stored(blocks \ Matching(k, pos), k, p, v))
  PROVE  /\ Sound(blocks', With(pmap, k, p))
         /\ IsFiniteSet(blocks')
         /\ Dict' = With(Dict, k, v) \/ Dict' = Without(Dict, k)
         /\ Inv1 => Dict' = With(Dict, k, v)
<1> DEFINE hit  == Matching(k, pos)
           rest == blocks \ hit
<1>1. hit = {b \in blocks : b.key = k}
  BY ScanFindsAll DEF IInv
<1>2. Sound(blocks, pmap)
  BY DEF IInv, TypeOK, OneBlockPerKey, OnClientPath, Sound
<1>3. /\ Sound(rest, pmap)
      /\ \A b \in rest : b.key # k
      /\ DictOf(rest) = Without(Dict, k)
  BY <1>1, <1>2, RemoveKeeps DEF Dict
<1>4. /\ Sound(Stored(rest, k, p, v), With(pmap, k, p))
      /\ \/ StashFull(rest) /\ DictOf(Stored(rest, k, p, v)) = DictOf(rest)
         \/ ~StashFull(rest) /\ DictOf(Stored(rest, k, p, v)) = With(DictOf(rest), k, v)
  BY <1>3, StoreKeeps
<1>5. Sound(blocks', With(pmap, k, p)) /\ DictOf(blocks') = DictOf(Stored(rest, k, p, v))
  BY <1>4, EvictKeeps
<1>6. IsFiniteSet(Stored(rest, k, p, v))
  <2>1. IsFiniteSet(rest)
    BY FS_Subset DEF IInv
  <2> QED
    BY <2>1, FS_AddElement DEF Stored
<1>7. IsFiniteSet(blocks')
  BY <1>4, <1>6, EvictFinite
<1>8. With(Without(Dict, k), k, v) = With(Dict, k, v)
  BY DEF With, Without
<1>9. Inv1 => ~StashFull(rest)
  BY RoomInStash DEF IInv
<1> QED
  BY <1>3, <1>4, <1>5, <1>7, <1>8, <1>9 DEF Dict

LEMMA Drop ==
  ASSUME IInv, NEW k \in Key, NEW pos \in At(k), Evict(blocks \ Matching(k, pos))
  PROVE  /\ Sound(blocks', Without(pmap, k))
         /\ IsFiniteSet(blocks')
         /\ Dict' = Without(Dict, k)
<1> DEFINE hit  == Matching(k, pos)
           rest == blocks \ hit
<1>1. hit = {b \in blocks : b.key = k}
  BY ScanFindsAll DEF IInv
<1>2. Sound(blocks, pmap)
  BY DEF IInv, TypeOK, OneBlockPerKey, OnClientPath, Sound
<1>3. Sound(rest, Without(pmap, k)) /\ DictOf(rest) = Without(Dict, k)
  BY <1>1, <1>2, RemoveKeeps DEF Dict
<1>4. IsFiniteSet(rest)
  BY FS_Subset DEF IInv
<1> QED
  BY <1>3, <1>4, EvictKeeps, EvictFinite DEF Dict

LEMMA Keep ==
  ASSUME IInv, Evict(blocks)
  PROVE  Sound(blocks', pmap) /\ IsFiniteSet(blocks') /\ Dict' = Dict
<1>1. Sound(blocks, pmap) /\ IsFiniteSet(blocks)
  BY DEF IInv, TypeOK, OneBlockPerKey, OnClientPath, Sound
<1> QED
  BY <1>1, EvictKeeps, EvictFinite DEF Dict

-------------------------------------------------------------------------------
(* Every operation preserves the invariant and is the operation of that name   *)
(* on the map.                                                                 *)

PmapType == UNION {[D -> Positions] : D \in SUBSET Key}
RetType  == [op : Ops, key : Key \cup {NoKey}, found : BOOLEAN, value : Value \cup {NoValue}]

LEMMA Assemble ==
  ASSUME Sound(blocks', pmap'), IsFiniteSet(blocks'), pmap' \in PmapType, ret' \in RetType
  PROVE  IInv'
BY DEF IInv, TypeOK, OneBlockPerKey, OnClientPath, Sound, PmapType, RetType

LEMMA AnswerType ==
  ASSUME NEW op \in Ops, NEW k \in Key, NEW found \in BOOLEAN, NEW v \in Value \cup {NoValue}
  PROVE  Answer(op, k, found, v) \in RetType
BY DEF Answer, RetType

LEMMA PmapSteps ==
  ASSUME IInv, NEW k \in Key
  PROVE  /\ pmap \in PmapType
         /\ \A p \in Positions : With(pmap, k, p) \in PmapType
         /\ Without(pmap, k) \in PmapType
<1>1. pmap \in UNION {[D -> Positions] : D \in SUBSET Key}
  BY DEF IInv, TypeOK
<1> QED
  BY <1>1, WithType, WithoutType DEF PmapType

(* The helpers of OramMap are the same operators in both of its instances.     *)
LEMMA SameHelpers ==
  /\ \A op, k, found, v : /\ LossyMap!Answer(op, k, found, v) = Answer(op, k, found, v)
                          /\ StrictMap!Answer(op, k, found, v) = Answer(op, k, found, v)
  /\ \A f, k, v : /\ LossyMap!With(f, k, v) = With(f, k, v)
                  /\ StrictMap!With(f, k, v) = With(f, k, v)
  /\ \A f, k : /\ LossyMap!Without(f, k) = Without(f, k)
               /\ StrictMap!Without(f, k) = Without(f, k)
BY DEF LossyMap!Answer, StrictMap!Answer, Answer, LossyMap!With, StrictMap!With, With,
       LossyMap!Without, StrictMap!Without, Without

LEMMA ReadStep ==
  ASSUME IInv, NEW k \in Key, NEW pos \in At(k), NEW new_pos \in Positions,
         Read(k, pos, new_pos)
  PROVE  IInv' /\ LossyMap!Read(k) /\ (Inv1 => StrictMap!Read(k))
<1> DEFINE hit == Matching(k, pos)
<1>1. CASE hit = {} /\ ret' = Answer("read", k, FALSE, NoValue) /\ UNCHANGED pmap /\ Evict(blocks)
  <2>1. Sound(blocks', pmap') /\ IsFiniteSet(blocks') /\ Dict' = Dict
    BY <1>1, Keep
  <2>2. ret' \in RetType
    BY <1>1, AnswerType DEF Ops
  <2>3. pmap' \in PmapType
    BY <1>1, PmapSteps
  <2>4. (k \in DOMAIN Dict) = FALSE
    BY <1>1, HitValue
  <2>5. ret' = Answer("read", k, k \in DOMAIN Dict, NoValue)
    BY <1>1, <2>4
  <2>6. LossyMap!Lookup(k, NoValue) = NoValue /\ StrictMap!Lookup(k, NoValue) = NoValue
    BY <2>4 DEF LossyMap!Lookup, StrictMap!Lookup
  <2>7. LossyMap!Read(k) /\ StrictMap!Read(k)
    BY <2>1, <2>4, <2>5, <2>6, SameHelpers DEF LossyMap!Read, StrictMap!Read
  <2> QED
    BY <2>1, <2>2, <2>3, <2>7, Assemble
<1>2. ASSUME NEW b \in hit,
             ret' = Answer("read", k, TRUE, b.value),
             pmap' = With(pmap, k, new_pos),
             Evict(Stored(blocks \ hit, k, new_pos, b.value))
      PROVE  IInv' /\ LossyMap!Read(k) /\ (Inv1 => StrictMap!Read(k))
  <2>1. k \in DOMAIN Dict /\ Dict[k] = b.value /\ b.value \in Value
    BY HitValue
  <2>2. /\ Sound(blocks', pmap') /\ IsFiniteSet(blocks')
        /\ Dict' = With(Dict, k, b.value) \/ Dict' = Without(Dict, k)
        /\ Inv1 => Dict' = With(Dict, k, b.value)
    BY <1>2, <2>1, Replace
  <2>3. ret' \in RetType
    BY <1>2, <2>1, AnswerType DEF Ops
  <2>4. pmap' \in PmapType
    BY <1>2, PmapSteps
  <2> QED
    BY <1>2, <2>1, <2>2, <2>3, <2>4, Assemble, SameHelpers
    DEF LossyMap!Read, StrictMap!Read, LossyMap!Lookup, StrictMap!Lookup,
        LossyMap!Put, StrictMap!Put
<1> QED
  BY <1>1, <1>2 DEF Read

(* hit is empty exactly when the map has no k; what the map would answer.      *)
LEMMA MapAnswers ==
  ASSUME IInv, NEW k \in Key, NEW pos \in At(k), NEW other
  PROVE  /\ (Matching(k, pos) # {}) = (k \in DOMAIN Dict)
         /\ Matching(k, pos) = {} =>
              /\ (k \in DOMAIN Dict) = FALSE
              /\ LossyMap!Lookup(k, other) = other
              /\ StrictMap!Lookup(k, other) = other
         /\ \A b \in Matching(k, pos) :
              /\ (k \in DOMAIN Dict) = TRUE
              /\ LossyMap!Lookup(k, other) = b.value
              /\ StrictMap!Lookup(k, other) = b.value
              /\ b.value \in Value
BY HitValue DEF LossyMap!Lookup, StrictMap!Lookup

(* Storing v for k, as a map with or without loss does it. *)
LEMMA PutSteps ==
  ASSUME NEW k, NEW v, Dict' = With(Dict, k, v) \/ Dict' = Without(Dict, k),
         Inv1 => Dict' = With(Dict, k, v)
  PROVE  LossyMap!Put(k, v) /\ (Inv1 => StrictMap!Put(k, v))
BY SameHelpers DEF LossyMap!Put, StrictMap!Put

LEMMA TakeStep ==
  ASSUME IInv, NEW k \in Key, NEW pos \in At(k), Take(k, pos)
  PROVE  IInv' /\ LossyMap!Take(k) /\ StrictMap!Take(k)
<1> DEFINE hit == Matching(k, pos)
<1>1. pmap' = Without(pmap, k) /\ Evict(blocks \ hit)
  BY DEF Take
<1>2. Sound(blocks', pmap') /\ IsFiniteSet(blocks') /\ Dict' = Without(Dict, k)
  BY <1>1, Drop
<1>3. pmap' \in PmapType
  BY <1>1, PmapSteps
<1>4. CASE hit = {} /\ ret' = Answer("take", k, FALSE, NoValue)
  <2>1. ret' \in RetType
    BY <1>4, AnswerType DEF Ops
  <2>2. /\ ret' = Answer("take", k, k \in DOMAIN Dict, LossyMap!Lookup(k, NoValue))
        /\ ret' = Answer("take", k, k \in DOMAIN Dict, StrictMap!Lookup(k, NoValue))
    BY <1>4, MapAnswers
  <2> QED
    BY <1>2, <1>3, <2>1, <2>2, Assemble, SameHelpers DEF LossyMap!Take, StrictMap!Take
<1>5. ASSUME NEW b \in hit, ret' = Answer("take", k, TRUE, b.value)
      PROVE  IInv' /\ LossyMap!Take(k) /\ StrictMap!Take(k)
  <2>1. ret' \in RetType
    BY <1>5, MapAnswers, AnswerType DEF Ops
  <2>2. /\ ret' = Answer("take", k, k \in DOMAIN Dict, LossyMap!Lookup(k, NoValue))
        /\ ret' = Answer("take", k, k \in DOMAIN Dict, StrictMap!Lookup(k, NoValue))
    BY <1>5, MapAnswers
  <2> QED
    BY <1>2, <1>3, <2>1, <2>2, Assemble, SameHelpers DEF LossyMap!Take, StrictMap!Take
<1> QED
  BY <1>4, <1>5 DEF Take

LEMMA DeleteStep ==
  ASSUME IInv, NEW k \in Key, NEW pos \in At(k), Delete(k, pos)
  PROVE  IInv' /\ LossyMap!Delete(k) /\ StrictMap!Delete(k)
<1> DEFINE hit == Matching(k, pos)
<1>1. /\ pmap' = Without(pmap, k) /\ Evict(blocks \ hit)
      /\ ret' = Answer("delete", k, hit # {}, NoValue)
  BY DEF Delete
<1>2. Sound(blocks', pmap') /\ IsFiniteSet(blocks') /\ Dict' = Without(Dict, k)
  BY <1>1, Drop
<1>3. pmap' \in PmapType
  BY <1>1, PmapSteps
<1>4. ret' \in RetType
  BY <1>1, AnswerType DEF Ops
<1>5. ret' = Answer("delete", k, k \in DOMAIN Dict, NoValue)
  BY <1>1, MapAnswers
<1> QED
  BY <1>2, <1>3, <1>4, <1>5, Assemble, SameHelpers DEF LossyMap!Delete, StrictMap!Delete

LEMMA WriteStep ==
  ASSUME IInv, NEW k \in Key, NEW pos \in At(k), NEW new_pos \in Positions,
         NEW val \in Value, Write(k, pos, new_pos, val)
  PROVE  IInv' /\ LossyMap!Write(k, val) /\ (Inv1 => StrictMap!Write(k, val))
<1> DEFINE hit == Matching(k, pos)
<1>1. ret' = Answer("write", k, hit # {}, NoValue)
  BY DEF Write
<1>2. ret' \in RetType
  BY <1>1, AnswerType DEF Ops
<1>3. ret' = Answer("write", k, k \in DOMAIN Dict, NoValue)
  BY <1>1, MapAnswers
<1>4. CASE hit = {} /\ UNCHANGED pmap /\ Evict(blocks)
  <2>1. Sound(blocks', pmap') /\ IsFiniteSet(blocks') /\ Dict' = Dict
    BY <1>4, Keep
  <2>2. pmap' \in PmapType
    BY <1>4, PmapSteps
  <2>3. (k \in DOMAIN Dict) = FALSE
    BY <1>4, MapAnswers
  <2> QED
    BY <1>2, <1>3, <2>1, <2>2, <2>3, Assemble, SameHelpers DEF LossyMap!Write, StrictMap!Write
<1>5. CASE /\ hit # {}
           /\ pmap' = With(pmap, k, new_pos)
           /\ Evict(Stored(blocks \ hit, k, new_pos, val))
  <2>1. /\ Sound(blocks', pmap') /\ IsFiniteSet(blocks')
        /\ Dict' = With(Dict, k, val) \/ Dict' = Without(Dict, k)
        /\ Inv1 => Dict' = With(Dict, k, val)
    BY <1>5, Replace
  <2>2. pmap' \in PmapType
    BY <1>5, PmapSteps
  <2>3. k \in DOMAIN Dict
    BY <1>5, MapAnswers
  <2>4. LossyMap!Put(k, val) /\ (Inv1 => StrictMap!Put(k, val))
    BY <2>1, PutSteps
  <2> QED
    BY <1>2, <1>3, <2>1, <2>2, <2>3, <2>4, Assemble, SameHelpers
    DEF LossyMap!Write, StrictMap!Write
<1> QED
  BY <1>4, <1>5 DEF Write

LEMMA WriteOrInsertStep ==
  ASSUME IInv, NEW k \in Key, NEW pos \in At(k), NEW new_pos \in Positions,
         NEW val \in Value, WriteOrInsert(k, pos, new_pos, val)
  PROVE  IInv' /\ LossyMap!WriteOrInsert(k, val) /\ (Inv1 => StrictMap!WriteOrInsert(k, val))
<1> DEFINE hit == Matching(k, pos)
<1>1. /\ pmap' = With(pmap, k, new_pos)
      /\ ret' = Answer("write_or_insert", k, hit # {}, NoValue)
      /\ Evict(Stored(blocks \ hit, k, new_pos, val))
  BY DEF WriteOrInsert
<1>2. /\ Sound(blocks', pmap') /\ IsFiniteSet(blocks')
      /\ Dict' = With(Dict, k, val) \/ Dict' = Without(Dict, k)
      /\ Inv1 => Dict' = With(Dict, k, val)
  BY <1>1, Replace
<1>3. pmap' \in PmapType
  BY <1>1, PmapSteps
<1>4. ret' \in RetType
  BY <1>1, AnswerType DEF Ops
<1>5. ret' = Answer("write_or_insert", k, k \in DOMAIN Dict, NoValue)
  BY <1>1, MapAnswers
<1>6. LossyMap!Put(k, val) /\ (Inv1 => StrictMap!Put(k, val))
  BY <1>2, PutSteps
<1> QED
  BY <1>2, <1>3, <1>4, <1>5, <1>6, Assemble, SameHelpers
  DEF LossyMap!WriteOrInsert, StrictMap!WriteOrInsert

LEMMA UpdateStep ==
  ASSUME IInv, NEW k \in Key, NEW pos \in At(k), NEW new_pos \in Positions,
         NEW val \in Value, Update(k, pos, new_pos, val)
  PROVE  IInv' /\ LossyMap!Update(k, val) /\ (Inv1 => StrictMap!Update(k, val))
<1> DEFINE hit == Matching(k, pos)
<1>1. /\ pmap' = With(pmap, k, new_pos)
      /\ Evict(Stored(blocks \ hit, k, new_pos, val))
  BY DEF Update
<1>2. /\ Sound(blocks', pmap') /\ IsFiniteSet(blocks')
      /\ Dict' = With(Dict, k, val) \/ Dict' = Without(Dict, k)
      /\ Inv1 => Dict' = With(Dict, k, val)
  BY <1>1, Replace
<1>3. pmap' \in PmapType
  BY <1>1, PmapSteps
<1>4. LossyMap!Put(k, val) /\ (Inv1 => StrictMap!Put(k, val))
  BY <1>2, PutSteps
<1>5. CASE hit = {} /\ ret' = Answer("update", k, FALSE, Default)
  <2>1. ret' \in RetType
    BY <1>5, AnswerType, BlockAssumption DEF Ops
  <2>2. /\ ret' = Answer("update", k, k \in DOMAIN Dict, LossyMap!Lookup(k, Default))
        /\ ret' = Answer("update", k, k \in DOMAIN Dict, StrictMap!Lookup(k, Default))
    BY <1>5, MapAnswers
  <2> QED
    BY <1>2, <1>3, <1>4, <2>1, <2>2, Assemble, SameHelpers DEF LossyMap!Update, StrictMap!Update
<1>6. ASSUME NEW b \in hit, ret' = Answer("update", k, TRUE, b.value)
      PROVE  IInv' /\ LossyMap!Update(k, val) /\ (Inv1 => StrictMap!Update(k, val))
  <2>1. ret' \in RetType
    BY <1>6, MapAnswers, AnswerType DEF Ops
  <2>2. /\ ret' = Answer("update", k, k \in DOMAIN Dict, LossyMap!Lookup(k, Default))
        /\ ret' = Answer("update", k, k \in DOMAIN Dict, StrictMap!Lookup(k, Default))
    BY <1>6, MapAnswers
  <2> QED
    BY <1>2, <1>3, <1>4, <2>1, <2>2, Assemble, SameHelpers DEF LossyMap!Update, StrictMap!Update
<1> QED
  BY <1>5, <1>6 DEF Update

-------------------------------------------------------------------------------
(* A step of the ORAM is a step of the map, or leaves the map alone. *)
MapStep == /\ LossyMap!Next
           /\ Inv1 => StrictMap!Next

LEMMA NextStep ==
  ASSUME IInv, Next
  PROVE  IInv' /\ MapStep
<1>0. PICK k \in Key : \E pos \in At(k) :
        \/ Take(k, pos)
        \/ Delete(k, pos)
        \/ \E new_pos \in Positions :
             \/ Read(k, pos, new_pos)
             \/ \E val \in Value :
                  \/ Write(k, pos, new_pos, val)
                  \/ WriteOrInsert(k, pos, new_pos, val)
                  \/ Update(k, pos, new_pos, val)
  BY DEF Next
<1>1. PICK pos \in At(k) :
        \/ Take(k, pos)
        \/ Delete(k, pos)
        \/ \E new_pos \in Positions :
             \/ Read(k, pos, new_pos)
             \/ \E val \in Value :
                  \/ Write(k, pos, new_pos, val)
                  \/ WriteOrInsert(k, pos, new_pos, val)
                  \/ Update(k, pos, new_pos, val)
  BY <1>0
<1>2. CASE Take(k, pos)
  BY <1>2, TakeStep DEF MapStep, LossyMap!Next, StrictMap!Next
<1>3. CASE Delete(k, pos)
  BY <1>3, DeleteStep DEF MapStep, LossyMap!Next, StrictMap!Next
<1>4. ASSUME NEW new_pos \in Positions, Read(k, pos, new_pos)
      PROVE  IInv' /\ MapStep
  BY <1>4, ReadStep DEF MapStep, LossyMap!Next, StrictMap!Next
<1>5. ASSUME NEW new_pos \in Positions, NEW val \in Value, Write(k, pos, new_pos, val)
      PROVE  IInv' /\ MapStep
  BY <1>5, WriteStep DEF MapStep, LossyMap!Next, StrictMap!Next
<1>6. ASSUME NEW new_pos \in Positions, NEW val \in Value, WriteOrInsert(k, pos, new_pos, val)
      PROVE  IInv' /\ MapStep
  BY <1>6, WriteOrInsertStep DEF MapStep, LossyMap!Next, StrictMap!Next
<1>7. ASSUME NEW new_pos \in Positions, NEW val \in Value, Update(k, pos, new_pos, val)
      PROVE  IInv' /\ MapStep
  BY <1>7, UpdateStep DEF MapStep, LossyMap!Next, StrictMap!Next
<1> QED
  BY <1>1, <1>2, <1>3, <1>4, <1>5, <1>6, <1>7

LEMMA InitEstablishes == Init => IInv /\ LossyMap!Init /\ StrictMap!Init
<1> SUFFICES ASSUME Init PROVE IInv /\ LossyMap!Init /\ StrictMap!Init
  OBVIOUS
<1>1. blocks = {} /\ pmap = [k \in {} |-> 0] /\ ret = Answer("new", NoKey, FALSE, NoValue)
  BY DEF Init
<1>2. pmap \in UNION {[D -> Positions] : D \in SUBSET Key}
  <2>1. pmap \in [{} -> Positions]
    BY <1>1
  <2> QED
    BY <2>1
<1>3. TypeOK
  BY <1>1, <1>2 DEF TypeOK, Answer, Ops
<1>4. IInv
  BY <1>1, <1>3, FS_EmptySet DEF IInv, OneBlockPerKey, UniqueKeys, OnClientPath, Agrees
<1>5. Dict = [k \in {} |-> NoValue]
  BY <1>1 DEF Dict, DictOf
<1> QED
  BY <1>1, <1>4, <1>5, SameHelpers DEF LossyMap!Init, StrictMap!Init

LEMMA StutterStep ==
  ASSUME IInv, UNCHANGED vars
  PROVE  IInv' /\ UNCHANGED <<Dict, ret>>
BY DEF IInv, TypeOK, OneBlockPerKey, OnClientPath, UniqueKeys, Agrees, vars, Dict, DictOf

LEMMA Invariance == Spec => []IInv
<1>1. Init => IInv
  BY InitEstablishes
<1>2. IInv /\ [Next]_vars => IInv'
  BY NextStep, StutterStep
<1> QED
  BY <1>1, <1>2, PTL DEF Spec

(* The variables keep their types. *)
THEOREM TypeCorrect == Spec => []TypeOK
<1>1. IInv => TypeOK
  BY DEF IInv
<1> QED
  BY <1>1, Invariance, PTL

(* No key is ever held by two blocks, so the debug assertions of the removal   *)
(* scans hold, whatever the sizes of stash, buckets and tree.                  *)
THEOREM KeysAreUnique == Spec => []OneBlockPerKey
<1>1. IInv => OneBlockPerKey
  BY DEF IInv
<1> QED
  BY <1>1, Invariance, PTL

(* The path invariant: a block is in the stash or on the path of the position  *)
(* its client remembers.                                                       *)
THEOREM PathInvariant == Spec => []OnClientPath
<1>1. IInv => OnClientPath
  BY DEF IInv
<1> QED
  BY <1>1, Invariance, PTL

(* The ORAM is a map that can at worst lose the block an operation moves. *)
THEOREM OramIsLossyMap == Spec => ImplementsLossyMap
<1>1. Init => LossyMap!Init
  BY InitEstablishes
<1>2. IInv /\ [Next]_vars => [LossyMap!Next]_(LossyMap!mapVars)
  BY NextStep, StutterStep DEF MapStep, LossyMap!mapVars
<1> QED
  BY <1>1, <1>2, Invariance, PTL DEF Spec, ImplementsLossyMap, LossyMap!Spec

(* As long as Inv1 holds, that is, every operation starts with an empty stash  *)
(* slot, the ORAM is exactly a map: the "Succeeds due to Inv1" of the code.    *)
THEOREM OramIsMapUnderInv1 == Spec /\ []Inv1 => ImplementsStrictMap
<1>1. Init => StrictMap!Init
  BY InitEstablishes
<1>2. IInv /\ Inv1 /\ [Next]_vars => [StrictMap!Next]_(StrictMap!mapVars)
  BY NextStep, StutterStep DEF MapStep, StrictMap!mapVars
<1> QED
  BY <1>1, <1>2, Invariance, PTL DEF Spec, ImplementsStrictMap, StrictMap!Spec
===============================================================================
