--------------------------- MODULE UnsortedMapProofs ---------------------------
(* The cuckoo hash map neither loses nor copies an element, for every table,   *)
(* bucket and queue size, every choice of victims and every pair of hash       *)
(* functions.                                                                  *)
EXTENDS UnsortedMap, FiniteSetTheorems, TLAPS

(* The lemmas about the queue, whose operators are those of UnsortedMap.       *)
Q == INSTANCE ShortQueueProofs WITH
       N <- INSERTION_QUEUE_MAX_SIZE, Element <- InlineElement,
       DefaultElement <- Elem(DefaultKey, Default),
       queue <- insertion_queue, out <- Elem(DefaultKey, Default)

Tables == [{0, 1} -> [Buckets -> SUBSET InlineElement]]

(* Every element of a table is in the bucket of its own key; no key is in two  *)
(* places of the tables and the queue.                                         *)
Homed(tab) == \A t \in {0, 1} : \A b \in Buckets : \A e \in tab[t][b] :
                hash_key[t][e.key] = b

CellsApart(tab) ==
  \A t, u \in {0, 1} : \A b, c \in Buckets : \A e \in tab[t][b], f \in tab[u][c] :
    e.key = f.key => t = u /\ b = c /\ e = f

SlotsApart(q) == \A r, s \in Enqueued(q) :
                   q.elements[r].value.key = q.elements[s].value.key => r = s

Queued(q) == {q.elements[s].value : s \in Enqueued(q)}
Celled(tab) == UNION {UNION {tab[t][b] : b \in Buckets} : t \in {0, 1}}
Keys(elements) == {e.key : e \in elements}

Sound(tab, q) == /\ tab \in Tables /\ Homed(tab) /\ CellsApart(tab)
                 /\ Q!Sound(q) /\ SlotsApart(q)
                 /\ Keys(Celled(tab)) \cap Keys(Queued(q)) = {}

IInv == /\ Sound(table, insertion_queue)
        /\ hash_key \in HashFunctions
        /\ IsFiniteSet(Present) /\ size = Cardinality(Present)

-------------------------------------------------------------------------------
(* The queue. *)

LEMMA QueueConstants == Q!QueueAssumption
BY MapAssumption DEF Q!QueueAssumption, InlineElement, Elem

LEMMA SameQueue ==
  /\ \A q : Q!Enqueued(q) = Enqueued(q)
  /\ \A q, e : Q!Pushed(q, e) = Pushed(q, e)
  /\ \A q : Q!Popped(q) = Popped(q)
  /\ \A q : Q!Oldest(q) = Oldest(q)
  /\ \A q, x : Q!Front(q, x) = Front(q, x)
  /\ Q!NewQueue = NewQueue
  /\ Q!QSlots = QSlots
  /\ \A S : Q!Min(S) = Min(S)
<1>1. Q!QSlots = QSlots
  BY DEF Q!QSlots, QSlots
<1>2. \A q : Q!Enqueued(q) = Enqueued(q)
  BY <1>1 DEF Q!Enqueued, Enqueued
<1>3. \A q : Q!Oldest(q) = Oldest(q)
  BY <1>1 DEF Q!Oldest, Oldest
<1>4. /\ \A S : Q!Min(S) = Min(S)
      /\ \A S : Q!Max(S) = Max(S)
  BY DEF Q!Min, Min, Q!Max, Max
<1>5. \A q, S : Q!Timestamps(q, S) = Timestamps(q, S) /\ Q!Cleared(q, S) = Cleared(q, S)
  BY <1>1 DEF Q!Timestamps, Timestamps, Q!Cleared, Cleared
<1>6. \A q, e : Q!Pushed(q, e) = Pushed(q, e)
  BY <1>1, <1>2, <1>4, <1>5 DEF Q!Pushed, Pushed
<1>7. \A q : Q!Popped(q) = Popped(q)
  BY <1>2, <1>3, <1>4, <1>5 DEF Q!Popped, Popped
<1>8. \A q, x : Q!Front(q, x) = Front(q, x)
  BY <1>3, <1>4 DEF Q!Front, Front
<1>9. Q!NewQueue = NewQueue
  BY <1>1 DEF Q!NewQueue, NewQueue
<1> QED
  BY <1>1, <1>2, <1>3, <1>4, <1>6, <1>7, <1>8, <1>9

LEMMA SameCardinality == \A S : Q!Cardinality(S) = Cardinality(S)
BY DEF Q!Cardinality, Cardinality, Q!IsFiniteSet, IsFiniteSet

(* A push fills one more slot, a pop empties the slot of what it returns; no   *)
(* other queued element changes.                                               *)
LEMMA QueuePush ==
  ASSUME NEW q, Q!Sound(q), q.size < INSERTION_QUEUE_MAX_SIZE,
         q.highest_timestamp < MaxTimestamp, NEW e \in InlineElement
  PROVE  LET r == Pushed(q, e) IN
         /\ Q!Sound(r) /\ r.size = q.size + 1
         /\ r.highest_timestamp = q.highest_timestamp + 1
         /\ \E s : /\ s \notin Enqueued(q) /\ Enqueued(r) = Enqueued(q) \cup {s}
                   /\ r.elements[s].value = e
                   /\ \A o \in Enqueued(q) : r.elements[o].value = q.elements[o].value
<1> DEFINE r == Q!Pushed(q, e)
           s == Q!Min(Q!QSlots \ Q!Enqueued(q))
<1>1. /\ s \in Q!QSlots \ Q!Enqueued(q)
      /\ r.highest_timestamp = q.highest_timestamp + 1 /\ r.size = q.size + 1
      /\ r.elements = [q.elements EXCEPT
                         ![s] = [timestamp |-> q.highest_timestamp + 1, value |-> e]]
      /\ Q!Enqueued(r) = Q!Enqueued(q) \cup {s}
  BY Q!PushedFields, QueueConstants
<1>2. q.elements \in [Q!QSlots -> Q!ShortQueueElement] /\ Q!Enqueued(q) \subseteq Q!QSlots
  BY Q!SoundType, QueueConstants
<1>3. Q!Sound(r)
  BY Q!PushedSound, QueueConstants
<1> HIDE DEF s, r
<1>4. r.elements[s].value = e /\ \A o \in Q!Enqueued(q) : r.elements[o].value = q.elements[o].value
  BY <1>1, <1>2
<1>5. s \notin Q!Enqueued(q)
  BY <1>1
<1>6. /\ s \notin Enqueued(q) /\ Enqueued(r) = Enqueued(q) \cup {s}
      /\ \A o \in Enqueued(q) : r.elements[o].value = q.elements[o].value
  BY <1>1, <1>4, <1>5, SameQueue
<1>7. r = Pushed(q, e)
  BY SameQueue DEF r
<1> QED
  BY <1>1, <1>3, <1>4, <1>6, <1>7

LEMMA QueuePop ==
  ASSUME NEW q, Q!Sound(q), q.size > 0, NEW x
  PROVE  LET r == Popped(q) IN
         /\ Q!Sound(r) /\ r.size = q.size - 1
         /\ r.highest_timestamp = q.highest_timestamp
         /\ Front(q, x) \in InlineElement
         /\ \E s \in Enqueued(q) :
              /\ Front(q, x) = q.elements[s].value /\ Enqueued(r) = Enqueued(q) \ {s}
              /\ \A o \in Enqueued(r) : r.elements[o].value = q.elements[o].value
<1> DEFINE r == Q!Popped(q)
           h == q.highest_timestamp
<1>1. PICK s \in Q!Enqueued(q) :
        /\ Q!Oldest(q) = {s}
        /\ r.highest_timestamp = h /\ r.size = q.size - 1
        /\ \A o \in Q!QSlots \ {s} : r.elements[o] = q.elements[o]
        /\ Q!Enqueued(r) = Q!Enqueued(q) \ {s}
  BY Q!PoppedFields, QueueConstants
<1>2. Q!Sound(r)
  BY Q!PoppedSound, QueueConstants
<1>3. Q!Front(q, x) \in InlineElement
  BY Q!FrontType, QueueConstants
<1>4. Q!Enqueued(q) \subseteq Q!QSlots /\ Q!QSlots \subseteq Nat
  BY Q!SoundType, QueueConstants, MapAssumption DEF Q!QSlots
<1>5. Q!Front(q, x) = q.elements[s].value
  <2>1. s \in Nat
    BY <1>1, <1>4
  <2>2. Q!Max({s}) = s
    BY <2>1 DEF Q!Max
  <2> QED
    BY <1>1, <2>2 DEF Q!Front
<1>6. \A o \in Q!Enqueued(r) : r.elements[o].value = q.elements[o].value
  BY <1>1, <1>4
<1>7. r = Popped(q)
  BY SameQueue
<1> HIDE DEF r
<1>8. /\ s \in Enqueued(q) /\ Front(q, x) = q.elements[s].value /\ Enqueued(r) = Enqueued(q) \ {s}
      /\ \A o \in Enqueued(r) : r.elements[o].value = q.elements[o].value
      /\ Front(q, x) \in InlineElement
  BY <1>1, <1>3, <1>5, <1>6, SameQueue
<1> QED
  BY <1>1, <1>2, <1>7, <1>8

-------------------------------------------------------------------------------
(* The tables. *)

LEMMA CelledMember ==
  ASSUME NEW tab, NEW e
  PROVE  e \in Celled(tab) <=> \E t \in {0, 1} : \E b \in Buckets : e \in tab[t][b]
BY DEF Celled

(* What it means that element e was put into the tables, with result r.        *)
PutIn(tab, e, r) ==
  /\ r.table \in Tables /\ Homed(r.table) /\ CellsApart(r.table)
  /\ Celled(r.table) \cup r.pending = Celled(tab) \cup {e}
  /\ \/ r.pending = {}
     \/ \E v \in InlineElement : r.pending = {v} /\ v.key \notin Keys(Celled(r.table))

(* Elements of one bucket make way for a new one, which belongs there.         *)
Exchanged(tab, t, b, gone, e) == [tab EXCEPT ![t][b] = (tab[t][b] \ gone) \cup {e}]

MakesRoom(tab, t, b, gone, e) ==
  /\ tab \in Tables /\ Homed(tab) /\ CellsApart(tab)
  /\ t \in {0, 1} /\ b \in Buckets /\ gone \subseteq tab[t][b]
  /\ e \in InlineElement /\ hash_key[t][e.key] = b
  /\ \A f \in Celled(tab) \ gone : f.key # e.key

RoomMade(tab, gone, e, new) ==
  /\ new \in Tables /\ Homed(new) /\ CellsApart(new)
  /\ Celled(new) = (Celled(tab) \ gone) \cup {e}
  /\ \A v \in gone : v.key # e.key => v.key \notin Keys(Celled(new))

LEMMA Exchange ==
  ASSUME NEW tab, NEW t, NEW b, NEW gone, NEW e, MakesRoom(tab, t, b, gone, e)
  PROVE  RoomMade(tab, gone, e, Exchanged(tab, t, b, gone, e))
<1> DEFINE new == Exchanged(tab, t, b, gone, e)
<1> USE DEF MakesRoom
<1>1. new \in Tables
  BY DEF Tables, Exchanged
<1>2. /\ new[t][b] = (tab[t][b] \ gone) \cup {e}
      /\ \A u \in {0, 1} : \A c \in Buckets : u # t \/ c # b => new[u][c] = tab[u][c]
  BY DEF Tables, Exchanged
<1> HIDE DEF new
<1>3. ASSUME NEW u \in {0, 1}, NEW c \in Buckets, NEW f \in new[u][c]
      PROVE  \/ f \in tab[u][c] /\ f \notin gone /\ f.key # e.key
             \/ f = e /\ u = t /\ c = b
  <2>1. CASE u = t /\ c = b
    BY <2>1, <1>2, CelledMember
  <2>2. CASE u # t \/ c # b
    <3>1. f \in tab[u][c]
      BY <1>3, <2>2, <1>2
    <3>2. f \notin gone
      BY <2>2, <3>1 DEF CellsApart
    <3> QED
      BY <3>1, <3>2, CelledMember
  <2> QED
    BY <2>1, <2>2
<1>4. Homed(new)
  BY <1>3 DEF Homed
<1>5. CellsApart(new)
  BY <1>3 DEF CellsApart
<1>6. Celled(new) \subseteq (Celled(tab) \ gone) \cup {e}
  <2> SUFFICES ASSUME NEW u \in {0, 1}, NEW c \in Buckets, NEW f \in new[u][c]
               PROVE  f \in (Celled(tab) \ gone) \cup {e}
    BY CelledMember
  <2> QED
    BY <1>3, CelledMember
<1>7. \A f \in Celled(tab) \ gone : f \in Celled(new)
  <2> SUFFICES ASSUME NEW u \in {0, 1}, NEW c \in Buckets, NEW f \in tab[u][c], f \notin gone
               PROVE  f \in new[u][c]
    BY CelledMember
  <2> QED
    BY <1>2
<1>8. e \in Celled(new)
  BY <1>2, CelledMember
<1>9. \A v \in gone : v.key # e.key => v.key \notin Keys(Celled(new))
  <2> SUFFICES ASSUME NEW v \in gone, v.key # e.key, NEW f \in Celled(new), f.key = v.key
               PROVE  FALSE
    BY DEF Keys
  <2>1. PICK u \in {0, 1}, c \in Buckets : f \in new[u][c]
    BY CelledMember
  <2>2. f \in tab[u][c] /\ f \notin gone
    BY <2>1, <1>3
  <2> QED
    BY <2>2 DEF CellsApart
<1> QED
  BY <1>1, <1>4, <1>5, <1>6, <1>7, <1>8, <1>9 DEF RoomMade, new

LEMMA PlacedPutsIn ==
  ASSUME NEW tab \in Tables, Homed(tab), CellsApart(tab), hash_key \in HashFunctions,
         NEW t \in {0, 1}, NEW e \in InlineElement, e.key \notin Keys(Celled(tab)),
         NEW r \in Placed(tab, t, hash_key[t][e.key], e)
  PROVE  PutIn(tab, e, r)
<1> DEFINE b == hash_key[t][e.key]
<1>1. b \in Buckets
  BY MapAssumption DEF InlineElement, Buckets
<1>2. \A f \in Celled(tab) : f \in InlineElement /\ f.key # e.key
  BY CelledMember DEF Keys, Tables
<1> HIDE DEF b
<1>3. CASE r = [table |-> [tab EXCEPT ![t][b] = @ \cup {e}], pending |-> {}]
  <2>1. r.table = Exchanged(tab, t, b, {}, e) /\ r.pending = {}
    BY <1>3 DEF Exchanged
  <2>2. MakesRoom(tab, t, b, {}, e)
    BY <1>1, <1>2 DEF MakesRoom, b
  <2>3. RoomMade(tab, {}, e, r.table)
    BY <2>1, <2>2, Exchange
  <2> QED
    BY <2>1, <2>3 DEF PutIn, RoomMade
<1>4. ASSUME NEW v \in tab[t][b],
             r = [table |-> [tab EXCEPT ![t][b] = (@ \ {v}) \cup {e}], pending |-> {v}]
      PROVE  PutIn(tab, e, r)
  <2>1. r.table = Exchanged(tab, t, b, {v}, e) /\ r.pending = {v}
    BY <1>4 DEF Exchanged
  <2>2. {v} \subseteq tab[t][b] /\ v \in Celled(tab) /\ v \in InlineElement /\ v.key # e.key
    BY <1>1, <1>2, CelledMember
  <2>3. MakesRoom(tab, t, b, {v}, e)
    BY <2>2, <1>1, <1>2 DEF MakesRoom, b
  <2>4. RoomMade(tab, {v}, e, r.table)
    BY <2>1, <2>3, Exchange
  <2> QED
    BY <2>1, <2>2, <2>4 DEF PutIn, RoomMade
<1> QED
  BY <1>3, <1>4 DEF Placed, b

LEMMA TriedPutsIn ==
  ASSUME NEW tab \in Tables, Homed(tab), CellsApart(tab), hash_key \in HashFunctions,
         NEW e \in InlineElement, e.key \notin Keys(Celled(tab)),
         NEW r \in try_insert_entry(tab, e)
  PROVE  PutIn(tab, e, r)
<1>1. PICK r1 \in Placed(tab, 1, hash_key[1][e.key], e) :
        r \in IF r1.pending = {} THEN {r1}
              ELSE UNION {Placed(r1.table, 0, hash_key[0][f.key], f) : f \in r1.pending}
  BY DEF try_insert_entry
<1>2. PutIn(tab, e, r1)
  BY PlacedPutsIn
<1>3. CASE r1.pending = {}
  BY <1>1, <1>2, <1>3
<1>4. ASSUME NEW v \in InlineElement, r1.pending = {v}, v.key \notin Keys(Celled(r1.table))
      PROVE  PutIn(tab, e, r)
  <2>1. r \in Placed(r1.table, 0, hash_key[0][v.key], v)
    BY <1>1, <1>4
  <2>2. r1.table \in Tables /\ Homed(r1.table) /\ CellsApart(r1.table)
    BY <1>2 DEF PutIn
  <2>3. PutIn(r1.table, v, r)
    BY <2>1, <2>2, <1>4, PlacedPutsIn
  <2>4. Celled(r.table) \cup r.pending = Celled(tab) \cup {e}
    BY <2>3, <1>2, <1>4 DEF PutIn
  <2> QED
    BY <2>3, <2>4 DEF PutIn
<1> QED
  BY <1>2, <1>3, <1>4 DEF PutIn

-------------------------------------------------------------------------------
(* A round of deamortised insertion moves elements, and that is all.           *)

LEMMA StoredIs ==
  ASSUME NEW tab, NEW q
  PROVE  Stored(tab, q) = Celled(tab) \cup Queued(q)
BY DEF Stored, Celled, Queued

LEMMA PushKeepsSound ==
  ASSUME NEW tab, NEW q, Sound(tab, q), q.size < INSERTION_QUEUE_MAX_SIZE,
         q.highest_timestamp < MaxTimestamp, NEW e \in InlineElement,
         e.key \notin Keys(Stored(tab, q))
  PROVE  /\ Sound(tab, Pushed(q, e))
         /\ Stored(tab, Pushed(q, e)) = Stored(tab, q) \cup {e}
<1> DEFINE r == Pushed(q, e)
<1>1. Q!Sound(r)
  BY QueuePush DEF Sound
<1>2. PICK s : /\ s \notin Enqueued(q) /\ Enqueued(r) = Enqueued(q) \cup {s}
               /\ r.elements[s].value = e
               /\ \A o \in Enqueued(q) : r.elements[o].value = q.elements[o].value
  BY QueuePush DEF Sound
<1> HIDE DEF r
<1>3. Queued(r) = Queued(q) \cup {e}
  BY <1>2 DEF Queued
<1>4. e.key \notin Keys(Celled(tab)) /\ e.key \notin Keys(Queued(q))
  BY StoredIs DEF Keys
<1>5. SlotsApart(r)
  <2>1. \A o \in Enqueued(q) : q.elements[o].value.key # e.key
    BY <1>4 DEF Queued, Keys
  <2> QED
    BY <1>2, <2>1 DEF SlotsApart, Sound
<1>6. Keys(Celled(tab)) \cap Keys(Queued(r)) = {}
  BY <1>3, <1>4 DEF Keys, Sound
<1> QED
  BY <1>1, <1>3, <1>5, <1>6, StoredIs DEF Sound, r

LEMMA RoundKeepsSound ==
  ASSUME NEW tab, NEW q, Sound(tab, q), hash_key \in HashFunctions,
         q.highest_timestamp < MaxTimestamp,
         NEW st \in Round([table |-> tab, queue |-> q])
  PROVE  /\ Sound(st.table, st.queue)
         /\ Stored(st.table, st.queue) = Stored(tab, q)
         /\ st.queue.highest_timestamp \in {q.highest_timestamp, q.highest_timestamp + 1}
<1> DEFINE x == Elem(DefaultKey, Default)
           e == Front(q, x)
           rest == Popped(q)
<1>1. CASE q.size = 0
  <2>1. st = [table |-> tab, queue |-> q]
    BY <1>1 DEF Round
  <2> QED
    BY <2>1
<1>2. CASE q.size # 0
  <2>1. q.size > 0 /\ q.size <= INSERTION_QUEUE_MAX_SIZE /\ q.size \in Nat
    <3>1. q \in Q!ShortQueue
      BY DEF Sound, Q!Sound
    <3> QED
      BY <3>1, <1>2, MapAssumption DEF Q!ShortQueue
  <2>2. /\ Q!Sound(rest) /\ rest.size = q.size - 1
        /\ rest.highest_timestamp = q.highest_timestamp
        /\ e \in InlineElement
    BY <2>1, QueuePop DEF Sound
  <2>3. PICK s \in Enqueued(q) :
          /\ e = q.elements[s].value /\ Enqueued(rest) = Enqueued(q) \ {s}
          /\ \A o \in Enqueued(rest) : rest.elements[o].value = q.elements[o].value
    BY <2>1, QueuePop DEF Sound
  <2>4. PICK r \in try_insert_entry(tab, e) :
          st = [table |-> r.table, queue |-> Requeued(rest, r.pending)]
    BY <1>2 DEF Round
  <2> HIDE DEF e, rest
  <2>5. Queued(q) = Queued(rest) \cup {e} /\ e.key \notin Keys(Queued(rest)) /\ SlotsApart(rest)
    BY <2>3 DEF Queued, Keys, Sound, SlotsApart
  <2>6. e.key \notin Keys(Celled(tab))
    BY <2>5 DEF Sound, Keys
  <2>7. PutIn(tab, e, r)
    BY <2>2, <2>4, <2>6, TriedPutsIn DEF Sound
  <2>8. \A k \in Keys(Celled(r.table) \cup r.pending) : k \notin Keys(Queued(rest))
    BY <2>5, <2>7 DEF PutIn, Sound, Keys
  <2>9. Sound(r.table, rest)
    BY <2>2, <2>5, <2>7, <2>8 DEF Sound, PutIn, Keys
  <2>10. CASE r.pending = {}
    <3>1. st.table = r.table /\ st.queue = rest
      BY <2>4, <2>10 DEF Requeued
    <3>2. Celled(r.table) = Celled(tab) \cup {e}
      BY <2>7, <2>10 DEF PutIn
    <3> QED
      BY <3>1, <3>2, <2>2, <2>5, <2>9, StoredIs
  <2>11. ASSUME NEW v \in InlineElement, r.pending = {v}, v.key \notin Keys(Celled(r.table))
         PROVE  /\ Sound(st.table, st.queue)
                /\ Stored(st.table, st.queue) = Stored(tab, q)
                /\ st.queue.highest_timestamp = q.highest_timestamp + 1
    <3>1. st.table = r.table /\ st.queue = Pushed(rest, v)
      BY <2>4, <2>11 DEF Requeued
    <3>2. v.key \notin Keys(Stored(r.table, rest))
      BY <2>8, <2>11, StoredIs DEF Keys
    <3>3. rest.size < INSERTION_QUEUE_MAX_SIZE
      BY <2>1, <2>2, MapAssumption
    <3>4. /\ Sound(r.table, Pushed(rest, v))
          /\ Stored(r.table, Pushed(rest, v)) = Stored(r.table, rest) \cup {v}
      BY <3>2, <3>3, <2>2, <2>9, PushKeepsSound
    <3>5. Pushed(rest, v).highest_timestamp = rest.highest_timestamp + 1
      BY <3>3, <2>2, QueuePush
    <3>6. Stored(r.table, rest) \cup {v} = Stored(tab, q)
      BY <2>5, <2>7, <2>11, StoredIs DEF PutIn
    <3> QED
      BY <3>1, <3>4, <3>5, <3>6, <2>2
  <2> QED
    BY <2>7, <2>10, <2>11 DEF PutIn
<1> QED
  BY <1>1, <1>2

LEMMA DeamortizedKeepsSound ==
  ASSUME NEW q, Sound(table, q), hash_key \in HashFunctions,
         q.highest_timestamp + 2 <= MaxTimestamp,
         NEW st \in Deamortized(q)
  PROVE  Sound(st.table, st.queue) /\ Stored(st.table, st.queue) = Stored(table, q)
<1>1. PICK st1 \in Round([table |-> table, queue |-> q]) : st \in Round(st1)
  BY DEF Deamortized
<1>2. q.highest_timestamp \in Nat
  BY Q!SoundType, QueueConstants DEF Sound
<1>3. /\ Sound(st1.table, st1.queue) /\ Stored(st1.table, st1.queue) = Stored(table, q)
      /\ st1.queue.highest_timestamp \in {q.highest_timestamp, q.highest_timestamp + 1}
  BY <1>1, <1>2, RoundKeepsSound, MapAssumption
<1>4. st1 = [table |-> st1.table, queue |-> st1.queue]
  BY <1>1 DEF Round
<1>5. st1.queue.highest_timestamp < MaxTimestamp
  BY <1>2, <1>3, MapAssumption
<1> QED
  BY <1>1, <1>3, <1>4, <1>5, RoundKeepsSound

-------------------------------------------------------------------------------
(* What the map holds, as a dictionary. *)

Unique(elements) == \A e, f \in elements : e.key = f.key => e = f
DictOf(elements) == [k \in Keys(elements) |-> (CHOOSE e \in elements : e.key = k).value]

LEMMA SoundUnique ==
  ASSUME NEW tab, NEW q, Sound(tab, q)
  PROVE  /\ Unique(Stored(tab, q)) /\ Stored(tab, q) \subseteq InlineElement
         /\ Celled(tab) \subseteq InlineElement /\ Unique(Celled(tab))
<1>1. Celled(tab) \subseteq InlineElement
  BY CelledMember DEF Sound, Tables
<1>2. Queued(q) \subseteq InlineElement
  BY Q!SoundType, QueueConstants, SameQueue DEF Sound, Queued
<1>3. Unique(Celled(tab))
  BY CelledMember DEF Sound, CellsApart, Unique
<1>4. Unique(Queued(q))
  BY DEF Sound, SlotsApart, Unique, Queued
<1>5. \A e \in Celled(tab), f \in Queued(q) : e.key # f.key
  BY DEF Sound, Keys
<1> QED
  BY <1>1, <1>2, <1>3, <1>4, <1>5, StoredIs DEF Unique

LEMMA DictValue ==
  ASSUME NEW E, Unique(E), NEW e \in E
  PROVE  e.key \in DOMAIN DictOf(E) /\ DictOf(E)[e.key] = e.value
<1>1. e.key \in Keys(E)
  BY DEF Keys
<1>2. (CHOOSE f \in E : f.key = e.key) = e
  BY DEF Unique
<1> QED
  BY <1>1, <1>2 DEF DictOf

(* One element takes the place of whatever had its key. *)
LEMMA DictChanged ==
  ASSUME NEW E, Unique(E), NEW k, NEW v,
         NEW F, F = {f \in E : f.key # k} \cup {Elem(k, v)}
  PROVE  Keys(F) = Keys(E) \cup {k} /\ DictOf(F) = With(DictOf(E), k, v)
<1> DEFINE e == Elem(k, v)
<1>1. e.key = k /\ e.value = v
  BY DEF Elem
<1> HIDE DEF e
<1>2. F = {f \in E : f.key # k} \cup {e}
  BY DEF e
<1>3. Keys(F) = Keys(E) \cup {k}
  BY <1>1, <1>2 DEF Keys
<1>4. Unique(F)
  BY <1>1, <1>2 DEF Unique
<1>5. DictOf(F)[k] = v
  BY <1>1, <1>2, <1>4, DictValue
<1>6. ASSUME NEW j \in Keys(E), j # k
      PROVE  DictOf(F)[j] = DictOf(E)[j]
  <2>1. PICK f \in E : f.key = j
    BY DEF Keys
  <2>2. f \in F
    BY <1>2, <1>6, <2>1
  <2>3. DictOf(E)[f.key] = f.value
    BY DictValue
  <2>4. DictOf(F)[f.key] = f.value
    BY <2>2, <1>4, DictValue
  <2> QED
    BY <2>1, <2>3, <2>4
<1>7. /\ DOMAIN DictOf(E) = Keys(E) /\ DOMAIN DictOf(F) = Keys(F)
      /\ DictOf(F) = [j \in Keys(F) |-> DictOf(F)[j]]
  BY DEF DictOf
<1> QED
  BY <1>3, <1>5, <1>6, <1>7 DEF With

LEMMA DictIs == Dict = DictOf(Elements) /\ Present = Keys(Elements)
BY DEF Dict, DictOf, Present, Keys

(* Writing the value of a queued element moves nothing. *)
Overwritten(q, s, e) == [q EXCEPT !.elements[s].value = e]

LEMMA QueueRewrite ==
  ASSUME NEW q, Q!Sound(q), NEW s, s \in Enqueued(q), NEW e, e \in InlineElement,
         NEW r, r = Overwritten(q, s, e)
  PROVE  /\ Q!Sound(r) /\ Enqueued(r) = Enqueued(q)
         /\ r.elements[s].value = e
         /\ \A o \in Enqueued(q) \ {s} : r.elements[o] = q.elements[o]
<1>1. /\ q \in Q!ShortQueue /\ q.elements \in [Q!QSlots -> Q!ShortQueueElement]
      /\ s \in Q!QSlots /\ Enqueued(q) \subseteq Q!QSlots
  BY Q!SoundType, QueueConstants, SameQueue DEF Sound, Q!Sound
<1>2. r \in Q!ShortQueue
  BY <1>1 DEF Q!ShortQueue, Q!ShortQueueElement, Overwritten
<1>3. /\ r.size = q.size /\ r.highest_timestamp = q.highest_timestamp
      /\ r.lowest_timestamp = q.lowest_timestamp
      /\ r.elements[s].value = e
      /\ \A o \in Q!QSlots : r.elements[o].timestamp = q.elements[o].timestamp
      /\ \A o \in Q!QSlots \ {s} : r.elements[o] = q.elements[o]
  BY <1>1 DEF Q!ShortQueue, Q!ShortQueueElement, Overwritten
<1>4. Q!Enqueued(r) = Q!Enqueued(q)
  BY <1>3 DEF Q!Enqueued
<1>5. Q!Enqueued(q) \subseteq Q!QSlots
  BY DEF Q!Enqueued
<1>6. Q!Timestamps(r, Q!Enqueued(r)) = Q!Timestamps(q, Q!Enqueued(q))
  BY <1>3, <1>4, <1>5 DEF Q!Timestamps
<1>7. Q!Sound(r)
  BY <1>2, <1>3, <1>4, <1>5, <1>6 DEF Q!Sound, Q!Recent
<1> QED
  BY <1>1, <1>3, <1>4, <1>7, SameQueue

-------------------------------------------------------------------------------
(* What each operation does to the elements. *)

LEMMA SizeFacts ==
  ASSUME IInv
  PROVE  LET q == insertion_queue IN
         /\ Q!Sound(q) /\ q.size \in Nat /\ q.highest_timestamp \in Nat
         /\ q.size = Cardinality(Enqueued(q))
<1>1. Q!Sound(insertion_queue)
  BY DEF IInv, Sound
<1>2. insertion_queue.size \in Nat /\ insertion_queue.highest_timestamp \in Nat
  BY <1>1, Q!SoundType, QueueConstants
<1>3. insertion_queue.size = Cardinality(Enqueued(insertion_queue))
  <2>1. insertion_queue.size = Cardinality(Q!Enqueued(insertion_queue))
    BY <1>1, Q!SoundType, QueueConstants, SameCardinality
  <2> QED
    BY <2>1, SameQueue
<1> QED
  BY <1>1, <1>2, <1>3

LEMMA Assemble ==
  ASSUME IInv, UNCHANGED hash_key, Sound(table', insertion_queue'),
         IsFiniteSet(Present'), size' = Cardinality(Present')
  PROVE  IInv'
BY DEF IInv, Sound, Homed

LEMMA After == /\ Elements' = Stored(table', insertion_queue')
               /\ Dict' = DictOf(Elements') /\ Present' = Keys(Elements')
BY DEF Elements, Dict, DictOf, Present, Keys

LEMMA Insertion ==
  ASSUME IInv, NEW k \in Key, NEW v \in Value, Insert(k, v)
  PROVE  IInv' /\ k \notin Present /\ Dict' = With(Dict, k, v)
<1> DEFINE q == insertion_queue
           e == Elem(k, v)
<1>1. PICK st \in Deamortized(Pushed(q, e)) : table' = st.table /\ insertion_queue' = st.queue
  BY DEF Insert
<1>2. /\ k \notin Present /\ size' = size + 1 /\ hash_key' = hash_key
      /\ q.size < INSERTION_QUEUE_MAX_SIZE /\ q.highest_timestamp + 3 <= MaxTimestamp
  BY DEF Insert, StampsLeft
<1>3. e \in InlineElement /\ e.key = k
  BY DEF InlineElement, Elem
<1>4. q.highest_timestamp \in Nat /\ q.highest_timestamp < MaxTimestamp /\ Q!Sound(q)
  BY <1>2, SizeFacts, MapAssumption
<1>5. Pushed(q, e).highest_timestamp + 2 <= MaxTimestamp
  <2>1. Pushed(q, e).highest_timestamp = q.highest_timestamp + 1
    BY <1>2, <1>3, <1>4, QueuePush
  <2> QED
    BY <2>1, <1>2, <1>4, MapAssumption
<1>6. e.key \notin Keys(Stored(table, q))
  BY <1>2, <1>3, DictIs DEF Elements
<1> HIDE DEF e
<1>7. /\ Sound(table, Pushed(q, e))
      /\ Stored(table, Pushed(q, e)) = Stored(table, q) \cup {e}
  BY <1>2, <1>3, <1>4, <1>6, PushKeepsSound DEF IInv
<1>8. /\ Sound(st.table, st.queue)
      /\ Stored(st.table, st.queue) = Stored(table, q) \cup {e}
  BY <1>1, <1>5, <1>7, DeamortizedKeepsSound DEF IInv
<1>9. Sound(table', insertion_queue') /\ Elements' = Elements \cup {e}
  BY <1>1, <1>8, After DEF Elements
<1>10. Elements' = {f \in Elements : f.key # k} \cup {Elem(k, v)}
  BY <1>2, <1>9 DEF Present, e
<1>11. Present' = Present \cup {k} /\ Dict' = With(Dict, k, v)
  <2>1. Unique(Elements)
    BY SoundUnique DEF IInv, Elements
  <2>2. /\ Keys(Elements') = Keys(Elements) \cup {k}
        /\ DictOf(Elements') = With(DictOf(Elements), k, v)
    <3>1. \A F : F = {f \in Elements : f.key # k} \cup {Elem(k, v)} =>
            /\ Keys(F) = Keys(Elements) \cup {k}
            /\ DictOf(F) = With(DictOf(Elements), k, v)
      BY <2>1, DictChanged
    <3> QED
      BY <1>10, <3>1
  <2> QED
    BY <2>2, After, DictIs
<1>12. IsFiniteSet(Present') /\ size' = Cardinality(Present')
  BY <1>2, <1>11, FS_AddElement DEF IInv
<1> QED
  BY <1>2, <1>9, <1>11, <1>12, Assemble

(* Steps that only move elements about. *)
LEMMA Moving ==
  ASSUME IInv, StampsLeft, UNCHANGED <<size, hash_key>>,
         \E st \in Deamortized(insertion_queue) :
            table' = st.table /\ insertion_queue' = st.queue
  PROVE  IInv' /\ Dict' = Dict
<1>1. PICK st \in Deamortized(insertion_queue) :
        table' = st.table /\ insertion_queue' = st.queue
  OBVIOUS
<1>2. insertion_queue.highest_timestamp + 2 <= MaxTimestamp
  BY SizeFacts, MapAssumption DEF StampsLeft
<1>3. Sound(st.table, st.queue) /\ Stored(st.table, st.queue) = Elements
  BY <1>2, DeamortizedKeepsSound DEF IInv, Elements
<1>4. Sound(table', insertion_queue') /\ Elements' = Elements
  BY <1>1, <1>3, After
<1>5. Present' = Present /\ Dict' = Dict
  BY <1>4, After, DictIs
<1>6. IsFiniteSet(Present') /\ size' = Cardinality(Present')
  BY <1>5 DEF IInv
<1> QED
  BY <1>4, <1>5, <1>6, Assemble

(* A value is replaced: the keys, and where they are, stay. *)
LEMMA Writing ==
  ASSUME IInv, NEW k \in Key, NEW v \in Value, k \in Present, UNCHANGED <<size, hash_key>>,
         Sound(table', insertion_queue'),
         Elements' = {f \in Elements : f.key # k} \cup {Elem(k, v)}
  PROVE  IInv' /\ Dict' = With(Dict, k, v)
<1>1. Unique(Elements)
  BY SoundUnique DEF IInv, Elements
<1>2. /\ Keys(Elements') = Keys(Elements) \cup {k}
      /\ DictOf(Elements') = With(DictOf(Elements), k, v)
  <2>1. \A F : F = {f \in Elements : f.key # k} \cup {Elem(k, v)} =>
          /\ Keys(F) = Keys(Elements) \cup {k}
          /\ DictOf(F) = With(DictOf(Elements), k, v)
    BY <1>1, DictChanged
  <2> QED
    BY <2>1
<1>3. Present' = Present /\ Dict' = With(Dict, k, v)
  BY <1>2, After, DictIs
<1>4. IsFiniteSet(Present') /\ size' = Cardinality(Present')
  BY <1>3 DEF IInv
<1> QED
  BY <1>3, <1>4, Assemble

LEMMA WriteInTable ==
  ASSUME IInv, NEW k \in Key, NEW v \in Value, NEW t \in {0, 1}, InTable(t, k) # {},
         table' = [table EXCEPT ![t][hash_key[t][k]] = Rewritten(@, k, v)],
         UNCHANGED <<size, hash_key, insertion_queue>>
  PROVE  IInv' /\ Dict' = With(Dict, k, v)
<1> DEFINE b == hash_key[t][k]
           n == Elem(k, v)
           q == insertion_queue
<1>1. PICK e \in table[t][b] : e.key = k
  BY DEF InTable
<1>2. b \in Buckets /\ n \in InlineElement /\ n.key = k
  BY MapAssumption DEF IInv, Buckets, InlineElement, Elem
<1>3. Sound(table, q)
  BY DEF IInv
<1> HIDE DEF b
<1>4. \A f \in table[t][b] : f.key = k <=> f = e
  BY <1>1, <1>2, <1>3 DEF Sound, CellsApart
<1>5. Rewritten(table[t][b], k, v) = (table[t][b] \ {e}) \cup {n}
  BY <1>1, <1>4 DEF Rewritten
<1>6. table' = Exchanged(table, t, b, {e}, n)
  BY <1>5 DEF Exchanged, b
<1> HIDE DEF n
<1>7. e \in Celled(table) /\ Unique(Celled(table))
  BY <1>1, <1>2, <1>3, CelledMember, SoundUnique
<1>8. MakesRoom(table, t, b, {e}, n)
  <2>1. \A f \in Celled(table) \ {e} : f.key # n.key
    BY <1>1, <1>2, <1>7 DEF Unique
  <2>2. hash_key[t][n.key] = b
    BY <1>2 DEF b
  <2> QED
    BY <2>1, <2>2, <1>1, <1>2, <1>3 DEF MakesRoom, Sound
<1>9. RoomMade(table, {e}, n, table')
  <2>1. RoomMade(table, {e}, n, Exchanged(table, t, b, {e}, n))
    BY <1>8, Exchange
  <2> QED
    BY <1>6, <2>1
<1>10. Celled(table') = (Celled(table) \ {e}) \cup {n}
  BY <1>9 DEF RoomMade
<1>11. Keys(Celled(table')) = Keys(Celled(table))
  BY <1>1, <1>2, <1>7, <1>10 DEF Keys
<1>12. Sound(table', q)
  BY <1>3, <1>9, <1>11 DEF Sound, RoomMade
<1>13. Unique(Elements) /\ e \in Elements /\ e.key = k
  BY <1>1, <1>3, <1>7, SoundUnique, StoredIs DEF Elements
<1>14. \A f \in Queued(q) : f.key # k
  BY <1>1, <1>3, <1>7 DEF Sound, Keys
<1>15. Elements' = {f \in Elements : f.key # k} \cup {n}
  <2>1. Elements' = Celled(table') \cup Queued(q)
    BY StoredIs, After
  <2>2. Elements = Celled(table) \cup Queued(q)
    BY StoredIs DEF Elements
  <2> QED
    BY <2>1, <2>2, <1>10, <1>13, <1>14 DEF Unique
<1>16. k \in Present
  BY <1>13 DEF Present
<1> QED
  BY <1>12, <1>15, <1>16, Writing DEF n

LEMMA WriteInQueue ==
  ASSUME IInv, NEW k \in Key, NEW v \in Value, InQueue(k) # {},
         insertion_queue' =
           [insertion_queue EXCEPT !.elements[Min(InQueue(k))].value = Elem(k, v)],
         UNCHANGED <<size, hash_key, table>>
  PROVE  IInv' /\ Dict' = With(Dict, k, v)
<1> DEFINE n == Elem(k, v)
           q == insertion_queue
           s == Min(InQueue(k))
           r == [insertion_queue EXCEPT !.elements[s].value = n]
<1>1. Sound(table, q)
  BY DEF IInv
<1>2. InQueue(k) \subseteq Nat
  <2>1. InQueue(k) \subseteq QSlots
    BY DEF InQueue, ScannedSlots, Enqueued
  <2> QED
    BY <2>1, MapAssumption DEF QSlots
<1>3. s \in InQueue(k)
  BY <1>2, Q!MinOfNaturals, QueueConstants, SameQueue
<1>4. n \in InlineElement /\ n.key = k
  BY DEF InlineElement, Elem
<1> HIDE DEF s, n
<1>5. s \in Enqueued(q) /\ q.elements[s].value.key = k
  BY <1>3 DEF InQueue, ScannedSlots
<1>6. r = Overwritten(q, s, n) /\ insertion_queue' = r
  BY DEF s, n, Overwritten
<1> HIDE DEF r
<1>7. /\ Q!Sound(r) /\ Enqueued(r) = Enqueued(q)
      /\ r.elements[s].value = n
      /\ \A o \in Enqueued(q) \ {s} : r.elements[o] = q.elements[o]
  <2>1. Q!Sound(q)
    BY <1>1 DEF Sound
  <2> QED
    BY <2>1, <1>4, <1>5, <1>6, QueueRewrite
<1>8. \A o \in Enqueued(q) \ {s} : q.elements[o].value.key # k
  BY <1>1, <1>5 DEF Sound, SlotsApart
<1>9. SlotsApart(r)
  BY <1>1, <1>4, <1>7, <1>8 DEF Sound, SlotsApart
<1>10. Queued(r) = {f \in Queued(q) : f.key # k} \cup {n}
  BY <1>5, <1>7, <1>8 DEF Queued
<1>11. q.elements[s].value \in Queued(q)
  BY <1>5 DEF Queued
<1>12. Keys(Queued(r)) = Keys(Queued(q))
  BY <1>4, <1>5, <1>10, <1>11 DEF Keys
<1>13. Sound(table, r)
  BY <1>1, <1>7, <1>9, <1>12 DEF Sound
<1>14. \A f \in Celled(table) : f.key # k
  BY <1>1, <1>5, <1>11 DEF Sound, Keys
<1>15. Elements' = {f \in Elements : f.key # k} \cup {n}
  <2>1. Elements' = Celled(table) \cup Queued(r)
    BY <1>6, StoredIs, After
  <2>2. Elements = Celled(table) \cup Queued(q)
    BY StoredIs DEF Elements
  <2> QED
    BY <2>1, <2>2, <1>10, <1>14
<1>16. k \in Present
  BY <1>5, <1>11, StoredIs DEF Present, Elements
<1> QED
  BY <1>6, <1>13, <1>15, <1>16, Writing DEF n

-------------------------------------------------------------------------------
(* What a scan finds, and what it misses. *)

(* A hit is an element of the key, with the value of the dictionary. *)
Hits(k) == InTable(0, k) \cup InTable(1, k)
             \cup {insertion_queue.elements[s].value : s \in InQueue(k)}

LEMMA HitsAreElements ==
  ASSUME IInv, NEW k \in Key, NEW e \in Hits(k)
  PROVE  k \in DOMAIN Dict /\ Dict[k] = e.value
<1>1. e \in Elements /\ e.key = k
  <2>1. ASSUME NEW t \in {0, 1}, e \in InTable(t, k)
        PROVE  e \in Elements /\ e.key = k
    <3>1. hash_key[t][k] \in Buckets
      BY MapAssumption DEF IInv, Buckets
    <3>2. e \in Celled(table)
      BY <2>1, <3>1, CelledMember DEF InTable
    <3> QED
      BY <2>1, <3>2, StoredIs DEF InTable, Elements
  <2>2. ASSUME NEW s \in InQueue(k), e = insertion_queue.elements[s].value
        PROVE  e \in Elements /\ e.key = k
    <3>1. e \in Queued(insertion_queue)
      BY <2>2 DEF InQueue, ScannedSlots, Queued
    <3> QED
      BY <2>2, <3>1, StoredIs DEF InQueue, Elements
  <2> QED
    BY <2>1, <2>2 DEF Hits
<1>2. Unique(Elements)
  BY SoundUnique DEF IInv, Elements
<1> QED
  BY <1>1, <1>2, DictValue, DictIs

LEMMA MissedIsBehind ==
  ASSUME IInv, NEW k \in Key, k \in Present,
         InTable(0, k) = {}, InTable(1, k) = {}, InQueue(k) = {}
  PROVE  \E s \in Enqueued(insertion_queue) :
           s >= insertion_queue.size /\ insertion_queue.elements[s].value.key = k
<1>1. PICK e \in Elements : e.key = k
  BY DEF Present
<1>2. e \notin Celled(table)
  <2> SUFFICES ASSUME NEW t \in {0, 1}, NEW b \in Buckets, e \in table[t][b]
               PROVE  FALSE
    BY CelledMember
  <2>1. hash_key[t][k] = b
    BY <1>1 DEF IInv, Sound, Homed
  <2> QED
    BY <1>1, <2>1 DEF InTable
<1>3. e \in Queued(insertion_queue)
  BY <1>1, <1>2, StoredIs DEF Elements
<1>4. PICK s \in Enqueued(insertion_queue) : insertion_queue.elements[s].value.key = k
  BY <1>1, <1>3 DEF Queued
<1>5. ~ (s < insertion_queue.size)
  BY <1>4 DEF InQueue, ScannedSlots
<1>6. s \in Nat /\ insertion_queue.size \in Nat
  BY <1>4, SizeFacts, MapAssumption DEF Enqueued, QSlots
<1> QED
  BY <1>4, <1>5, <1>6

-------------------------------------------------------------------------------
(* Every step keeps the invariant and is a step of the map. *)

MissExplained ==
  ret'.op \in {"get", "write"} /\ ~ret'.found /\ ret'.key \in Present
    => \E s \in Enqueued(insertion_queue) :
         s >= insertion_queue.size /\ insertion_queue.elements[s].value.key = ret'.key

LEMMA SameHelpers ==
  /\ \A op, k, found, v : MapWithMisses!Answer(op, k, found, v) = Answer(op, k, found, v)
  /\ \A f, k, v : MapWithMisses!With(f, k, v) = With(f, k, v)
BY DEF MapWithMisses!Answer, Answer, MapWithMisses!With, With

LEMMA InsertStep ==
  ASSUME IInv, NEW k \in Key, NEW v \in Value, Insert(k, v)
  PROVE  IInv' /\ MapWithMisses!Insert(k, v) /\ MissExplained
<1>1. IInv' /\ k \notin DOMAIN Dict /\ Dict' = With(Dict, k, v)
  BY Insertion DEF Dict
<1>2. ret' = Answer("insert", k, FALSE, NoValue)
  BY DEF Insert
<1>3. MissExplained
  BY <1>2 DEF MissExplained, Answer
<1> QED
  BY <1>1, <1>2, <1>3, SameHelpers DEF MapWithMisses!Insert

LEMMA DummyStep ==
  ASSUME IInv, NEW k \in Key, InsertCondDummy(k)
  PROVE  IInv' /\ MapWithMisses!Rearrange("insert_cond", k) /\ MissExplained
<1>1. IInv' /\ Dict' = Dict
  BY Moving DEF InsertCondDummy
<1>2. ret' = Answer("insert_cond", k, FALSE, NoValue)
  BY DEF InsertCondDummy
<1>3. MissExplained
  BY <1>2 DEF MissExplained, Answer
<1> QED
  BY <1>1, <1>2, <1>3, SameHelpers DEF MapWithMisses!Rearrange

LEMMA DeamortizeStep ==
  ASSUME IInv, DeamortizeInsertionQueue
  PROVE  IInv' /\ MapWithMisses!Rearrange("deamortize", NoKey) /\ MissExplained
<1>1. IInv' /\ Dict' = Dict
  BY Moving DEF DeamortizeInsertionQueue
<1>2. ret' = Answer("deamortize", NoKey, FALSE, NoValue)
  BY DEF DeamortizeInsertionQueue
<1>3. MissExplained
  BY <1>2 DEF MissExplained, Answer
<1> QED
  BY <1>1, <1>2, <1>3, SameHelpers DEF MapWithMisses!Rearrange

LEMMA Unchanged ==
  ASSUME IInv, UNCHANGED <<size, table, hash_key, insertion_queue>>
  PROVE  IInv' /\ Dict' = Dict
<1>1. Elements' = Elements
  BY After DEF Elements
<1>2. Present' = Present /\ Dict' = Dict
  BY <1>1, After, DictIs
<1>3. Sound(table', insertion_queue') /\ IsFiniteSet(Present') /\ size' = Cardinality(Present')
  BY <1>2 DEF IInv
<1> QED
  BY <1>2, <1>3, Assemble

LEMMA GetStep ==
  ASSUME IInv, NEW k \in Key, Get(k)
  PROVE  IInv' /\ MapWithMisses!Get(k) /\ MissExplained
<1>1. IInv' /\ Dict' = Dict
  BY Unchanged DEF Get
<1>2. CASE Hits(k) = {} /\ ret' = Answer("get", k, FALSE, NoValue)
  <2>1. InTable(0, k) = {} /\ InTable(1, k) = {} /\ InQueue(k) = {}
    BY <1>2 DEF Hits
  <2>2. MissExplained
    BY <1>2, <2>1, MissedIsBehind DEF MissExplained, Answer
  <2> QED
    BY <1>1, <1>2, <2>2, SameHelpers DEF MapWithMisses!Get
<1>3. ASSUME NEW e \in Hits(k), ret' = Answer("get", k, TRUE, e.value)
      PROVE  MapWithMisses!Get(k) /\ MissExplained
  <2>1. k \in DOMAIN Dict /\ Dict[k] = e.value
    BY <1>3, HitsAreElements
  <2>2. MissExplained
    BY <1>3 DEF MissExplained, Answer
  <2> QED
    BY <1>1, <1>3, <2>1, <2>2, SameHelpers DEF MapWithMisses!Get
<1> QED
  BY <1>1, <1>2, <1>3 DEF Get, Hits

LEMMA WriteStep ==
  ASSUME IInv, NEW k \in Key, NEW v \in Value, Write(k, v)
  PROVE  IInv' /\ MapWithMisses!Write(k, v) /\ MissExplained
<1> DEFINE found == InTable(0, k) \cup InTable(1, k) \cup InQueue(k) # {}
<1>1. /\ ret' = Answer("write", k, found, NoValue)
      /\ k \in Present /\ UNCHANGED <<size, hash_key>>
  BY DEF Write
<1>2. k \in DOMAIN Dict
  BY <1>1 DEF Dict
<1>3. ASSUME found, IInv' /\ Dict' = With(Dict, k, v)
      PROVE  IInv' /\ MapWithMisses!Write(k, v) /\ MissExplained
  <2>1. ret' = Answer("write", k, TRUE, NoValue)
    BY <1>1, <1>3
  <2>2. MissExplained
    BY <2>1 DEF MissExplained, Answer
  <2> QED
    BY <1>2, <1>3, <2>1, <2>2, SameHelpers DEF MapWithMisses!Write
<1>4. ASSUME NEW t \in {0, 1}, InTable(t, k) # {},
             table' = [table EXCEPT ![t][hash_key[t][k]] = Rewritten(@, k, v)],
             UNCHANGED insertion_queue
      PROVE  IInv' /\ MapWithMisses!Write(k, v) /\ MissExplained
  <2>1. IInv' /\ Dict' = With(Dict, k, v)
    BY <1>1, <1>4, WriteInTable
  <2>2. found
    BY <1>4
  <2> QED
    BY <2>1, <2>2, <1>3
<1>5. CASE /\ InTable(0, k) = {} /\ InTable(1, k) = {} /\ InQueue(k) # {}
           /\ insertion_queue' =
                [insertion_queue EXCEPT !.elements[Min(InQueue(k))].value = Elem(k, v)]
           /\ UNCHANGED table
  <2>1. IInv' /\ Dict' = With(Dict, k, v)
    BY <1>1, <1>5, WriteInQueue
  <2>2. found
    BY <1>5
  <2> QED
    BY <2>1, <2>2, <1>3
<1>6. CASE /\ InTable(0, k) = {} /\ InTable(1, k) = {} /\ InQueue(k) = {}
           /\ UNCHANGED <<table, insertion_queue>>
  <2>1. IInv' /\ Dict' = Dict
    BY <1>1, <1>6, Unchanged
  <2>2. ret' = Answer("write", k, FALSE, NoValue)
    BY <1>1, <1>6
  <2>3. MissExplained
    BY <1>6, <2>2, MissedIsBehind DEF MissExplained, Answer
  <2> QED
    BY <1>2, <2>1, <2>2, <2>3, SameHelpers DEF MapWithMisses!Write
<1> QED
  BY <1>4, <1>5, <1>6 DEF Write

LEMMA NextStep ==
  ASSUME IInv, Next
  PROVE  IInv' /\ MapWithMisses!Next /\ MissExplained
<1>1. CASE DeamortizeInsertionQueue
  BY <1>1, DeamortizeStep DEF MapWithMisses!Next
<1>2. ASSUME NEW k \in Key, InsertCondDummy(k)
      PROVE  IInv' /\ MapWithMisses!Next /\ MissExplained
  BY <1>2, DummyStep DEF MapWithMisses!Next
<1>3. ASSUME NEW k \in Key, Get(k)
      PROVE  IInv' /\ MapWithMisses!Next /\ MissExplained
  BY <1>3, GetStep DEF MapWithMisses!Next
<1>4. ASSUME NEW k \in Key, NEW v \in Value, Insert(k, v)
      PROVE  IInv' /\ MapWithMisses!Next /\ MissExplained
  BY <1>4, InsertStep DEF MapWithMisses!Next
<1>5. ASSUME NEW k \in Key, NEW v \in Value, Write(k, v)
      PROVE  IInv' /\ MapWithMisses!Next /\ MissExplained
  BY <1>5, WriteStep DEF MapWithMisses!Next
<1> QED
  BY <1>1, <1>2, <1>3, <1>4, <1>5 DEF Next

LEMMA InitEstablishes ==
  ASSUME Init
  PROVE  IInv /\ MapWithMisses!Init
<1>1. /\ table = [t \in {0, 1} |-> [b \in Buckets |-> {}]] /\ insertion_queue = NewQueue
      /\ hash_key \in HashFunctions /\ size = 0 /\ ret = Answer("new", NoKey, FALSE, NoValue)
  BY DEF Init
<1>2. Q!Sound(NewQueue)
  BY Q!NewQueueSound, QueueConstants, SameQueue
<1>3. Enqueued(NewQueue) = {}
  BY DEF Enqueued, NewQueue
<1>4. Celled(table) = {} /\ Queued(insertion_queue) = {}
  BY <1>1, <1>3 DEF Celled, Queued
<1>5. Sound(table, insertion_queue)
  BY <1>1, <1>2, <1>3, <1>4 DEF Sound, Tables, Homed, CellsApart, SlotsApart, Keys
<1>6. Elements = {}
  BY <1>4, StoredIs DEF Elements
<1>7. Present = {} /\ Dict = [k \in {} |-> NoValue]
  BY <1>6 DEF Present, Dict
<1> QED
  BY <1>1, <1>5, <1>7, FS_EmptySet, SameHelpers DEF IInv, MapWithMisses!Init

LEMMA Invariance == Spec => []IInv
<1>1. Init => IInv
  BY InitEstablishes
<1>2. IInv /\ UNCHANGED vars => IInv'
  BY Unchanged DEF vars
<1>3. IInv /\ [Next]_vars => IInv'
  BY <1>2, NextStep
<1> QED
  BY <1>1, <1>3, PTL DEF Spec

-------------------------------------------------------------------------------
(* The places of the tables and of the queue are as many as the keys there.    *)

LEMMA SameSize ==
  ASSUME NEW S, NEW T, IsFiniteSet(T), NEW f \in [S -> T],
         \A x, y \in S : f[x] = f[y] => x = y,
         \A y \in T : \E x \in S : f[x] = y
  PROVE  IsFiniteSet(S) /\ Cardinality(S) = Cardinality(T)
<1>1. f \in Injection(S, T) /\ f \in Surjection(S, T)
  BY DEF Injection, Surjection, IsInjective
<1> QED
  BY <1>1, FS_Injection

LEMMA CellsCounted ==
  ASSUME IInv
  PROVE  Cardinality(OccupiedCells) = Cardinality(Keys(Celled(table)))
<1> DEFINE K == Keys(Celled(table))
           f == [c \in OccupiedCells |-> c[3].key]
<1>1. IsFiniteSet(K)
  <2>1. K \subseteq Present
    BY StoredIs, DictIs DEF Elements, Keys
  <2> QED
    BY <2>1, FS_Subset DEF IInv
<1>2. \A c : c \in OccupiedCells <=>
        \E t \in {0, 1} : \E b \in Buckets : \E e \in table[t][b] : c = <<t, b, e>>
  BY DEF OccupiedCells
<1>3. ASSUME NEW c \in OccupiedCells
      PROVE  c[3].key \in K
  BY <1>2, CelledMember DEF Keys
<1>4. ASSUME NEW c \in OccupiedCells, NEW d \in OccupiedCells, c[3].key = d[3].key
      PROVE  c = d
  BY <1>2, <1>4 DEF IInv, Sound, CellsApart
<1>5. ASSUME NEW k \in K
      PROVE  \E c \in OccupiedCells : c[3].key = k
  <2>1. PICK e \in Celled(table) : e.key = k
    BY DEF Keys
  <2>2. PICK t \in {0, 1}, b \in Buckets : e \in table[t][b]
    BY CelledMember
  <2>3. <<t, b, e>> \in OccupiedCells
    BY <1>2, <2>2
  <2> QED
    BY <2>1, <2>3
<1>6. /\ f \in [OccupiedCells -> K]
      /\ \A c, d \in OccupiedCells : f[c] = f[d] => c = d
      /\ \A k \in K : \E c \in OccupiedCells : f[c] = k
  BY <1>3, <1>4, <1>5
<1> HIDE DEF K, f
<1>7. Cardinality(OccupiedCells) = Cardinality(K)
  BY <1>1, <1>6, SameSize
<1> QED
  BY <1>7 DEF K

LEMMA SlotsCounted ==
  ASSUME IInv
  PROVE  insertion_queue.size = Cardinality(Keys(Queued(insertion_queue)))
<1> DEFINE K == Keys(Queued(insertion_queue))
           S == Enqueued(insertion_queue)
           f == [s \in S |-> insertion_queue.elements[s].value.key]
<1>1. IsFiniteSet(K)
  <2>1. K \subseteq Present
    BY StoredIs, DictIs DEF Elements, Keys
  <2> QED
    BY <2>1, FS_Subset DEF IInv
<1>2. \A s, o \in S : f[s] = f[o] => s = o
  BY DEF IInv, Sound, SlotsApart
<1>3. f \in [S -> K] /\ \A k \in K : \E s \in S : f[s] = k
  BY DEF Keys, Queued
<1>4. insertion_queue.size = Cardinality(S)
  BY SizeFacts
<1> HIDE DEF K, f, S
<1>5. Cardinality(S) = Cardinality(K)
  BY <1>1, <1>2, <1>3, SameSize
<1> QED
  BY <1>4, <1>5 DEF K

(* The size counts every key once: the keys of the map are exactly those of the *)
(* occupied places, and no key has two places, after any chain of kicks.       *)
THEOREM KeysOnce == Spec => []KeyAtMostOnce
<1>1. ASSUME IInv PROVE KeyAtMostOnce
  <2> DEFINE C == Keys(Celled(table))
             D == Keys(Queued(insertion_queue))
  <2>1. Present = C \cup D
    BY StoredIs, DictIs DEF Elements, Keys
  <2>2. C \cap D = {} /\ IsFiniteSet(Present) /\ size = Cardinality(Present)
    BY <1>1 DEF IInv, Sound
  <2>3. IsFiniteSet(C) /\ IsFiniteSet(D)
    BY <2>1, <2>2, FS_Subset
  <2>4. Cardinality(OccupiedCells) = Cardinality(C) /\ insertion_queue.size = Cardinality(D)
    BY <1>1, CellsCounted, SlotsCounted
  <2> HIDE DEF C, D
  <2>5. Cardinality(C \cup D) = Cardinality(C) + Cardinality(D) - Cardinality(C \cap D)
    BY <2>3, FS_Union
  <2>6. Cardinality(C \cap D) = 0
    BY <2>2, FS_EmptySet
  <2>7. Cardinality(C) \in Nat /\ Cardinality(D) \in Nat
    BY <2>3, FS_CardinalityType
  <2> QED
    BY <2>1, <2>2, <2>4, <2>5, <2>6, <2>7 DEF KeyAtMostOnce
<1> QED
  BY <1>1, Invariance, PTL

(* However often an element was kicked, it is in the bucket of its own key.    *)
THEOREM ElementsInOwnBucket == Spec => []InOwnBucket
<1>1. IInv => InOwnBucket
  BY DEF IInv, Sound, Homed, InOwnBucket
<1> QED
  BY <1>1, Invariance, PTL

(* A get or a write misses a key of the map only if its slot of the queue is   *)
(* one that the scan of the first `size` slots leaves out.                     *)
THEOREM MissesAreHidden == Spec => OnlyHiddenKeysMissed
<1>1. IInv /\ [Next]_vars => [MissExplained]_vars
  BY NextStep
<1> QED
  BY <1>1, Invariance, PTL DEF Spec, OnlyHiddenKeysMissed, MissExplained

(* The cuckoo map is a map: inserted keys stay with the value written last,    *)
(* and a lookup that does not miss answers with it.                            *)
THEOREM CuckooIsMap == Spec => ImplementsMapWithMisses
<1>1. Init => MapWithMisses!Init
  BY InitEstablishes
<1>2. IInv /\ UNCHANGED vars => UNCHANGED <<Dict, ret>>
  BY Unchanged DEF vars
<1>3. IInv /\ [Next]_vars => [MapWithMisses!Next]_(MapWithMisses!mapVars)
  BY <1>2, NextStep DEF MapWithMisses!mapVars
<1> QED
  BY <1>1, <1>3, Invariance, PTL DEF Spec, ImplementsMapWithMisses, MapWithMisses!Spec
================================================================================
