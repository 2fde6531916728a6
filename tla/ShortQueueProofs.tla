---------------------------- MODULE ShortQueueProofs ----------------------------
(* What the operations on a ShortQueue do to its slots and stamps, for every   *)
(* capacity: the facts that the proofs of its users rest on; and that a queue  *)
(* keeps its documented invariants and is first-in first-out, for every number *)
(* of operations.                                                              *)
EXTENDS ShortQueue, FiniteSetTheorems, SequenceTheorems, WellFoundedInduction, TLAPS

(* The stamps given out last, newest included: what is in the queue.           *)
Recent(q) == q.highest_timestamp - q.size + 1 .. q.highest_timestamp

(* The documented invariants leave out why popping keeps them: the stamps have *)
(* no gaps, so the second lowest one is the next one.                          *)
Sound(q) ==
  /\ q \in ShortQueue
  /\ q.size <= q.highest_timestamp
  /\ q.size = Cardinality(Enqueued(q))
  /\ \A s, t \in Enqueued(q) : q.elements[s].timestamp = q.elements[t].timestamp => s = t
  /\ Timestamps(q, Enqueued(q)) = Recent(q)
  /\ q.lowest_timestamp = IF q.size > 0 THEN q.highest_timestamp - q.size + 1
                          ELSE IF q.highest_timestamp > 0 THEN q.highest_timestamp ELSE 1

-------------------------------------------------------------------------------
(* Minima of sets of numbers, and finite sets of slots. *)

LEMMA MinOfNaturals ==
  ASSUME NEW T \in SUBSET Nat, T # {}
  PROVE  Min(T) \in T /\ \A x \in T : Min(T) <= x
<1> DEFINE R == OpToRel(<, Nat)
<1>1. \E m \in T : \A k \in T : <<k, m>> \notin R
  BY NatLessThanWellFounded, WFMin
<1>2. \A k, m \in Nat : k < m => <<k, m>> \in R
  BY DEF OpToRel
<1> HIDE DEF R
<1>3. PICK m \in T : \A k \in T : <<k, m>> \notin R
  BY <1>1
<1>4. \A k \in T : ~ (k < m)
  BY <1>2, <1>3
<1>5. \A k \in T : m <= k
  BY <1>4
<1> QED
  BY <1>5 DEF Min

LEMMA MinIs ==
  ASSUME NEW T \in SUBSET Int, NEW m \in T, \A x \in T : m <= x
  PROVE  Min(T) = m
<1>1. Min(T) \in T /\ \A x \in T : Min(T) <= x
  BY DEF Min
<1>2. \A x \in T : x <= m /\ m <= x => x = m
  OBVIOUS
<1> QED
  BY <1>1, <1>2

LEMMA SlotsFinite ==
  ASSUME NEW T \in SUBSET QSlots
  PROVE  IsFiniteSet(T) /\ Cardinality(T) \in Nat
<1>1. IsFiniteSet(QSlots)
  BY FS_Interval, QueueAssumption DEF QSlots
<1> QED
  BY <1>1, FS_Subset, FS_CardinalityType

-------------------------------------------------------------------------------
(* The operations keep the queue sound. *)

LEMMA SoundType ==
  ASSUME NEW q, Sound(q)
  PROVE  /\ q.highest_timestamp \in Nat /\ q.highest_timestamp <= MaxTimestamp
         /\ q.size \in Nat /\ q.size <= q.highest_timestamp
         /\ q.elements \in [QSlots -> ShortQueueElement]
         /\ \A s \in QSlots : /\ q.elements[s].timestamp \in Nat
                              /\ q.elements[s].value \in Element
         /\ Enqueued(q) \subseteq QSlots
         /\ IsFiniteSet(Enqueued(q)) /\ q.size = Cardinality(Enqueued(q))
<1>1. /\ q \in ShortQueue /\ q.size <= q.highest_timestamp
      /\ q.size = Cardinality(Enqueued(q))
  BY DEF Sound
<1>2. Enqueued(q) \subseteq QSlots
  BY DEF Enqueued
<1>3. IsFiniteSet(Enqueued(q))
  BY <1>2, SlotsFinite
<1> QED
  BY <1>1, <1>2, <1>3, QueueAssumption DEF ShortQueue, ShortQueueElement

(* There is a free slot to push to, so the debug assertion after the scan of   *)
(* maybe_push never fires.                                                     *)
LEMMA FreeSlot ==
  ASSUME NEW q, Sound(q), q.size < N
  PROVE  Min(QSlots \ Enqueued(q)) \in QSlots \ Enqueued(q)
<1>1. Cardinality(QSlots) = N
  BY FS_Interval, QueueAssumption DEF QSlots
<1>2. Enqueued(q) # QSlots
  BY <1>1, SoundType, QueueAssumption DEF Sound
<1>3. QSlots \ Enqueued(q) # {} /\ QSlots \ Enqueued(q) \subseteq Nat
  <2>1. QSlots \subseteq Nat
    BY QueueAssumption DEF QSlots
  <2>2. Enqueued(q) \subseteq QSlots
    BY SoundType
  <2> QED
    BY <1>2, <2>1, <2>2
<1> QED
  BY <1>3, MinOfNaturals

LEMMA PushedFields ==
  ASSUME NEW q, Sound(q), q.size < N, NEW e \in Element,
         NEW s, s = Min(QSlots \ Enqueued(q))
  PROVE  LET r == Pushed(q, e)
             h == q.highest_timestamp IN
         /\ s \in QSlots \ Enqueued(q)
         /\ r.highest_timestamp = h + 1 /\ r.size = q.size + 1
         /\ r.elements = [q.elements EXCEPT ![s] = [timestamp |-> h + 1, value |-> e]]
         /\ Enqueued(r) = Enqueued(q) \cup {s}
         /\ Timestamps(r, Enqueued(r)) = Timestamps(q, Enqueued(q)) \cup {h + 1}
<1> DEFINE r == Pushed(q, e)
           h == q.highest_timestamp
<1>1. s \in QSlots \ Enqueued(q)
  BY FreeSlot
<1>2. /\ r.highest_timestamp = h + 1 /\ r.size = q.size + 1
      /\ r.elements = [q.elements EXCEPT ![s] = [timestamp |-> h + 1, value |-> e]]
  BY DEF Pushed
<1>3. /\ h \in Nat /\ q.elements \in [QSlots -> ShortQueueElement]
      /\ \A t \in QSlots : q.elements[t].timestamp \in Nat
  BY SoundType
<1> HIDE DEF r, h
<1>4. /\ r.elements[s].timestamp = h + 1
      /\ \A t \in QSlots \ {s} : r.elements[t] = q.elements[t]
  BY <1>1, <1>2, <1>3
<1>5. Enqueued(r) = Enqueued(q) \cup {s}
  <2>1. r.elements[s].timestamp # 0
    BY <1>3, <1>4
  <2>2. \A t \in QSlots \ {s} : r.elements[t].timestamp = q.elements[t].timestamp
    BY <1>4
  <2> QED
    BY <1>1, <2>1, <2>2 DEF Enqueued
<1>6. Timestamps(r, Enqueued(r)) = Timestamps(q, Enqueued(q)) \cup {h + 1}
  <2>1. \A t \in Enqueued(q) : t \in QSlots \ {s}
    BY <1>1 DEF Enqueued
  <2> QED
    BY <1>4, <1>5, <2>1 DEF Timestamps
<1> QED
  BY <1>1, <1>2, <1>5, <1>6 DEF r, h

LEMMA PushedSound ==
  ASSUME NEW q, Sound(q), q.size < N, q.highest_timestamp < MaxTimestamp,
         NEW e \in Element
  PROVE  Sound(Pushed(q, e))
<1> DEFINE r == Pushed(q, e)
           h == q.highest_timestamp
           s == Min(QSlots \ Enqueued(q))
<1>1. /\ s \in QSlots \ Enqueued(q)
      /\ r.highest_timestamp = h + 1 /\ r.size = q.size + 1
      /\ r.elements = [q.elements EXCEPT ![s] = [timestamp |-> h + 1, value |-> e]]
      /\ Enqueued(r) = Enqueued(q) \cup {s}
      /\ Timestamps(r, Enqueued(r)) = Timestamps(q, Enqueued(q)) \cup {h + 1}
  BY PushedFields
<1>2. /\ h \in Nat /\ h < MaxTimestamp /\ q.size \in Nat /\ q.size <= h
      /\ q.elements \in [QSlots -> ShortQueueElement]
      /\ Enqueued(q) \subseteq QSlots /\ IsFiniteSet(Enqueued(q))
  BY SoundType
<1>3. /\ Timestamps(q, Enqueued(q)) = h - q.size + 1 .. h
      /\ q.size = Cardinality(Enqueued(q))
      /\ \A t, u \in Enqueued(q) : q.elements[t].timestamp = q.elements[u].timestamp => t = u
  BY DEF Sound, Recent
<1>4. r.lowest_timestamp = h - q.size + 1
  <2>1. r.lowest_timestamp = Min({h + 1} \cup (h - q.size + 1 .. h))
    BY <1>3 DEF Pushed
  <2> DEFINE T == {h + 1} \cup (h - q.size + 1 .. h)
             m == h - q.size + 1
  <2>2. T \subseteq Int /\ m \in T /\ \A x \in T : m <= x
    BY <1>2
  <2> HIDE DEF T, m
  <2>3. Min(T) = m
    BY <2>2, MinIs
  <2> QED
    BY <2>1, <2>3 DEF T, m
<1>5. r \in ShortQueue
  <2>1. r = [elements |-> r.elements, highest_timestamp |-> r.highest_timestamp,
             lowest_timestamp |-> r.lowest_timestamp, size |-> r.size]
    BY DEF Pushed
  <2>2. r.elements \in [QSlots -> ShortQueueElement]
    BY <1>1, <1>2, QueueAssumption DEF ShortQueueElement
  <2>3. r.highest_timestamp \in 0 .. MaxTimestamp /\ r.lowest_timestamp \in 1 .. MaxTimestamp
    BY <1>1, <1>2, <1>4, QueueAssumption
  <2>4. r.size \in 0 .. N
    BY <1>1, <1>2, QueueAssumption
  <2> HIDE DEF r
  <2> QED
    BY <2>1, <2>2, <2>3, <2>4 DEF ShortQueue
<1> HIDE DEF r, h, s
<1>6. r.size = Cardinality(Enqueued(r))
  <2>1. Cardinality(Enqueued(q) \cup {s}) = Cardinality(Enqueued(q)) + 1
    BY <1>1, <1>2, FS_AddElement
  <2> QED
    BY <1>1, <1>3, <2>1
<1>7. \A t, u \in Enqueued(r) : r.elements[t].timestamp = r.elements[u].timestamp => t = u
  <2>1. \A t \in Enqueued(q) : q.elements[t].timestamp \in h - q.size + 1 .. h
    BY <1>3 DEF Timestamps
  <2>2. /\ r.elements[s].timestamp = h + 1
        /\ \A t \in Enqueued(q) : t # s /\ r.elements[t] = q.elements[t]
    BY <1>1, <1>2
  <2> QED
    BY <1>1, <1>2, <1>3, <2>1, <2>2
<1>8. Timestamps(r, Enqueued(r)) = Recent(r)
  <2>1. (h - q.size + 1 .. h) \cup {h + 1} = (h + 1) - (q.size + 1) + 1 .. h + 1
    BY <1>2
  <2> QED
    BY <1>1, <1>3, <2>1 DEF Recent
<1>9. r.size > 0 /\ r.lowest_timestamp = r.highest_timestamp - r.size + 1
      /\ r.size <= r.highest_timestamp
  BY <1>1, <1>2, <1>4
<1> QED
  BY <1>5, <1>6, <1>7, <1>8, <1>9 DEF Sound, r

LEMMA PoppedFields ==
  ASSUME NEW q, Sound(q), q.size > 0
  PROVE  LET r == Popped(q)
             h == q.highest_timestamp IN
         \E o \in Enqueued(q) :
           /\ q.elements[o].timestamp = h - q.size + 1
           /\ Oldest(q) = {o}
           /\ r.highest_timestamp = h /\ r.size = q.size - 1
           /\ r.elements \in [QSlots -> ShortQueueElement]
           /\ \A s \in QSlots \ {o} : r.elements[s] = q.elements[s]
           /\ Enqueued(r) = Enqueued(q) \ {o}
           /\ Timestamps(q, Enqueued(q) \ {o}) = h - q.size + 2 .. h
           /\ Timestamps(r, Enqueued(r)) = h - q.size + 2 .. h
<1> DEFINE r == Popped(q)
           h == q.highest_timestamp
<1>1. /\ h \in Nat /\ q.size \in Nat /\ q.size <= h
      /\ q.elements \in [QSlots -> ShortQueueElement]
      /\ \A s \in QSlots : q.elements[s].timestamp \in Nat
      /\ Enqueued(q) \subseteq QSlots
  BY SoundType
<1>2. /\ Timestamps(q, Enqueued(q)) = h - q.size + 1 .. h
      /\ \A s, t \in Enqueued(q) : q.elements[s].timestamp = q.elements[t].timestamp => s = t
      /\ q.lowest_timestamp = h - q.size + 1
  BY DEF Sound, Recent
<1>3. /\ r.highest_timestamp = h /\ r.size = q.size - 1
      /\ r.elements = Cleared(q, Oldest(q))
  BY DEF Popped
<1> HIDE DEF r, h
<1>4. h - q.size + 1 \in h - q.size + 1 .. h /\ h - q.size + 1 # 0
  BY <1>1
<1>5. PICK o \in Enqueued(q) : q.elements[o].timestamp = h - q.size + 1
  BY <1>2, <1>4 DEF Timestamps
<1>6. Oldest(q) = {o}
  BY <1>1, <1>2, <1>4, <1>5 DEF Oldest, Enqueued
<1>7. /\ r.elements[o] = [q.elements[o] EXCEPT !.timestamp = 0]
      /\ \A s \in QSlots \ {o} : r.elements[s] = q.elements[s]
      /\ r.elements \in [QSlots -> ShortQueueElement]
  <2>1. \A e \in ShortQueueElement : [e EXCEPT !.timestamp = 0] \in ShortQueueElement
    BY QueueAssumption DEF ShortQueueElement
  <2> QED
    BY <1>1, <1>3, <1>5, <1>6, <2>1 DEF Cleared
<1>8. Enqueued(r) = Enqueued(q) \ {o}
  <2>1. r.elements[o].timestamp = 0
    BY <1>1, <1>5, <1>7 DEF ShortQueueElement
  <2> QED
    BY <1>7, <2>1 DEF Enqueued
<1>9. Timestamps(q, Enqueued(q) \ {o}) = h - q.size + 2 .. h
  <2>1. Timestamps(q, Enqueued(q) \ {o})
          = Timestamps(q, Enqueued(q)) \ {q.elements[o].timestamp}
    BY <1>2, <1>5 DEF Timestamps
  <2>2. (h - q.size + 1 .. h) \ {h - q.size + 1} = h - q.size + 2 .. h
    BY <1>1
  <2> QED
    BY <1>2, <1>5, <2>1, <2>2
<1>10. Timestamps(r, Enqueued(r)) = h - q.size + 2 .. h
  <2>1. \A s \in Enqueued(q) \ {o} : r.elements[s].timestamp = q.elements[s].timestamp
    BY <1>1, <1>7
  <2>2. Timestamps(r, Enqueued(r)) = Timestamps(q, Enqueued(q) \ {o})
    BY <1>8, <2>1 DEF Timestamps
  <2> QED
    BY <1>9, <2>2
<1> QED
  BY <1>3, <1>5, <1>6, <1>7, <1>8, <1>9, <1>10 DEF r, h

LEMMA PoppedSound ==
  ASSUME NEW q, Sound(q), q.size > 0
  PROVE  Sound(Popped(q))
<1> DEFINE r == Popped(q)
           h == q.highest_timestamp
<1>1. PICK o \in Enqueued(q) :
           /\ q.elements[o].timestamp = h - q.size + 1
           /\ Oldest(q) = {o}
           /\ r.highest_timestamp = h /\ r.size = q.size - 1
           /\ r.elements \in [QSlots -> ShortQueueElement]
           /\ \A s \in QSlots \ {o} : r.elements[s] = q.elements[s]
           /\ Enqueued(r) = Enqueued(q) \ {o}
           /\ Timestamps(q, Enqueued(q) \ {o}) = h - q.size + 2 .. h
           /\ Timestamps(r, Enqueued(r)) = h - q.size + 2 .. h
  BY PoppedFields
<1>2. /\ h \in Nat /\ h <= MaxTimestamp /\ q.size \in Nat /\ q.size <= h
      /\ Enqueued(q) \subseteq QSlots /\ IsFiniteSet(Enqueued(q))
  BY SoundType
<1>3. /\ q.size = Cardinality(Enqueued(q)) /\ q.size <= N
      /\ \A s, t \in Enqueued(q) : q.elements[s].timestamp = q.elements[t].timestamp => s = t
  BY DEF Sound, ShortQueue
<1>4. r.lowest_timestamp = IF q.size - 1 > 0 THEN h - q.size + 2 ELSE h
  <2>1. r.lowest_timestamp = Min({h} \cup (h - q.size + 2 .. h))
    BY <1>1 DEF Popped
  <2> DEFINE T == {h} \cup (h - q.size + 2 .. h)
             m == IF q.size - 1 > 0 THEN h - q.size + 2 ELSE h
  <2>2. T \subseteq Int /\ m \in T /\ \A x \in T : m <= x
    BY <1>2
  <2> HIDE DEF T, m
  <2>3. Min(T) = m
    BY <2>2, MinIs
  <2> QED
    BY <2>1, <2>3 DEF T, m
<1>5. r \in ShortQueue
  <2>1. r = [elements |-> r.elements, highest_timestamp |-> r.highest_timestamp,
             lowest_timestamp |-> r.lowest_timestamp, size |-> r.size]
    BY DEF Popped
  <2>2. r.highest_timestamp \in 0 .. MaxTimestamp /\ r.lowest_timestamp \in 1 .. MaxTimestamp
    BY <1>1, <1>2, <1>4, QueueAssumption
  <2>3. r.size \in 0 .. N
    BY <1>1, <1>2, <1>3, QueueAssumption
  <2> HIDE DEF r
  <2> QED
    BY <1>1, <2>1, <2>2, <2>3 DEF ShortQueue
<1> HIDE DEF r, h
<1>6. r.size = Cardinality(Enqueued(r))
  <2>1. Cardinality(Enqueued(q) \ {o}) = Cardinality(Enqueued(q)) - 1
    BY <1>2, FS_RemoveElement
  <2> QED
    BY <1>1, <1>3, <2>1
<1>7. \A s, t \in Enqueued(r) : r.elements[s].timestamp = r.elements[t].timestamp => s = t
  BY <1>1, <1>2, <1>3
<1>8. Timestamps(r, Enqueued(r)) = Recent(r)
  <2>1. h - q.size + 2 = h - (q.size - 1) + 1
    BY <1>2
  <2> QED
    BY <1>1, <2>1 DEF Recent
<1>9. /\ r.size <= r.highest_timestamp
      /\ r.lowest_timestamp = IF r.size > 0 THEN r.highest_timestamp - r.size + 1
                              ELSE IF r.highest_timestamp > 0 THEN r.highest_timestamp ELSE 1
  BY <1>1, <1>2, <1>4
<1> QED
  BY <1>5, <1>6, <1>7, <1>8, <1>9 DEF Sound, r

LEMMA NewQueueSound == Sound(NewQueue)
<1>1. NewQueue \in ShortQueue
  BY QueueAssumption DEF NewQueue, ShortQueue, ShortQueueElement
<1>2. Enqueued(NewQueue) = {}
  BY DEF NewQueue, Enqueued
<1>3. Cardinality(Enqueued(NewQueue)) = 0
  BY <1>2, FS_EmptySet
<1>4. /\ NewQueue.size = 0 /\ NewQueue.highest_timestamp = 0
      /\ NewQueue.lowest_timestamp = 1
  BY DEF NewQueue
<1>5. Timestamps(NewQueue, Enqueued(NewQueue)) = Recent(NewQueue)
  BY <1>2, <1>4 DEF Timestamps, Recent
<1> QED
  BY <1>1, <1>2, <1>3, <1>4, <1>5 DEF Sound

-------------------------------------------------------------------------------
(* The operations on the slots are those of a sequence. *)

LEMMA ContentsAt ==
  ASSUME NEW q, Sound(q), NEW i \in 1 .. q.size
  PROVE  /\ \E s \in Enqueued(q) : q.elements[s].timestamp = q.highest_timestamp - q.size + i
         /\ \A s \in Enqueued(q) :
              q.elements[s].timestamp = q.highest_timestamp - q.size + i
                => Contents(q)[i] = q.elements[s].value
<1> DEFINE t == q.highest_timestamp - q.size + i
<1>1. t \in q.highest_timestamp - q.size + 1 .. q.highest_timestamp
  BY SoundType
<1>2. /\ Timestamps(q, Enqueued(q)) = q.highest_timestamp - q.size + 1 .. q.highest_timestamp
      /\ \A s, u \in Enqueued(q) : q.elements[s].timestamp = q.elements[u].timestamp => s = u
  BY DEF Sound, Recent
<1>3. \E s \in Enqueued(q) : q.elements[s].timestamp = t
  BY <1>1, <1>2 DEF Timestamps
<1>4. Stamped(q, t) \in Enqueued(q) /\ q.elements[Stamped(q, t)].timestamp = t
  BY <1>3 DEF Stamped
<1>5. Contents(q)[i] = q.elements[Stamped(q, t)].value
  BY DEF Contents
<1> QED
  BY <1>2, <1>3, <1>4, <1>5

LEMMA ContentsType ==
  ASSUME NEW q, Sound(q)
  PROVE  Contents(q) \in Seq(Element) /\ Len(Contents(q)) = q.size
<1>1. ASSUME NEW i \in 1 .. q.size
      PROVE  Contents(q)[i] \in Element
  BY ContentsAt, SoundType
<1>2. Contents(q) \in [1 .. q.size -> Element]
  BY <1>1 DEF Contents
<1> QED
  BY <1>2, SoundType

LEMMA PushedContents ==
  ASSUME NEW q, Sound(q), q.size < N, q.highest_timestamp < MaxTimestamp,
         NEW e \in Element
  PROVE  Contents(Pushed(q, e)) = Append(Contents(q), e)
<1> DEFINE r == Pushed(q, e)
           h == q.highest_timestamp
           s == Min(QSlots \ Enqueued(q))
<1>1. /\ s \in QSlots \ Enqueued(q)
      /\ r.highest_timestamp = h + 1 /\ r.size = q.size + 1
      /\ r.elements = [q.elements EXCEPT ![s] = [timestamp |-> h + 1, value |-> e]]
      /\ Enqueued(r) = Enqueued(q) \cup {s}
  BY PushedFields
<1>2. /\ h \in Nat /\ q.size \in Nat
      /\ q.elements \in [QSlots -> ShortQueueElement]
      /\ Enqueued(q) \subseteq QSlots
  BY SoundType
<1>3. Sound(r)
  BY PushedSound
<1> HIDE DEF r, h, s
<1>4. /\ r.elements[s] = [timestamp |-> h + 1, value |-> e]
      /\ \A u \in Enqueued(q) : r.elements[u] = q.elements[u]
  BY <1>1, <1>2
<1>5. ASSUME NEW i \in 1 .. q.size
      PROVE  Contents(r)[i] = Contents(q)[i]
  <2>1. PICK u \in Enqueued(q) : q.elements[u].timestamp = h - q.size + i
    BY ContentsAt DEF h
  <2>2. Contents(q)[i] = q.elements[u].value
    BY <2>1, ContentsAt DEF h
  <2>3. /\ u \in Enqueued(r) /\ i \in 1 .. r.size
        /\ r.elements[u].timestamp = r.highest_timestamp - r.size + i
    BY <1>1, <1>2, <1>4, <2>1
  <2>4. Contents(r)[i] = r.elements[u].value
    BY <1>3, <2>3, ContentsAt
  <2> QED
    BY <1>4, <2>2, <2>4
<1>6. Contents(r)[q.size + 1] = e
  <2>1. /\ s \in Enqueued(r) /\ q.size + 1 \in 1 .. r.size
        /\ r.elements[s].timestamp = r.highest_timestamp - r.size + (q.size + 1)
    BY <1>1, <1>2, <1>4
  <2>2. Contents(r)[q.size + 1] = r.elements[s].value
    BY <1>3, <2>1, ContentsAt
  <2> QED
    BY <1>4, <2>2
<1>7. /\ Contents(q) \in Seq(Element) /\ Len(Contents(q)) = q.size
      /\ Contents(r) \in Seq(Element) /\ Len(Contents(r)) = q.size + 1
  BY <1>1, <1>3, ContentsType
<1>8. /\ Append(Contents(q), e) \in Seq(Element)
      /\ Len(Append(Contents(q), e)) = q.size + 1
      /\ \A i \in 1 .. q.size : Append(Contents(q), e)[i] = Contents(q)[i]
      /\ Append(Contents(q), e)[q.size + 1] = e
  BY <1>7
<1>9. \A i \in 1 .. q.size + 1 : i = q.size + 1 \/ i \in 1 .. q.size
  BY <1>2
<1>10. \A i \in 1 .. q.size + 1 : Contents(r)[i] = Append(Contents(q), e)[i]
  BY <1>5, <1>6, <1>8, <1>9
<1>11. Contents(r) = Append(Contents(q), e)
  BY <1>7, <1>8, <1>10, SeqEqual
<1> QED
  BY <1>11 DEF r

LEMMA PoppedContents ==
  ASSUME NEW q, Sound(q), q.size > 0, NEW o0
  PROVE  /\ Front(q, o0) = Head(Contents(q))
         /\ Contents(Popped(q)) = Tail(Contents(q))
         /\ Contents(q) # << >>
<1> DEFINE r == Popped(q)
           h == q.highest_timestamp
<1>1. PICK o \in Enqueued(q) :
           /\ q.elements[o].timestamp = h - q.size + 1
           /\ Oldest(q) = {o}
           /\ r.highest_timestamp = h /\ r.size = q.size - 1
           /\ \A s \in QSlots \ {o} : r.elements[s] = q.elements[s]
           /\ Enqueued(r) = Enqueued(q) \ {o}
  BY PoppedFields
<1>2. h \in Nat /\ q.size \in Nat /\ Enqueued(q) \subseteq QSlots
  BY SoundType
<1>3. Sound(r)
  BY PoppedSound
<1> HIDE DEF r, h
<1>4. /\ Contents(q) \in Seq(Element) /\ Len(Contents(q)) = q.size
      /\ Contents(r) \in Seq(Element) /\ Len(Contents(r)) = q.size - 1
  BY <1>1, <1>3, ContentsType
<1>5. Front(q, o0) = Contents(q)[1]
  <2>1. Contents(q)[1] = q.elements[o].value
    BY <1>1, <1>2, ContentsAt DEF h
  <2>2. Max({o}) = o
    BY <1>2, QueueAssumption DEF Max, QSlots
  <2> QED
    BY <1>1, <2>1, <2>2 DEF Front
<1>6. ASSUME NEW i \in 1 .. q.size - 1
      PROVE  Contents(r)[i] = Contents(q)[i + 1]
  <2>1. i + 1 \in 1 .. q.size
    BY <1>2
  <2>2. PICK u \in Enqueued(q) : q.elements[u].timestamp = h - q.size + (i + 1)
    BY <2>1, ContentsAt DEF h
  <2>3. Contents(q)[i + 1] = q.elements[u].value
    BY <2>1, <2>2, ContentsAt DEF h
  <2>4. u # o
    BY <1>1, <1>2, <2>2
  <2>5. /\ u \in Enqueued(r) /\ i \in 1 .. r.size
        /\ r.elements[u] = q.elements[u]
    BY <1>1, <1>2, <2>4
  <2>6. r.elements[u].timestamp = r.highest_timestamp - r.size + i
    BY <1>1, <1>2, <2>2, <2>5
  <2>7. Contents(r)[i] = r.elements[u].value
    BY <1>3, <2>5, <2>6, ContentsAt
  <2> QED
    BY <2>3, <2>5, <2>7
<1>7. /\ Contents(q) # << >>
      /\ Tail(Contents(q)) \in Seq(Element) /\ Len(Tail(Contents(q))) = q.size - 1
      /\ \A i \in 1 .. q.size - 1 : Tail(Contents(q))[i] = Contents(q)[i + 1]
  <2>1. Contents(q) # << >>
    BY <1>2, <1>4
  <2> QED
    BY <1>4, <2>1, HeadTailProperties
<1>8. Contents(r) = Tail(Contents(q))
  BY <1>4, <1>6, <1>7, SeqEqual
<1>9. Front(q, o0) = Head(Contents(q)) /\ Contents(q) # << >>
  BY <1>5, <1>7
<1> QED
  BY <1>8, <1>9 DEF r

LEMMA FrontType ==
  ASSUME NEW q, Sound(q), q.size > 0, NEW x
  PROVE  Front(q, x) \in Element
<1>1. Front(q, x) = Head(Contents(q))
  BY PoppedContents
<1> QED
  BY <1>1, ContentsType, SoundType

-------------------------------------------------------------------------------
(* The theorems. *)

IInv == Sound(queue) /\ out \in Element

LEMMA InitSound == Init => IInv
BY NewQueueSound, QueueAssumption DEF Init, IInv

LEMMA NextSound == IInv /\ [Next]_vars => IInv'
<1> SUFFICES ASSUME IInv, [Next]_vars PROVE IInv'
  OBVIOUS
<1> USE DEF IInv
<1>1. ASSUME NEW real \in BOOLEAN, NEW e \in Element, MaybePush(real, e)
      PROVE  IInv'
  BY <1>1, PushedSound DEF MaybePush
<1>2. ASSUME NEW real \in BOOLEAN, MaybePop(real)
      PROVE  IInv'
  BY <1>2, PoppedSound, FrontType DEF MaybePop
<1>3. CASE UNCHANGED vars
  BY <1>3 DEF vars
<1> QED
  BY <1>1, <1>2, <1>3 DEF Next

LEMMA Invariance == Spec => []IInv
BY InitSound, NextSound, PTL DEF Spec

(* Types: timestamps and size stay within their bounds, for every N. *)
THEOREM TypeCorrect == Spec => []TypeOK
<1>1. IInv => TypeOK
  BY DEF IInv, TypeOK, Sound
<1> QED
  BY <1>1, Invariance, PTL

LEMMA SoundIsDocumented == IInv => DocumentedInvariants /\ NoGaps
<1> SUFFICES ASSUME IInv PROVE DocumentedInvariants /\ NoGaps
  OBVIOUS
<1> DEFINE q == queue
<1>1. /\ q.highest_timestamp \in Nat /\ q.size \in Nat /\ q.size <= q.highest_timestamp
  BY SoundType DEF IInv
<1>2. /\ q.size = Cardinality(Enqueued(q))
      /\ \A s, t \in Enqueued(q) : q.elements[s].timestamp = q.elements[t].timestamp => s = t
      /\ Timestamps(q, Enqueued(q)) = q.highest_timestamp - q.size + 1 .. q.highest_timestamp
      /\ q.lowest_timestamp = IF q.size > 0 THEN q.highest_timestamp - q.size + 1
                              ELSE IF q.highest_timestamp > 0 THEN q.highest_timestamp ELSE 1
  BY DEF IInv, Sound, Recent
<1>3. q.size > 0 =>
        /\ q.lowest_timestamp \in q.highest_timestamp - q.size + 1 .. q.highest_timestamp
        /\ q.highest_timestamp \in q.highest_timestamp - q.size + 1 .. q.highest_timestamp
        /\ q.highest_timestamp - q.size + 1 = q.lowest_timestamp
  BY <1>1, <1>2
<1>4. q.size = 0 => Enqueued(q) = {}
  BY <1>2, SlotsFinite, FS_EmptySet DEF Enqueued
<1>5. \A s \in Enqueued(q) :
        q.elements[s].timestamp \in q.lowest_timestamp .. q.highest_timestamp
  BY <1>1, <1>2, <1>3, <1>4 DEF Timestamps
<1>6. q.lowest_timestamp # 0
  BY <1>1, <1>2
<1> QED
  BY <1>2, <1>3, <1>5, <1>6 DEF DocumentedInvariants, NoGaps

(* The invariants documented on the struct hold after every operation. *)
THEOREM Documented == Spec => []DocumentedInvariants
BY SoundIsDocumented, Invariance, PTL

(* The stamps in the queue are the last ones given out, without gaps. *)
THEOREM Gapless == Spec => []NoGaps
BY SoundIsDocumented, Invariance, PTL

LEMMA InitFifo == Init => Fifo!Init
<1> SUFFICES ASSUME Init PROVE Contents(queue) = << >> /\ out = DefaultElement
  BY DEF Fifo!Init
<1>1. queue.size = 0 /\ Sound(queue)
  BY NewQueueSound DEF Init, NewQueue
<1>2. Contents(queue) \in Seq(Element) /\ Len(Contents(queue)) = 0
  BY <1>1, ContentsType
<1> QED
  BY <1>2, EmptySeq DEF Init

LEMMA StepFifo == IInv /\ [Next]_vars => [Fifo!Next]_Fifo!fifoVars
<1> SUFFICES ASSUME IInv, [Next]_vars PROVE [Fifo!Next]_Fifo!fifoVars
  OBVIOUS
<1> USE DEF IInv
<1>1. ASSUME NEW e \in Element, MaybePush(TRUE, e)
      PROVE  Fifo!Push(e)
  <2>1. /\ queue.size < N /\ queue.highest_timestamp < MaxTimestamp
        /\ queue' = Pushed(queue, e) /\ UNCHANGED out
    BY <1>1 DEF MaybePush
  <2>2. Contents(queue') = Append(Contents(queue), e)
    BY <2>1, PushedContents
  <2>3. Len(Contents(queue)) = queue.size
    BY ContentsType, SoundType
  <2> QED
    BY <2>1, <2>2, <2>3 DEF Fifo!Push
<1>2. CASE MaybePop(TRUE)
  <2>1. queue.size > 0 /\ queue' = Popped(queue) /\ out' = Front(queue, out)
    BY <1>2 DEF MaybePop
  <2>2. /\ Contents(queue') = Tail(Contents(queue)) /\ out' = Head(Contents(queue))
        /\ Contents(queue) # << >>
    BY <2>1, PoppedContents
  <2> QED
    BY <2>2 DEF Fifo!Pop, Fifo!Next
<1>3. ASSUME NEW e \in Element, MaybePush(FALSE, e)
      PROVE  UNCHANGED Fifo!fifoVars
  BY <1>3 DEF MaybePush, Fifo!fifoVars
<1>4. CASE MaybePop(FALSE)
  BY <1>4 DEF MaybePop, Fifo!fifoVars
<1>5. CASE UNCHANGED vars
  BY <1>5 DEF vars, Fifo!fifoVars
<1> QED
  BY <1>1, <1>2, <1>3, <1>4, <1>5 DEF Next, Fifo!Next

(* The queue is first-in first-out, for every capacity. *)
THEOREM QueueIsFifo == Spec => ImplementsFifo
BY InitFifo, StepFifo, Invariance, PTL DEF Spec, ImplementsFifo, Fifo!Spec
================================================================================
