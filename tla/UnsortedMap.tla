------------------------------ MODULE UnsortedMap ------------------------------
(* UnsortedMap (datastructures/src/map.rs): cuckoo hashing over two tables,    *)
(* with a queue of the elements that have no bucket yet.  A bucket is the set  *)
(* of its valid elements: no operation depends on their order.  The two tables *)
(* are assumed to be plain arrays.  Module Arrays does not show that for this  *)
(* use: the tables share a multiway array of size table_size, and once all     *)
(* 2 * table_size buckets are written, its ORAM has more blocks than leaves.   *)
EXTENDS Maps, FiniteSetsExt

CONSTANTS Key, Value,
          Default,                    \* value of a default InlineElement
          DefaultKey,
          NoKey, NoValue,
          table_size,
          BUCKET_SIZE,
          INSERTION_QUEUE_MAX_SIZE,
          HashFunctions,              \* the pairs of hash functions considered
          MaxTimestamp                \* usize::MAX of the queue's stamps

ASSUME MapAssumption ==
  /\ Default \in Value /\ NoValue \notin Value
  /\ DefaultKey \in Key /\ NoKey \notin Key
  /\ table_size \in Nat \ {0, 1}
  /\ BUCKET_SIZE \in Nat \ {0}
  /\ INSERTION_QUEUE_MAX_SIZE \in Nat \ {0} /\ MaxTimestamp \in Nat \ {0}
  /\ HashFunctions \subseteq [{0, 1} -> [Key -> 0 .. table_size - 1]]

InlineElement == [key : Key, value : Value]
Elem(k, v) == [key |-> k, value |-> v]

INSTANCE QueueOps WITH N <- INSERTION_QUEUE_MAX_SIZE, Element <- InlineElement,
                       DefaultElement <- Elem(DefaultKey, Default)

VARIABLES size,            \* number of keys inserted
          table,           \* table -> bucket -> its valid elements
          hash_key,        \* table -> key -> bucket, drawn by new()
          insertion_queue,
          ret              \* the last call and its answer

vars == <<size, table, hash_key, insertion_queue, ret>>

Buckets == 0 .. table_size - 1

Init == /\ size = 0
        /\ table = [t \in {0, 1} |-> [b \in Buckets |-> {}]]
        /\ hash_key \in HashFunctions
        /\ insertion_queue = NewQueue
        /\ ret = Answer("new", NoKey, FALSE, NoValue)

(* Mutant of Placed: the kicked element is not taken out of its bucket. *)
Placed_VictimStays(tab, t, b, element) ==
  IF Cardinality(tab[t][b]) < BUCKET_SIZE
  THEN {[table |-> [tab EXCEPT ![t][b] = @ \cup {element}], pending |-> {}]}
  ELSE {[table |-> [tab EXCEPT ![t][b] = @ \cup {element}], pending |-> {victim}] :
          victim \in tab[t][b]}

(* The element goes to bucket b of table t, or, if that is full, takes the     *)
(* place of a random element there, which is then the pending one.             *)
Placed(tab, t, b, element) ==
  IF Cardinality(tab[t][b]) < BUCKET_SIZE
  THEN {[table |-> [tab EXCEPT ![t][b] = @ \cup {element}], pending |-> {}]}
  ELSE {[table |-> [tab EXCEPT ![t][b] = (@ \ {victim}) \cup {element}],
         pending |-> {victim}] : victim \in tab[t][b]}

(* Mutant of try_insert_entry: the second table uses the bucket of the element *)
(* that was inserted instead of the one that was kicked.                       *)
try_insert_entry_StaleHash(tab, element) ==
  UNION {IF r.pending = {} THEN {r}
         ELSE UNION {Placed(r.table, 0, hash_key[0][element.key], e) : e \in r.pending} :
           r \in Placed(tab, 1, hash_key[1][element.key], element)}

(* Table 1 first, then, for what is still pending, table 0. *)
try_insert_entry(tab, element) ==
  UNION {IF r.pending = {} THEN {r}
         ELSE UNION {Placed(r.table, 0, hash_key[0][e.key], e) : e \in r.pending} :
           r \in Placed(tab, 1, hash_key[1][element.key], element)}

(* Mutant of Requeued: the element kicked last is forgotten. *)
Requeued_Forgets(q, pending) == q

Requeued(q, pending) == IF pending = {} THEN q ELSE Pushed(q, CHOOSE e \in pending : TRUE)

(* One round: the oldest queued element moves to a table, and what it kicked   *)
(* out, if anything, goes to the back of the queue.                            *)
Round(st) ==
  IF st.queue.size = 0 THEN {st}
  ELSE {[table |-> r.table, queue |-> Requeued(Popped(st.queue), r.pending)] :
          r \in try_insert_entry(st.table, Front(st.queue, Elem(DefaultKey, Default)))}

(* DEAMORTIZED_INSERTIONS = 2 rounds. *)
Deamortized(q) == UNION {Round(st) : st \in Round([table |-> table, queue |-> q])}

StampsLeft == insertion_queue.highest_timestamp + 3 <= MaxTimestamp

(* The keys of the tables and of the queue, valid or hidden from a scan. *)
Stored(tab, q) == (UNION {UNION {tab[t][b] : b \in Buckets} : t \in {0, 1}})
                  \cup {q.elements[s].value : s \in Enqueued(q)}
Elements == Stored(table, insertion_queue)
Present == {e.key : e \in Elements}

(* insert, and insert_cond with real = true.  The caller must not insert a key *)
(* twice; a full queue panics.                                                 *)
Insert(k, v) ==
  /\ k \notin Present
  /\ insertion_queue.size < INSERTION_QUEUE_MAX_SIZE /\ StampsLeft
  /\ \E st \in Deamortized(Pushed(insertion_queue, Elem(k, v))) :
       table' = st.table /\ insertion_queue' = st.queue
  /\ size' = size + 1
  /\ ret' = Answer("insert", k, FALSE, NoValue)
  /\ UNCHANGED hash_key

(* insert_cond with real = false still moves queued elements. *)
InsertCondDummy(k) ==
  /\ insertion_queue.size < INSERTION_QUEUE_MAX_SIZE /\ StampsLeft
  /\ \E st \in Deamortized(insertion_queue) :
       table' = st.table /\ insertion_queue' = st.queue
  /\ ret' = Answer("insert_cond", k, FALSE, NoValue)
  /\ UNCHANGED <<size, hash_key>>

DeamortizeInsertionQueue ==
  /\ StampsLeft
  /\ \E st \in Deamortized(insertion_queue) :
       table' = st.table /\ insertion_queue' = st.queue
  /\ ret' = Answer("deamortize", NoKey, FALSE, NoValue)
  /\ UNCHANGED <<size, hash_key>>

(* Mutant of ScannedSlots: the scan stops one slot early. *)
ScannedSlots_OneLess(q) == {s \in Enqueued(q) : s < q.size - 1}

(* get and write scan the first `size` slots of the queue, not all of them. *)
ScannedSlots(q) == {s \in Enqueued(q) : s < q.size}

InTable(t, k) == {e \in table[t][hash_key[t][k]] : e.key = k}
InQueue(k) == {s \in ScannedSlots(insertion_queue) : insertion_queue.elements[s].value.key = k}

Get(k) ==
  LET hits == InTable(0, k) \cup InTable(1, k)
                \cup {insertion_queue.elements[s].value : s \in InQueue(k)} IN
  /\ \/ hits = {} /\ ret' = Answer("get", k, FALSE, NoValue)
     \/ \E e \in hits : ret' = Answer("get", k, TRUE, e.value)
  /\ UNCHANGED <<size, table, hash_key, insertion_queue>>

Rewritten(bucket, k, v) == {IF e.key = k THEN Elem(k, v) ELSE e : e \in bucket}

(* The first place that has the key is changed; with none the code panics. *)
Write(k, v) ==
  /\ k \in Present
  /\ \/ \E t \in {0, 1} :
          /\ InTable(t, k) # {}
          /\ t = 1 => InTable(0, k) = {}
          /\ table' = [table EXCEPT ![t][hash_key[t][k]] = Rewritten(@, k, v)]
          /\ UNCHANGED insertion_queue
     \/ /\ InTable(0, k) = {} /\ InTable(1, k) = {} /\ InQueue(k) # {}
        /\ insertion_queue' =
             [insertion_queue EXCEPT !.elements[Min(InQueue(k))].value = Elem(k, v)]
        /\ UNCHANGED table
     \/ /\ InTable(0, k) = {} /\ InTable(1, k) = {} /\ InQueue(k) = {}
        /\ UNCHANGED <<table, insertion_queue>>
  /\ ret' = Answer("write", k, InTable(0, k) \cup InTable(1, k) \cup InQueue(k) # {}, NoValue)
  /\ UNCHANGED <<size, hash_key>>

Next == \/ DeamortizeInsertionQueue
        \/ \E k \in Key : \/ InsertCondDummy(k) \/ Get(k)
                          \/ \E v \in Value : Insert(k, v) \/ Write(k, v)

Spec == Init /\ [][Next]_vars
-------------------------------------------------------------------------------
(* The documented invariant: a key is at most once in the two tables and the   *)
(* queue together; and size, which only insertions change, counts the keys, so *)
(* no chain of kicks ever loses or copies an element.                          *)
OccupiedCells ==
  UNION {UNION {{<<t, b, e>> : e \in table[t][b]} : b \in Buckets} : t \in {0, 1}}
KeyAtMostOnce == /\ size = Cardinality(OccupiedCells) + insertion_queue.size
                 /\ size = Cardinality(Present)

(* An element of a table is in the bucket its own key hashes to, however often *)
(* it was kicked from one table to the other.                                  *)
InOwnBucket == \A t \in {0, 1} : \A b \in Buckets : \A e \in table[t][b] :
                 hash_key[t][e.key] = b

Dict == [k \in Present |-> (CHOOSE e \in Elements : e.key = k).value]

MapWithMisses == INSTANCE KeyedMap WITH dict <- Dict, Hidden <- TRUE

(* The map's contents are exactly what was inserted and written last, and a    *)
(* key that get does find has that value.                                      *)
ImplementsMapWithMisses == MapWithMisses!Spec

(* A lookup misses a key of the map only if the key is queued in a slot that   *)
(* lies behind the first `size` ones.                                          *)
OnlyHiddenKeysMissed ==
  [][ret'.op \in {"get", "write"} /\ ~ret'.found /\ ret'.key \in Present
       => \E s \in Enqueued(insertion_queue) :
            s >= insertion_queue.size /\ insertion_queue.elements[s].value.key = ret'.key]_vars

(* What the documentation of get says and test_full_map asserts: get returns   *)
(* true for every key of the map.                                              *)
GetFindsEveryKey ==
  [][ret'.op = "get" => ret'.found = (ret'.key \in Present)]_vars
================================================================================
