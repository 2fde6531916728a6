----------------------------- MODULE ShardedProofs -----------------------------
(* The calls of ShardedMap, for any number of workers, any batches and hash    *)
(* functions, and whatever the order in which commands are served: replies are *)
(* never mixed up, the workers' maps stay copies of one map, and a call takes  *)
(* effect as a whole.  Of the computations around the protocol only their      *)
(* contract is used.                                                           *)
EXTENDS ShardedMap, FiniteSetTheorems, SequenceTheorems, TLAPS

Inserts == {"insert_batch", "insert_batch_distinct"}
Tasks == Range(call.plan.tasks)
Task(w, cmd) == [worker |-> w, cmd |-> cmd]

IsSeq(s) == s \in Seq(Range(s))
Channels(c) == DOMAIN c = Workers /\ \A w \in Workers : IsSeq(c[w])
UnderwayIn(c) == UNION {{w} \X DOMAIN c[w] : w \in Workers}

TypeInv ==
  /\ part \in Partitions
  /\ pc \in {"barrier", "idle", "sending", "receiving", "panicked", "dropping", "dropped"}
  /\ status \in [Workers -> {"spawned", "at_barrier", "serving", "stopped", "dead"}]
  /\ Channels(cmds) /\ IsFiniteSet(UnderwayIn(cmds))
  /\ DOMAIN map = Workers
  /\ IsSeq(outbox) /\ IsSeq(response_channel) /\ IsSeq(done_rx)
  /\ expected \in Int

(* No worker serves before all have arrived, and none stops before the drop.   *)
ThreadsInv ==
  \A w \in Workers :
    /\ pc = "barrier" <=> status[w] \in {"spawned", "at_barrier"}
    /\ pc \notin {"dropping", "dropped"} =>
         /\ status[w] # "stopped"
         /\ \A c \in Range(cmds[w]) : c.kind # "Shutdown"

(* The maps of the workers are copies of parts of dict, and make up all of it. *)
Agree(dict) ==
  /\ \A w \in Workers : \A k \in DOMAIN map[w] : k \in DOMAIN dict /\ map[w][k] = dict[k]
  /\ \A k \in DOMAIN dict : k \in Key /\ k \in DOMAIN map[part[k]]

Quiet == /\ \A w \in Workers : cmds[w] = << >>
         /\ outbox = << >> /\ response_channel = << >> /\ done_rx = << >>

IdleInv ==
  /\ AllAlive /\ Quiet
  /\ Agree(Stored)
  /\ IsFiniteSet(DOMAIN Stored) /\ size = Cardinality(DOMAIN Stored)

(* What is fixed while a call lasts: its tasks do what the contract says.      *)
Kind(op) == CASE op = "get_batch" -> "Getv2"
              [] op = "insert_batch" -> "Insertv2"
              [] op = "insert_batch_distinct" -> "Insert"
              [] OTHER -> "Get"

Known ==
  /\ call.op \in Gets \cup Inserts
  /\ call.op \in RepeatedKeys \/ Distinct(call.keys)
  /\ call.keys \in KeyBatches /\ call.b \in 0 .. BatchLen(call.keys)
  /\ IsFiniteSet(DOMAIN call.before)
  /\ Dispatched(call.plan.tasks, Kind(call.op), call.b)
  /\ call.op \in {"get_batch_distinct", "get_batch_leaky"} =>
       IndexedTasks(call.plan.tasks, call.keys, part, call.b)
  /\ call.op = "get_batch" /\ Distinct(call.keys) =>
       Routes(SourcesIn(call.plan, call.b, BatchLen(call.keys)), call.plan.tasks, call.keys, part, call.b)
  /\ call.op \in Inserts =>
       /\ InsertionTasks(call.plan.tasks, Kind(call.op), call.keys, call.values, part, call.b)
       /\ call.values \in ValueBatches /\ DOMAIN call.values = DOMAIN call.keys
       /\ Range(call.keys) \cap DOMAIN call.before = {}
  /\ call.op = "insert_batch_distinct" => Distinct(call.keys)

FromTasks ==
  /\ Range(outbox) \subseteq Tasks
  /\ \A w \in Workers : \A c \in Range(cmds[w]) : Task(w, c) \in Tasks
  /\ pc = "receiving" => outbox = << >>

Due == Len(outbox) + Commands + Len(WaitsOn)

Waiting(t) == t \in Range(outbox) \/ t.cmd \in Range(cmds[t.worker])

(* A get: every task waits, or its reply does, or its answers are in place.    *)
Placed(t) == \A x \in DOMAIN t.cmd.blocks :
               results[SlotOf(t, x, call.b)] = Reply(t.worker, t.cmd).blocks[x]

Getting ==
  /\ Stored = call.before /\ Agree(call.before)
  /\ \A r \in Range(WaitsOn) : \E t \in Tasks : r = Reply(t.worker, t.cmd)
  /\ DOMAIN results = Slots(call.b)
  /\ \A t \in Tasks : Waiting(t) \/ Reply(t.worker, t.cmd) \in Range(WaitsOn) \/ Placed(t)

(* An insertion: of the values for each key, val is the one all tasks carry.   *)
Chosen(val) ==
  /\ val \in [Range(call.keys) -> Range(call.values)]
  /\ \A k \in Range(call.keys) :
       \E i \in DOMAIN call.keys : call.keys[i] = k /\ call.values[i] = val[k]
  /\ \A k \in Range(call.keys) : \E t \in Tasks : \E x \in DOMAIN t.cmd.blocks :
       Live(t, x) /\ t.worker = part[k] /\ KeyOf(t.cmd, x) = k
  /\ \A t \in Tasks : \A x \in DOMAIN t.cmd.blocks :
       Live(t, x) => /\ KeyOf(t.cmd, x) \in Range(call.keys)
                     /\ ValueOf(t.cmd, x) = val[KeyOf(t.cmd, x)]

Within(val) ==
  \A w \in Workers : \A k \in DOMAIN map[w] :
    \/ k \in DOMAIN call.before /\ map[w][k] = call.before[k]
    \/ k \in Range(call.keys) /\ map[w][k] = val[k]

Arrived(t) == \A x \in DOMAIN t.cmd.blocks : Live(t, x) => KeyOf(t.cmd, x) \in DOMAIN map[t.worker]

Inserting ==
  /\ \A r \in Range(WaitsOn) : r.kind = "Unit"
  /\ \A k \in DOMAIN call.before : k \in Key /\ k \in DOMAIN map[part[k]]
  /\ \E val : Chosen(val) /\ Within(val)
  /\ \A t \in Tasks : Waiting(t) \/ Arrived(t)

(* Once a worker has died its reply is missing for good. *)
CallInv ==
  /\ Known /\ FromTasks
  /\ ~AllAlive => expected > Due
  /\ AllAlive =>
       /\ expected = Due
       /\ Len(response_channel) + Len(done_rx) = Len(WaitsOn)
       /\ size = Cardinality(DOMAIN call.before)
                   + (IF call.op = "insert_batch" THEN Cardinality(Range(call.keys)) ELSE 0)
       /\ call.op \in Gets => Getting
       /\ call.op \in Inserts => Inserting

EndInv == AllAlive => \A w \in Workers : \A c \in Range(cmds[w]) : c.kind = "Shutdown"

IInv ==
  /\ TypeInv /\ ThreadsInv
  /\ pc = "barrier" => call = NoCall /\ \A w \in Workers : map[w] = << >>
  /\ pc \in {"barrier", "idle"} => IdleInv
  /\ InCall => CallInv
  /\ pc \in {"panicked", "dropping", "dropped"} => EndInv
-------------------------------------------------------------------------------
(* Sequences and the number of commands underway. *)
LEMMA SeqIs ==
  ASSUME NEW s
  PROVE  /\ IsSeq(s) => /\ Len(s) \in Nat /\ DOMAIN s = 1 .. Len(s) /\ s = [i \in 1 .. Len(s) |-> s[i]]
         /\ \A n \in Nat : DOMAIN s = 1 .. n /\ s = [i \in 1 .. n |-> s[i]] => IsSeq(s) /\ Len(s) = n
<1>1. ASSUME IsSeq(s) PROVE /\ Len(s) \in Nat /\ DOMAIN s = 1 .. Len(s) /\ s = [i \in 1 .. Len(s) |-> s[i]]
  BY <1>1 DEF IsSeq
<1>2. ASSUME NEW n \in Nat, DOMAIN s = 1 .. n, s = [i \in 1 .. n |-> s[i]]
      PROVE  IsSeq(s) /\ Len(s) = n
  <2>1. s \in [1 .. n -> Range(s)]
    BY <1>2 DEF Range
  <2>2. s \in Seq(Range(s))
    BY <2>1
  <2> QED
    BY <1>2, <2>2 DEF IsSeq
<1> QED
  BY <1>1, <1>2

LEMMA SeqHead ==
  ASSUME NEW s, IsSeq(s), s # << >>
  PROVE  /\ Head(s) \in Range(s) /\ IsSeq(Tail(s))
         /\ Range(s) = {Head(s)} \cup Range(Tail(s))
         /\ Len(s) > 0 /\ Len(Tail(s)) = Len(s) - 1
<1> DEFINE T == Range(s)
<1>1. s \in Seq(T) /\ Len(s) \in Nat /\ Len(s) > 0
  BY DEF IsSeq
<1>2. /\ Head(s) = s[1] /\ Tail(s) \in Seq(T) /\ Len(Tail(s)) = Len(s) - 1
      /\ \A i \in 1 .. Len(s) - 1 : Tail(s)[i] = s[i + 1]
  BY <1>1, HeadTailProperties
<1>3. DOMAIN s = 1 .. Len(s) /\ DOMAIN Tail(s) = 1 .. Len(s) - 1
  BY <1>1, <1>2
<1>4. IsSeq(Tail(s)) /\ Len(Tail(s)) = Len(s) - 1
  BY <1>2, SeqOfRange DEF IsSeq
<1>5. Range(s) \subseteq {Head(s)} \cup Range(Tail(s))
  <2> SUFFICES ASSUME NEW i \in 1 .. Len(s), i # 1 PROVE s[i] \in Range(Tail(s))
    BY <1>2, <1>3 DEF Range
  <2>1. i - 1 \in DOMAIN Tail(s) /\ Tail(s)[i - 1] = s[i]
    BY <1>1, <1>2, <1>3
  <2> QED
    BY <2>1 DEF Range
<1>6. Range(Tail(s)) \subseteq Range(s) /\ Head(s) \in Range(s)
  BY <1>1, <1>2, <1>3 DEF Range
<1> QED
  BY <1>1, <1>4, <1>5, <1>6

LEMMA SeqAppend ==
  ASSUME NEW s, IsSeq(s), NEW e
  PROVE  /\ IsSeq(Append(s, e)) /\ Range(Append(s, e)) = Range(s) \cup {e}
         /\ Len(Append(s, e)) = Len(s) + 1 /\ Append(s, e) # << >>
<1> DEFINE T == Range(s) \cup {e}
           a == Append(s, e)
<1>1. s \in Seq(Range(s)) /\ Len(s) \in Nat /\ DOMAIN s = 1 .. Len(s)
  BY DEF IsSeq
<1>2. s \in Seq(T)
  <2>1. s \in [1 .. Len(s) -> Range(s)]
    BY <1>1
  <2>2. s \in [1 .. Len(s) -> T]
    BY <2>1
  <2> QED
    BY <1>1, <2>2
<1>3. a \in Seq(T) /\ Len(a) = Len(s) + 1 /\ DOMAIN a = 1 .. Len(s) + 1
  BY <1>1, <1>2
<1>4. /\ \A i \in 1 .. Len(s) : a[i] = s[i]
      /\ a[Len(s) + 1] = e
  BY <1>1, <1>2
<1>5. Range(a) = T
  <2>1. Range(a) \subseteq T
    BY <1>3 DEF Range
  <2>2. Range(s) \subseteq Range(a)
    <3> SUFFICES ASSUME NEW i \in 1 .. Len(s) PROVE s[i] \in Range(a)
      BY <1>1 DEF Range
    <3>1. i \in DOMAIN a /\ a[i] = s[i]
      BY <1>1, <1>3, <1>4
    <3> QED
      BY <3>1 DEF Range
  <2>3. e \in Range(a)
    <3>1. Len(s) + 1 \in DOMAIN a
      BY <1>1, <1>3
    <3> QED
      BY <3>1, <1>4 DEF Range
  <2> QED
    BY <2>1, <2>2, <2>3
<1> QED
  BY <1>1, <1>3, <1>5 DEF IsSeq

LEMMA EmptyRange ==
  /\ IsSeq(<< >>) /\ Range(<< >>) = {} /\ Len(<< >>) = 0
  /\ \A s : IsSeq(s) /\ Len(s) = 0 => s = << >>
BY DEF IsSeq, Range

LEMMA UnderwayAre ==
  ASSUME NEW c
  PROVE  \A p : p \in UnderwayIn(c) <=> \E w \in Workers : \E i \in DOMAIN c[w] : p = <<w, i>>
BY DEF UnderwayIn

(* One more command and one less. *)
LEMMA OneMore ==
  ASSUME NEW c, Channels(c), IsFiniteSet(UnderwayIn(c)), NEW w \in Workers, NEW e
  PROVE  LET d == [c EXCEPT ![w] = Append(@, e)] IN
         /\ Channels(d) /\ IsFiniteSet(UnderwayIn(d))
         /\ Cardinality(UnderwayIn(d)) = Cardinality(UnderwayIn(c)) + 1
<1> DEFINE d == [c EXCEPT ![w] = Append(@, e)]
           new == <<w, Len(c[w]) + 1>>
<1>1. DOMAIN d = Workers /\ d[w] = Append(c[w], e) /\ \A v \in Workers : v # w => d[v] = c[v]
  BY DEF Channels
<1>2. IsSeq(d[w]) /\ DOMAIN d[w] = 1 .. Len(c[w]) + 1 /\ DOMAIN c[w] = 1 .. Len(c[w]) /\ Len(c[w]) \in Nat
  BY <1>1, SeqAppend, SeqIs DEF Channels
<1> HIDE DEF d
<1>3. UnderwayIn(d) = UnderwayIn(c) \cup {new}
  <2>1. ASSUME NEW p PROVE p \in UnderwayIn(d) <=> p \in UnderwayIn(c) \/ p = new
    <3>1. ASSUME NEW v \in Workers, NEW i \in DOMAIN d[v]
          PROVE  <<v, i>> = new \/ i \in DOMAIN c[v]
      BY <1>1, <1>2
    <3>2. ASSUME NEW v \in Workers, NEW i \in DOMAIN c[v]
          PROVE  i \in DOMAIN d[v]
      BY <1>1, <1>2
    <3>3. Len(c[w]) + 1 \in DOMAIN d[w]
      BY <1>2
    <3> QED
      BY <3>1, <3>2, <3>3, UnderwayAre
  <2> QED
    BY <2>1
<1>4. new \notin UnderwayIn(c)
  <2>1. Len(c[w]) + 1 \notin DOMAIN c[w]
    BY <1>2
  <2> QED
    BY <2>1, UnderwayAre
<1>5. Channels(d)
  BY <1>1, <1>2 DEF Channels
<1> QED
  BY <1>3, <1>4, <1>5, FS_AddElement DEF d

LEMMA OneLess ==
  ASSUME NEW c, Channels(c), IsFiniteSet(UnderwayIn(c)), NEW w \in Workers, c[w] # << >>
  PROVE  LET d == [c EXCEPT ![w] = Tail(@)] IN
         /\ Channels(d) /\ IsFiniteSet(UnderwayIn(d))
         /\ Cardinality(UnderwayIn(d)) = Cardinality(UnderwayIn(c)) - 1
<1> DEFINE d == [c EXCEPT ![w] = Tail(@)]
           old == <<w, Len(c[w])>>
<1>1. DOMAIN d = Workers /\ d[w] = Tail(c[w]) /\ \A v \in Workers : v # w => d[v] = c[v]
  BY DEF Channels
<1>2. /\ IsSeq(d[w]) /\ DOMAIN d[w] = 1 .. Len(c[w]) - 1 /\ DOMAIN c[w] = 1 .. Len(c[w])
      /\ Len(c[w]) \in Nat /\ Len(c[w]) > 0
  BY <1>1, SeqHead, SeqIs DEF Channels
<1> HIDE DEF d
<1>3. UnderwayIn(d) = UnderwayIn(c) \ {old}
  <2>1. ASSUME NEW p PROVE p \in UnderwayIn(d) <=> p \in UnderwayIn(c) /\ p # old
    <3>1. ASSUME NEW v \in Workers, NEW i \in DOMAIN c[v]
          PROVE  <<v, i>> = old \/ i \in DOMAIN d[v]
      BY <1>1, <1>2
    <3>2. ASSUME NEW v \in Workers, NEW i \in DOMAIN d[v]
          PROVE  i \in DOMAIN c[v] /\ <<v, i>> # old
      BY <1>1, <1>2
    <3> QED
      BY <3>1, <3>2, UnderwayAre
  <2> QED
    BY <2>1
<1>4. old \in UnderwayIn(c)
  <2>1. Len(c[w]) \in DOMAIN c[w]
    BY <1>2
  <2> QED
    BY <2>1, UnderwayAre
<1>5. Channels(d)
  BY <1>1, <1>2 DEF Channels
<1> QED
  BY <1>3, <1>4, <1>5, FS_RemoveElement DEF d

LEMMA SomeLess ==
  ASSUME NEW c, Channels(c), IsFiniteSet(UnderwayIn(c)), NEW w \in Workers, c[w] # << >>
  PROVE  LET d == [c EXCEPT ![w] = << >>] IN
         /\ Channels(d) /\ IsFiniteSet(UnderwayIn(d))
         /\ Cardinality(UnderwayIn(d)) < Cardinality(UnderwayIn(c))
<1> DEFINE d == [c EXCEPT ![w] = << >>]
<1>1. DOMAIN d = Workers /\ d[w] = << >> /\ \A v \in Workers : v # w => d[v] = c[v]
  BY DEF Channels
<1>2. IsSeq(d[w]) /\ DOMAIN d[w] = {} /\ DOMAIN c[w] = 1 .. Len(c[w]) /\ Len(c[w]) \in Nat /\ Len(c[w]) > 0
  BY <1>1, EmptyRange, SeqHead, SeqIs DEF Channels
<1> HIDE DEF d
<1>3. UnderwayIn(d) \subseteq UnderwayIn(c)
  <2>1. ASSUME NEW v \in Workers, NEW i \in DOMAIN d[v]
        PROVE  i \in DOMAIN c[v]
    BY <1>1, <1>2
  <2> QED
    BY <2>1, UnderwayAre
<1>4. <<w, 1>> \in UnderwayIn(c) /\ <<w, 1>> \notin UnderwayIn(d)
  <2>1. 1 \in DOMAIN c[w] /\ 1 \notin DOMAIN d[w]
    BY <1>2
  <2> QED
    BY <2>1, UnderwayAre
<1>5. Channels(d)
  BY <1>1, <1>2 DEF Channels
<1>6. /\ IsFiniteSet(UnderwayIn(d)) /\ Cardinality(UnderwayIn(d)) <= Cardinality(UnderwayIn(c))
      /\ Cardinality(UnderwayIn(d)) # Cardinality(UnderwayIn(c))
  BY <1>3, <1>4, FS_Subset
<1>7. Cardinality(UnderwayIn(d)) \in Nat /\ Cardinality(UnderwayIn(c)) \in Nat
  BY <1>6, FS_CardinalityType
<1> QED
  BY <1>5, <1>6, <1>7 DEF d

LEMMA NoneUnderway ==
  ASSUME NEW c, Channels(c), IsFiniteSet(UnderwayIn(c))
  PROVE  /\ Cardinality(UnderwayIn(c)) \in Nat
         /\ Cardinality(UnderwayIn(c)) = 0 <=> \A w \in Workers : c[w] = << >>
<1>1. Cardinality(UnderwayIn(c)) \in Nat
  BY FS_CardinalityType
<1>2. Cardinality(UnderwayIn(c)) = 0 <=> UnderwayIn(c) = {}
  BY FS_EmptySet
<1>3. ASSUME UnderwayIn(c) = {}, NEW w \in Workers PROVE c[w] = << >>
  <2>1. DOMAIN c[w] = 1 .. Len(c[w]) /\ Len(c[w]) \in Nat
    BY SeqIs DEF Channels
  <2>2. 1 \notin DOMAIN c[w]
    BY <1>3, UnderwayAre
  <2>3. Len(c[w]) = 0
    BY <2>1, <2>2
  <2> QED
    BY <2>3, EmptyRange DEF Channels
<1>4. ASSUME \A w \in Workers : c[w] = << >> PROVE UnderwayIn(c) = {}
  <2>1. \A w \in Workers : DOMAIN c[w] = {}
    BY <1>4
  <2> QED
    BY <2>1, UnderwayAre
<1> QED
  BY <1>1, <1>2, <1>3, <1>4

-------------------------------------------------------------------------------
(* The commands of a call, and what a worker does with one. *)
LEMMA CommandsIs ==
  Commands = Cardinality(UnderwayIn(cmds)) /\ Commands' = Cardinality(UnderwayIn(cmds'))
BY DEF Commands, Underway, UnderwayIn

LEMMA WorkersAre ==
  /\ P \in Nat /\ P > 0 /\ 0 \in Workers
  /\ \A p \in Partitions, k \in Key : p[k] \in Workers
BY TasksAssumption, ShardedAssumption DEF Workers

LEMMA TaskIs ==
  ASSUME Known, NEW t \in Tasks
  PROVE  /\ t = Task(t.worker, t.cmd) /\ t.worker \in Workers
         /\ t.cmd.kind = Kind(call.op) /\ IsSeq(t.cmd.blocks)
BY DEF Known, Dispatched, Tasks, Task, IsSeq

LEMMA SharedIs ==
  ASSUME Known, NEW c, c.kind = Kind(call.op)
  PROVE  /\ OnSharedChannel(c) <=> call.op \in Batched
         /\ c.kind # "Shutdown"
         /\ c.kind \in {"Insert", "Insertv2"} <=> call.op \in Inserts
         /\ c.kind \in {"Get", "Getv2"} <=> call.op \in Gets
<1>1. call.op \in {"get_batch_distinct", "get_batch_leaky", "get_batch", "insert_batch",
                   "insert_batch_distinct"}
  BY DEF Known, Gets, Inserts
<1> QED
  BY <1>1 DEF Kind, OnSharedChannel, Batched, Gets, Inserts

LEMMA ReplyIs ==
  ASSUME Known, NEW t \in Tasks
  PROVE  /\ call.op \in Inserts => Reply(t.worker, t.cmd).kind = "Unit"
         /\ call.op \in Gets =>
              LET r == Reply(t.worker, t.cmd) IN
              /\ r.kind = "Blocks" /\ r.pid = t.worker /\ r.offset = t.cmd.offset
              /\ IsSeq(r.blocks) /\ Len(r.blocks) = Len(t.cmd.blocks)
              /\ DOMAIN r.blocks = DOMAIN t.cmd.blocks
              /\ \A x \in DOMAIN t.cmd.blocks :
                   r.blocks[x] = IF t.cmd.kind = "Get"
                                 THEN [t.cmd.blocks[x] EXCEPT !.v = Found(t.worker, t.cmd.blocks[x].k)]
                                 ELSE Found(t.worker, t.cmd.blocks[x].key)
<1>1. CASE call.op \in Inserts
  <2>1. t.cmd.kind \in {"Insert", "Insertv2"} /\ call.op \notin Gets
    BY <1>1, TaskIs, SharedIs DEF Inserts, Gets
  <2> QED
    BY <2>1 DEF Reply
<1>2. CASE call.op \in Gets
  <2> DEFINE r == Reply(t.worker, t.cmd)
             n == Len(t.cmd.blocks)
             f(x) == IF t.cmd.kind = "Get"
                     THEN [t.cmd.blocks[x] EXCEPT !.v = Found(t.worker, t.cmd.blocks[x].k)]
                     ELSE Found(t.worker, t.cmd.blocks[x].key)
  <2>1. t.cmd.kind \in {"Get", "Getv2"} /\ call.op \notin Inserts
    BY <1>2, TaskIs, SharedIs DEF Inserts, Gets
  <2>2. t.cmd.kind = "Get" => t.cmd.offset = 0
    BY TaskIs DEF Known, Dispatched, Tasks
  <2>3. n \in Nat /\ DOMAIN t.cmd.blocks = 1 .. n
    BY TaskIs, SeqIs
  <2>4. r = [kind |-> "Blocks", pid |-> t.worker, offset |-> t.cmd.offset,
             blocks |-> [x \in 1 .. n |-> f(x)]]
    <3>1. CASE t.cmd.kind = "Get"
      BY <2>2, <2>3, <3>1 DEF Reply
    <3>2. CASE t.cmd.kind = "Getv2"
      BY <2>3, <3>2 DEF Reply
    <3> QED
      BY <2>1, <3>1, <3>2
  <2> HIDE DEF r, f
  <2>5. r.kind = "Blocks" /\ r.pid = t.worker /\ r.offset = t.cmd.offset /\ r.blocks = [x \in 1 .. n |-> f(x)]
    BY <2>4
  <2>6. DOMAIN r.blocks = 1 .. n /\ r.blocks = [x \in 1 .. n |-> r.blocks[x]]
    BY <2>5
  <2>7. IsSeq(r.blocks) /\ Len(r.blocks) = n
    BY <2>3, <2>6, SeqIs
  <2>8. \A x \in 1 .. n : r.blocks[x] = f(x)
    BY <2>5
  <2> QED
    BY <2>1, <2>3, <2>5, <2>6, <2>7, <2>8 DEF r, f
<1> QED
  BY <1>1, <1>2 DEF Known

LEMMA WithAllIs ==
  ASSUME NEW m, NEW pairs, NEW a, a = WithAll(m, pairs)
  PROVE  /\ \A k : k \in DOMAIN a <=> k \in DOMAIN m \/ \E kv \in pairs : kv[1] = k
         /\ \A k \in DOMAIN m : a[k] = m[k]
         /\ \A k \in DOMAIN a : k \notin DOMAIN m => \E kv \in pairs : kv[1] = k /\ a[k] = kv[2]
<1>1. ASSUME NEW k, k \notin DOMAIN m, k \in {kv[1] : kv \in pairs}
      PROVE  LET kv == CHOOSE kv \in pairs : kv[1] = k IN kv \in pairs /\ kv[1] = k
  BY <1>1
<1> QED
  BY <1>1 DEF WithAll

LEMMA InsertedAre ==
  ASSUME Known, NEW w \in Workers, NEW c, Task(w, c) \in Tasks, NEW val, Chosen(val)
  PROVE  \A kv \in Inserted(w, c) : kv[1] \in Range(call.keys) /\ kv[2] = val[kv[1]]
<1> SUFFICES ASSUME NEW x \in DOMAIN c.blocks, Live(Task(w, c), x)
             PROVE  KeyOf(c, x) \in Range(call.keys) /\ ValueOf(c, x) = val[KeyOf(c, x)]
  BY DEF Inserted, Task
<1>1. Task(w, c).cmd = c
  BY DEF Task
<1> QED
  BY <1>1 DEF Chosen

-------------------------------------------------------------------------------
(* The start. *)
LEMMA BatchesAre ==
  ASSUME NEW keys \in KeyBatches
  PROVE  /\ IsFiniteSet(DOMAIN keys) /\ BatchLen(keys) \in Nat
         /\ keys \in [0 .. BatchLen(keys) - 1 -> Key] /\ Range(keys) \subseteq Key
         /\ IsFiniteSet(Range(keys))
         /\ Distinct(keys) => Cardinality(Range(keys)) = BatchLen(keys)
<1>1. IsFiniteSet(DOMAIN keys) /\ keys \in [0 .. BatchLen(keys) - 1 -> Key]
  BY ShardedAssumption
<1>2. BatchLen(keys) \in Nat
  BY <1>1, FS_CardinalityType DEF BatchLen
<1>3. Range(keys) \subseteq Key
  BY <1>1 DEF Range
<1>4. keys \in Surjection(DOMAIN keys, Range(keys))
  <2>1. keys \in [DOMAIN keys -> Range(keys)]
    BY <1>1 DEF Range
  <2>2. \A y \in Range(keys) : \E x \in DOMAIN keys : keys[x] = y
    BY DEF Range
  <2> QED
    BY <2>1, <2>2 DEF Surjection
<1>5. IsFiniteSet(Range(keys))
  BY <1>1, <1>4, FS_Surjection
<1>6. ASSUME Distinct(keys) PROVE Cardinality(Range(keys)) = BatchLen(keys)
  <2>1. keys \in [DOMAIN keys -> Range(keys)]
    BY <1>1 DEF Range
  <2>2. keys \in Injection(DOMAIN keys, Range(keys))
    BY <1>6, <2>1 DEF Distinct, IsInjective, Injection
  <2> QED
    BY <1>1, <1>4, <2>2, FS_Surjection DEF BatchLen
<1> QED
  BY <1>1, <1>2, <1>3, <1>5, <1>6

LEMMA InitIsIInv == Init => IInv
<1> SUFFICES ASSUME Init PROVE IInv
  OBVIOUS
<1> USE DEF Init
<1>1. /\ \A w \in Workers : cmds[w] = << >> /\ map[w] = << >>
      /\ DOMAIN cmds = Workers /\ DOMAIN map = Workers
      /\ pc = "barrier" /\ part \in Partitions
  OBVIOUS
<1>2. UnderwayIn(cmds) = {} /\ Channels(cmds) /\ \A w \in Workers : Range(cmds[w]) = {}
  <2>1. \A w \in Workers : DOMAIN cmds[w] = {}
    BY <1>1
  <2> QED
    BY <2>1, <1>1, EmptyRange, UnderwayAre DEF Channels
<1>3. TypeInv
  <2>1. expected \in Int /\ status \in [Workers -> {"spawned", "at_barrier", "serving", "stopped", "dead"}]
    OBVIOUS
  <2>2. IsSeq(outbox) /\ IsSeq(response_channel) /\ IsSeq(done_rx)
    BY EmptyRange
  <2>3. IsFiniteSet(UnderwayIn(cmds))
    BY <1>2, FS_EmptySet
  <2> HIDE DEF Init
  <2> QED
    BY <1>1, <1>2, <2>1, <2>2, <2>3 DEF TypeInv
<1>4. ThreadsInv /\ AllAlive
  BY <1>1, <1>2 DEF ThreadsInv, AllAlive
<1>5. DOMAIN Stored = {}
  <2>1. \A k \in Key : DOMAIN map[part[k]] = {}
    BY <1>1, WorkersAre
  <2> QED
    BY <2>1 DEF Stored
<1>6. IdleInv
  <2>1. Agree(Stored)
    BY <1>1, <1>5 DEF Agree
  <2> QED
    BY <1>1, <1>4, <1>5, <2>1, FS_EmptySet DEF IdleInv, Quiet
<1> QED
  BY <1>1, <1>3, <1>4, <1>6 DEF IInv, InCall

LEMMA BarrierStep ==
  ASSUME IInv, \/ \E w \in Workers : ArriveAtBarrier(w)
               \/ Started
  PROVE  IInv' /\ Stored' = Stored /\ pc = "barrier" /\ pc' \in {"barrier", "idle"}
         /\ call = NoCall /\ call' = NoCall /\ AllAlive /\ AllAlive'
<1>1. /\ pc = "barrier" /\ pc' \in {"barrier", "idle"}
      /\ status' \in [Workers -> {"spawned", "at_barrier", "serving", "stopped", "dead"}]
      /\ \A w \in Workers : pc' = "barrier" <=> status'[w] \in {"spawned", "at_barrier"}
      /\ \A w \in Workers : status'[w] \notin {"stopped", "dead"}
  <2>1. CASE Started
    BY <2>1 DEF Started
  <2>2. ASSUME NEW w \in Workers, ArriveAtBarrier(w)
        PROVE  <1>1!:
    BY <2>2 DEF ArriveAtBarrier, IInv, TypeInv, ThreadsInv
  <2> QED
    BY <2>1, <2>2
<1>2. UNCHANGED <<part, size, call, outbox, expected, results, map, cmds, response_channel, done_rx>>
  BY DEF ArriveAtBarrier, Started, callVars
<1>3. TypeInv' /\ ThreadsInv' /\ AllAlive'
  BY <1>1, <1>2 DEF IInv, TypeInv, ThreadsInv, AllAlive, Channels
<1>4. Stored' = Stored
  BY <1>2 DEF Stored
<1>5. IdleInv'
  BY <1>1, <1>2, <1>3, <1>4 DEF IInv, IdleInv, Agree, Quiet
<1> QED
  BY <1>1, <1>2, <1>3, <1>4, <1>5 DEF IInv, IdleInv, InCall
-------------------------------------------------------------------------------
(* A call begins. *)
LEMMA RefusedStep ==
  ASSUME IInv, pc = "idle", Refused
  PROVE  IInv' /\ Stored' = Stored
<1>1. UNCHANGED <<part, size, outbox, expected, results, joining, status, map, cmds,
                  response_channel, done_rx>> /\ pc' = "panicked"
  BY DEF Refused
<1>2. TypeInv' /\ ThreadsInv'
  BY <1>1 DEF IInv, TypeInv, ThreadsInv, Channels
<1>3. EndInv'
  BY <1>1, EmptyRange DEF IInv, IdleInv, Quiet, EndInv
<1> QED
  BY <1>1, <1>2, <1>3 DEF IInv, InCall, Stored

LEMMA PreparedStep ==
  ASSUME IInv, pc = "idle", Known',
         NEW op, NEW keys, NEW values, NEW b, NEW plan, Prepared(op, keys, values, b, plan),
         size' = size + (IF op = "insert_batch" THEN Cardinality(Range(keys)) ELSE 0)
  PROVE  IInv' /\ Stored' = Stored /\ call'.before = Stored
<1>1. /\ call' = [op |-> op, keys |-> keys, values |-> values, b |-> b, before |-> Stored,
                  plan |-> plan]
      /\ outbox' = plan.tasks /\ expected' = SentCount(plan.tasks)
      /\ results' = [s \in Slots(b) |-> NoAnswer]
      /\ done_rx' = << >> /\ pc' = "sending"
      /\ UNCHANGED <<part, joining, status, map, cmds, response_channel>>
  BY DEF Prepared
<1>2. /\ call'.op = op /\ call'.keys = keys /\ call'.values = values /\ call'.b = b
      /\ call'.before = Stored /\ call'.plan = plan /\ Tasks' = Range(plan.tasks)
  BY <1>1 DEF Tasks
<1>3. /\ AllAlive /\ AllAlive' /\ Quiet /\ Agree(Stored) /\ size = Cardinality(DOMAIN Stored)
      /\ IsFiniteSet(DOMAIN Stored)
  BY <1>1 DEF IInv, IdleInv, AllAlive
<1>4. Stored' = Stored
  BY <1>1 DEF Stored
<1>5. IsSeq(plan.tasks) /\ Len(plan.tasks) \in Nat
  BY <1>2, SeqIs DEF Known, Dispatched, IsSeq
<1>6. TypeInv'
  BY <1>1, <1>5, EmptyRange DEF IInv, TypeInv, Channels, SentCount
<1>7. ThreadsInv'
  BY <1>1 DEF IInv, ThreadsInv
<1>8. response_channel' = << >> /\ done_rx' = << >> /\ WaitsOn' = << >> /\ \A w \in Workers : cmds'[w] = << >>
  BY <1>1, <1>3 DEF Quiet, WaitsOn
<1>9. FromTasks'
  BY <1>1, <1>2, <1>8, EmptyRange DEF FromTasks
<1>10. expected' = Due' /\ Len(response_channel') + Len(done_rx') = Len(WaitsOn')
  <2>1. Commands' = 0
    BY <1>6, <1>8, NoneUnderway, CommandsIs DEF TypeInv
  <2> QED
    BY <1>1, <1>5, <1>8, <2>1, EmptyRange DEF Due, SentCount
<1>11. \A t \in Tasks' : Waiting(t)'
  BY <1>1, <1>2 DEF Waiting
<1>12. ASSUME op \in Gets PROVE Getting'
  <2>1. Agree(call.before)'
    BY <1>1, <1>2, <1>3 DEF Agree
  <2>2. DOMAIN results' = Slots(call.b)'
    BY <1>1, <1>2 DEF Slots
  <2> QED
    BY <1>2, <1>4, <1>8, <1>11, <2>1, <2>2, EmptyRange DEF Getting
<1>13. ASSUME op \in Inserts PROVE Inserting'
  <2>1. InsertionTasks(plan.tasks, Kind(op), keys, values, part', b)
    BY <1>2, <1>13 DEF Known
  <2>2. PICK val \in [Range(keys) -> Range(values)] :
          /\ \A k \in Range(keys) : \E i \in DOMAIN keys : keys[i] = k /\ values[i] = val[k]
          /\ \A k \in Range(keys) : \E t \in Range(plan.tasks) : \E x \in DOMAIN t.cmd.blocks :
               Live(t, x) /\ t.worker = part'[k] /\ KeyOf(t.cmd, x) = k
          /\ \A t \in Range(plan.tasks) : \A x \in DOMAIN t.cmd.blocks :
               Live(t, x) => /\ KeyOf(t.cmd, x) \in Range(keys)
                             /\ ValueOf(t.cmd, x) = val[KeyOf(t.cmd, x)]
    BY <2>1 DEF InsertionTasks
  <2>3. Chosen(val)'
    BY <1>2, <2>2 DEF Chosen
  <2>4. Within(val)'
    BY <1>1, <1>2, <1>3 DEF Within, Agree
  <2>5. \A k \in DOMAIN Stored : k \in Key /\ k \in DOMAIN map'[part'[k]]
    BY <1>1, <1>3 DEF Agree
  <2> QED
    BY <1>2, <1>8, <1>11, <2>3, <2>4, <2>5, EmptyRange DEF Inserting
<1>14. CallInv'
  BY <1>2, <1>3, <1>9, <1>10, <1>12, <1>13 DEF CallInv
<1> QED
  BY <1>1, <1>2, <1>4, <1>6, <1>7, <1>14 DEF IInv, InCall

(* Each operation has tasks that do what the contract says. *)
LEMMA BeginStep ==
  ASSUME IInv, Begin
  PROVE  IInv' /\ Stored' = Stored /\ pc = "idle"
         /\ pc' \in {"sending", "panicked"} /\ (pc' = "sending" => call'.before = Stored)
         /\ AllAlive' /\ AllAlive
<1> DEFINE Goal == IInv' /\ Stored' = Stored /\ pc = "idle"
                   /\ pc' \in {"sending", "panicked"} /\ (pc' = "sending" => call'.before = Stored)
                   /\ AllAlive' /\ AllAlive
<1>1. PICK keys \in KeyBatches :
        \/ GetBatchLeaky(keys)
        \/ \E b \in 0 .. BatchLen(keys) + 1 :
             \/ GetBatchDistinct(keys, b)
             \/ GetBatch(keys, b)
             \/ \E values \in {v \in ValueBatches : DOMAIN v = DOMAIN keys} :
                  InsertBatchDistinct(keys, values, b) \/ InsertBatch(keys, values, b)
  BY DEF Begin
<1>2. /\ BatchLen(keys) \in Nat /\ part \in Partitions
      /\ pc = "idle" => AllAlive /\ size = Cardinality(DOMAIN Stored) /\ IsFiniteSet(DOMAIN Stored)
                        /\ Cardinality(DOMAIN Stored) \in Nat
  BY BatchesAre, FS_CardinalityType DEF IInv, IdleInv, TypeInv
<1>3. ASSUME pc = "idle", Refused PROVE Goal
  BY <1>2, <1>3, RefusedStep DEF Refused, AllAlive
<1>4. ASSUME pc = "idle", Known',
             NEW op, NEW values, NEW b, NEW plan, Prepared(op, keys, values, b, plan),
             size' = size + (IF op = "insert_batch" THEN Cardinality(Range(keys)) ELSE 0)
      PROVE  Goal
  <2>1. pc' = "sending" /\ status' = status
    BY <1>4 DEF Prepared
  <2>2. IInv' /\ Stored' = Stored /\ call'.before = Stored
    BY <1>4, PreparedStep
  <2> QED
    BY <1>2, <1>4, <2>1, <2>2 DEF AllAlive
<1> HIDE DEF Goal
<1>5. ASSUME NEW op, NEW values, NEW b, NEW plan, Prepared(op, keys, values, b, plan)
      PROVE  /\ call'.op = op /\ call'.keys = keys /\ call'.values = values /\ call'.b = b
             /\ call'.before = Stored /\ call'.plan = plan /\ part' = part
  BY <1>5 DEF Prepared
<1>6. ASSUME pc = "idle", NEW op \in {"get_batch_distinct", "get_batch_leaky"},
             NEW b \in 0 .. BatchLen(keys), FitsPartitions(keys, part, b),
             op \in RepeatedKeys \/ Distinct(keys),
             NEW plan, plan = Split("Get", keys, ToGet(keys), b),
             Prepared(op, keys, << >>, b, plan), UNCHANGED size
      PROVE  Goal
  <2>1. IndexedTasks(plan.tasks, keys, part, b)
    BY <1>2, <1>6, DistinctContract DEF Split
  <2>2. Dispatched(plan.tasks, "Get", b)
    BY <2>1 DEF IndexedTasks
  <2>3. Kind(op) = "Get" /\ op \notin Inserts /\ op \in Gets /\ op \notin {"get_batch", "insert_batch"}
    BY <1>6 DEF Kind, Inserts, Gets
  <2>4. Known'
    BY <1>2, <1>5, <1>6, <2>1, <2>2, <2>3 DEF Known
  <2> QED
    BY <1>2, <1>4, <1>6, <2>3, <2>4
<1>7. ASSUME GetBatchLeaky(keys) PROVE Goal
  <2>1. PICK b \in {q \in 0 .. BatchLen(keys) : FitsPartitions(keys, part, q)} :
          Prepared("get_batch_leaky", keys, << >>, b, Split("Get", keys, ToGet(keys), b))
    BY <1>7 DEF GetBatchLeaky
  <2>2. /\ UNCHANGED size /\ pc = "idle" /\ ("get_batch_leaky" \in RepeatedKeys \/ Distinct(keys))
        /\ b \in 0 .. BatchLen(keys) /\ FitsPartitions(keys, part, b)
    BY <1>7 DEF GetBatchLeaky, Ready
  <2> QED
    BY <1>6, <2>1, <2>2
<1>8. ASSUME NEW b \in 0 .. BatchLen(keys) + 1, GetBatchDistinct(keys, b) PROVE Goal
  <2>1. pc = "idle" /\ Distinct(keys)
    BY <1>8 DEF GetBatchDistinct, Ready
  <2>2. CASE b <= BatchLen(keys) /\ FitsPartitions(keys, part, b)
    <3>1. b \in 0 .. BatchLen(keys) /\ UNCHANGED size
          /\ Prepared("get_batch_distinct", keys, << >>, b, Split("Get", keys, ToGet(keys), b))
      BY <1>2, <1>8, <2>2 DEF GetBatchDistinct
    <3> QED
      BY <1>6, <2>1, <2>2, <3>1
  <2>3. CASE ~(b <= BatchLen(keys) /\ FitsPartitions(keys, part, b))
    BY <1>3, <1>8, <2>1, <2>3 DEF GetBatchDistinct
  <2> QED
    BY <2>2, <2>3
<1>9. ASSUME NEW b \in 0 .. BatchLen(keys) + 1, GetBatch(keys, b) PROVE Goal
  <2> DEFINE plan == PlanFor("Getv2", keys, ToGetv2(keys), part, b)
  <2>1. pc = "idle" /\ ("get_batch" \in RepeatedKeys \/ Distinct(keys))
    BY <1>9 DEF GetBatch, Ready
  <2>2. CASE BatchSizeFits(keys, b) /\ LoadFits(plan, b)
    <3>1. b \in 0 .. BatchLen(keys)
      BY <1>2, <2>2 DEF BatchSizeFits
    <3>2. Prepared("get_batch", keys, << >>, b, plan) /\ UNCHANGED size
      BY <1>9, <2>2 DEF GetBatch
    <3>3. /\ Dispatched(plan.tasks, "Getv2", b)
          /\ Distinct(keys) => Routes(SourcesIn(plan, b, BatchLen(keys)), plan.tasks, keys, part, b)
      BY <1>2, <2>2, <3>1, PlanContract
    <3>4. Kind("get_batch") = "Getv2" /\ "get_batch" \notin Inserts /\ "get_batch" \in Gets
      BY DEF Kind, Inserts, Gets
    <3> HIDE DEF plan
    <3>5. Known'
      BY <1>2, <1>5, <2>1, <3>1, <3>2, <3>3, <3>4 DEF Known
    <3> QED
      BY <1>2, <1>4, <2>1, <3>2, <3>5
  <2>3. CASE ~(BatchSizeFits(keys, b) /\ LoadFits(plan, b))
    BY <1>3, <1>9, <2>1, <2>3 DEF GetBatch
  <2> QED
    BY <2>2, <2>3
<1>10. ASSUME NEW b \in 0 .. BatchLen(keys), NEW op \in Inserts, op \in RepeatedKeys \/ Distinct(keys),
              op = "insert_batch_distinct" => Distinct(keys), pc = "idle", NewKeys(keys),
              NEW values \in ValueBatches, DOMAIN values = DOMAIN keys,
              NEW plan, InsertionTasks(plan.tasks, Kind(op), keys, values, part, b),
              Prepared(op, keys, values, b, plan)
       PROVE  Known'
  <2>1. Range(keys) \cap DOMAIN Stored = {}
    BY <1>10 DEF NewKeys, Range
  <2>2. Dispatched(plan.tasks, Kind(op), b)
    BY <1>10 DEF InsertionTasks
  <2>3. op \notin {"get_batch_distinct", "get_batch_leaky", "get_batch"}
    BY <1>10 DEF Inserts
  <2> QED
    BY <1>2, <1>5, <1>10, <2>1, <2>2, <2>3 DEF Known
<1>11. ASSUME NEW b \in 0 .. BatchLen(keys) + 1, NEW values \in ValueBatches, DOMAIN values = DOMAIN keys,
              InsertBatchDistinct(keys, values, b)
       PROVE  Goal
  <2> DEFINE fits == size + BatchLen(keys) <= Capacity /\ b <= BatchLen(keys)
                     /\ FitsPartitions(keys, part, b)
             plan == Split("Insert", keys, ToInsert(values), b)
  <2>1. pc = "idle" /\ Distinct(keys) /\ NewKeys(keys)
    BY <1>11 DEF InsertBatchDistinct, Ready
  <2>2. CASE fits
    <3>1. b \in 0 .. BatchLen(keys)
      BY <1>2, <2>2
    <3>2. Prepared("insert_batch_distinct", keys, values, b, plan) /\ UNCHANGED size
      BY <1>11, <2>2 DEF InsertBatchDistinct
    <3>3. InsertionTasks(plan.tasks, "Insert", keys, values, part, b)
      BY <1>2, <1>11, <2>1, <2>2, <3>1, DistinctContract DEF Split
    <3>4. Kind("insert_batch_distinct") = "Insert" /\ "insert_batch_distinct" \in Inserts
      BY DEF Kind, Inserts
    <3> HIDE DEF plan, fits
    <3>5. Known'
      BY <1>10, <1>11, <2>1, <3>1, <3>2, <3>3, <3>4
    <3> QED
      BY <1>2, <1>4, <2>1, <3>2, <3>5
  <2>3. CASE ~fits
    BY <1>3, <1>11, <2>1, <2>3 DEF InsertBatchDistinct
  <2> QED
    BY <2>2, <2>3
<1>12. ASSUME NEW b \in 0 .. BatchLen(keys) + 1, NEW values \in ValueBatches, DOMAIN values = DOMAIN keys,
              InsertBatch(keys, values, b)
       PROVE  Goal
  <2> DEFINE plan == PlanFor("Insertv2", keys, values, part, b)
  <2>1. pc = "idle" /\ ("insert_batch" \in RepeatedKeys \/ Distinct(keys)) /\ NewKeys(keys)
    BY <1>12 DEF InsertBatch, Ready
  <2>2. CASE BatchSizeFits(keys, b) /\ LoadFits(plan, b)
    <3>1. b \in 0 .. BatchLen(keys)
      BY <1>2, <2>2 DEF BatchSizeFits
    <3>2. Prepared("insert_batch", keys, values, b, plan) /\ size' = size + plan.total
      BY <1>12, <2>2 DEF InsertBatch, Enlarged
    <3>3. InsertionTasks(plan.tasks, "Insertv2", keys, values, part, b) /\ plan.total = Cardinality(Range(keys))
      BY <1>2, <1>12, <2>2, <3>1, PlanContract
    <3>4. Kind("insert_batch") = "Insertv2" /\ "insert_batch" \in Inserts
      BY DEF Kind, Inserts
    <3> HIDE DEF plan
    <3>5. Known'
      BY <1>10, <1>12, <2>1, <3>1, <3>2, <3>3, <3>4
    <3> QED
      BY <1>2, <1>4, <2>1, <3>2, <3>3, <3>5
  <2>3. CASE ~(BatchSizeFits(keys, b) /\ LoadFits(plan, b))
    BY <1>3, <1>12, <2>1, <2>3 DEF InsertBatch
  <2> QED
    BY <2>2, <2>3
<1>13. ASSUME NEW b \in 0 .. BatchLen(keys) + 1, NEW values \in {v \in ValueBatches : DOMAIN v = DOMAIN keys},
              InsertBatchDistinct(keys, values, b) \/ InsertBatch(keys, values, b)
       PROVE  Goal
  BY <1>11, <1>12, <1>13
<1>14. Goal
  BY <1>1, <1>7, <1>8, <1>9, <1>13
<1> QED
  BY <1>14 DEF Goal
-------------------------------------------------------------------------------
(* The caller: sending commands and receiving replies. *)
LEMMA DueIs ==
  ASSUME IInv
  PROVE  /\ Commands \in Nat /\ Len(outbox) \in Nat /\ Len(WaitsOn) \in Nat /\ IsSeq(WaitsOn)
         /\ Len(response_channel) \in Nat /\ Len(done_rx) \in Nat
         /\ Due \in Nat
<1>1. Commands \in Nat
  BY NoneUnderway, CommandsIs DEF IInv, TypeInv
<1>2. Len(outbox) \in Nat /\ Len(response_channel) \in Nat /\ Len(done_rx) \in Nat
  BY SeqIs DEF IInv, TypeInv
<1>3. IsSeq(WaitsOn) /\ Len(WaitsOn) \in Nat
  BY <1>2 DEF WaitsOn, IInv, TypeInv
<1> QED
  BY <1>1, <1>2, <1>3 DEF Due

(* The call goes on, or a worker has died. *)
StillInCall == InCall /\ UNCHANGED call /\ pc' # "idle" /\ (InCall' \/ ~AllAlive')

LEMMA SendStep ==
  ASSUME IInv, Send
  PROVE  IInv' /\ StillInCall
<1> DEFINE t == Head(outbox)
<1>1. /\ pc = "sending" /\ outbox # << >> /\ CallInv /\ TypeInv /\ ThreadsInv
      /\ UNCHANGED <<part, size, call, expected, results, status, map, response_channel, done_rx>>
  BY DEF Send, IInv, InCall
<1>2. /\ t \in Range(outbox) /\ IsSeq(Tail(outbox)) /\ Range(outbox) = {t} \cup Range(Tail(outbox))
      /\ Len(Tail(outbox)) = Len(outbox) - 1 /\ Len(outbox) \in Nat /\ Len(outbox) > 0
  BY <1>1, SeqHead, SeqIs DEF TypeInv
<1>3. t \in Tasks /\ Known
  BY <1>1, <1>2 DEF CallInv, FromTasks
<1>4. t = Task(t.worker, t.cmd) /\ t.worker \in Workers /\ t.cmd.kind # "Shutdown"
  BY <1>3, TaskIs, SharedIs
<1> HIDE DEF t
<1>5. CASE status[t.worker] \in Gone
  <2>1. pc' = "panicked" /\ UNCHANGED <<cmds, outbox>>
    BY <1>5 DEF Send, t
  <2>2. ~AllAlive'
    BY <1>1, <1>4, <1>5 DEF ThreadsInv, Gone, AllAlive
  <2>3. TypeInv' /\ ThreadsInv'
    BY <1>1, <2>1 DEF TypeInv, ThreadsInv, Channels
  <2> QED
    BY <1>1, <2>1, <2>2, <2>3 DEF IInv, EndInv, InCall, StillInCall
<1>6. CASE status[t.worker] \notin Gone
  <2>1. /\ cmds' = [cmds EXCEPT ![t.worker] = Append(@, t.cmd)] /\ outbox' = Tail(outbox)
        /\ pc' \in {"sending", "receiving"} /\ (pc' = "receiving" => Len(outbox) = 1)
    BY <1>1, <1>6 DEF Send, t
  <2>2. /\ \A w \in Workers : w # t.worker => cmds'[w] = cmds[w]
        /\ cmds'[t.worker] = Append(cmds[t.worker], t.cmd)
    BY <1>1, <1>4, <2>1 DEF TypeInv, Channels
  <2>3. /\ Range(cmds'[t.worker]) = Range(cmds[t.worker]) \cup {t.cmd}
        /\ Channels(cmds') /\ IsFiniteSet(UnderwayIn(cmds')) /\ Commands' = Commands + 1
    <3>1. Channels(cmds) /\ IsFiniteSet(UnderwayIn(cmds)) /\ IsSeq(cmds[t.worker])
      BY <1>1, <1>4 DEF TypeInv, Channels
    <3>2. Range(cmds'[t.worker]) = Range(cmds[t.worker]) \cup {t.cmd}
      BY <2>2, <3>1, SeqAppend
    <3>3. /\ Channels(cmds') /\ IsFiniteSet(UnderwayIn(cmds'))
          /\ Cardinality(UnderwayIn(cmds')) = Cardinality(UnderwayIn(cmds)) + 1
      BY <1>4, <2>1, <3>1, OneMore
    <3> QED
      BY <3>2, <3>3, CommandsIs
  <2>4. TypeInv'
    BY <1>1, <1>2, <2>1, <2>3 DEF TypeInv
  <2>5. ThreadsInv'
    BY <1>1, <1>4, <2>1, <2>2, <2>3 DEF ThreadsInv
  <2>6. WaitsOn' = WaitsOn /\ Due' = Due /\ AllAlive' = AllAlive
    BY <1>1, <1>2, <2>1, <2>3, DueIs DEF WaitsOn, Due, AllAlive
  <2>7. Known' /\ Tasks' = Tasks
    BY <1>1, <1>3 DEF Known, Tasks
  <2>8. FromTasks'
    <3>1. pc' = "receiving" => outbox' = << >>
      <4> SUFFICES ASSUME pc' = "receiving" PROVE Tail(outbox) = << >>
        BY <2>1
      <4>1. Len(Tail(outbox)) = 0
        BY <1>2, <2>1
      <4> QED
        BY <1>2, <4>1, EmptyRange
    <3>2. ASSUME NEW w \in Workers, NEW c \in Range(cmds'[w]) PROVE Task(w, c) \in Tasks
      BY <1>1, <1>3, <1>4, <2>2, <2>3, <3>2 DEF CallInv, FromTasks
    <3>3. Range(outbox') \subseteq Tasks
      BY <1>1, <1>2, <2>1 DEF CallInv, FromTasks
    <3> QED
      BY <2>7, <3>1, <3>2, <3>3 DEF FromTasks
  <2>9. ASSUME NEW u \in Tasks, Waiting(u) PROVE Waiting(u)'
    <3>1. CASE u.cmd \in Range(cmds[u.worker])
      <4>1. u.worker \in Workers
        BY <1>3, TaskIs
      <4> QED
        BY <2>2, <2>3, <3>1, <4>1 DEF Waiting
    <3>2. CASE u \in Range(outbox) /\ u # t
      BY <1>2, <2>1, <3>2 DEF Waiting
    <3>3. CASE u = t
      BY <2>3, <3>3 DEF Waiting
    <3> QED
      BY <2>9, <3>1, <3>2, <3>3 DEF Waiting
  <2>10. Getting => Getting'
    <3>1. Stored' = Stored
      BY <1>1 DEF Stored
    <3>2. \A u : Reply(u.worker, u.cmd)' = Reply(u.worker, u.cmd)
      BY <1>1 DEF Reply, Found
    <3> QED
      BY <1>1, <2>6, <2>7, <2>9, <3>1, <3>2 DEF Getting, Agree, Placed
  <2>11. Inserting => Inserting'
    <3>1. \A val : Chosen(val) /\ Within(val) => Chosen(val)' /\ Within(val)'
      BY <1>1, <2>7 DEF Chosen, Within
    <3>2. \A u : Arrived(u)' = Arrived(u)
      BY <1>1 DEF Arrived
    <3> QED
      BY <1>1, <2>6, <2>7, <2>9, <3>1, <3>2 DEF Inserting
  <2>12. CallInv'
    BY <1>1, <2>6, <2>7, <2>8, <2>10, <2>11 DEF CallInv
  <2> QED
    BY <1>1, <2>1, <2>4, <2>5, <2>12 DEF IInv, InCall, StillInCall
<1> QED
  BY <1>5, <1>6

(* The slots of two tasks are apart: a reply fills the slots of its own task.  *)
LEMMA SlotsApart ==
  ASSUME IInv, InCall, call.op \in Gets, NEW t \in Tasks, NEW r, r = Reply(t.worker, t.cmd),
         DOMAIN results = Slots(call.b)
  PROVE  /\ \A x \in DOMAIN t.cmd.blocks : PlacedReply(r)[SlotOf(t, x, call.b)] = r.blocks[x]
         /\ \A u \in Tasks : \A y \in DOMAIN u.cmd.blocks :
              u # t => PlacedReply(r)[SlotOf(u, y, call.b)] = results[SlotOf(u, y, call.b)]
         /\ DOMAIN PlacedReply(r) = Slots(call.b)
<1>1. Known
  BY DEF IInv, CallInv
<1>2. call.b \in Nat
  BY <1>1, BatchesAre DEF Known
<1> DEFINE first == r.pid * call.b + r.offset
           n == Len(r.blocks)
<1>3. /\ r.pid = t.worker /\ r.offset = t.cmd.offset /\ IsSeq(r.blocks) /\ n = Len(t.cmd.blocks)
      /\ IsSeq(t.cmd.blocks)
  BY <1>1, ReplyIs, TaskIs
<1>4. t.worker \in Int /\ t.cmd.offset \in Int
  BY <1>1, TaskIs DEF Known, Dispatched, Tasks, Workers
<1>5. first \in Int /\ n \in Nat /\ DOMAIN t.cmd.blocks = 1 .. n
  BY <1>2, <1>3, <1>4, SeqIs
<1>6. \A x : SlotOf(t, x, call.b) = first + x - 1
  BY <1>3 DEF SlotOf
<1>7. \A u \in Tasks : \A x \in DOMAIN t.cmd.blocks, y \in DOMAIN u.cmd.blocks :
        /\ SlotOf(u, y, call.b) \in Slots(call.b) /\ SlotOf(t, x, call.b) \in Slots(call.b)
        /\ SlotOf(t, x, call.b) = SlotOf(u, y, call.b) => t = u /\ x = y
  BY <1>1 DEF Known, Dispatched, Tasks
<1>8. \A s \in DOMAIN results :
        PlacedReply(r)[s] = IF s \in first .. first + n - 1 THEN r.blocks[s - first + 1] ELSE results[s]
  BY DEF PlacedReply
<1>9. DOMAIN PlacedReply(r) = Slots(call.b)
  BY DEF PlacedReply
<1> HIDE DEF first, n
<1>10. ASSUME NEW x \in DOMAIN t.cmd.blocks
       PROVE  PlacedReply(r)[SlotOf(t, x, call.b)] = r.blocks[x]
  <2>1. first + x - 1 \in first .. first + n - 1 /\ (first + x - 1) - first + 1 = x
    BY <1>5
  <2>2. SlotOf(t, x, call.b) \in DOMAIN results
    BY <1>7
  <2> QED
    BY <1>6, <1>8, <2>1, <2>2
<1>11. ASSUME NEW u \in Tasks, NEW y \in DOMAIN u.cmd.blocks, u # t
       PROVE  PlacedReply(r)[SlotOf(u, y, call.b)] = results[SlotOf(u, y, call.b)]
  <2> DEFINE s == SlotOf(u, y, call.b)
  <2>1. s \in DOMAIN results
    BY <1>1 DEF Known, Dispatched, Tasks
  <2>2. s \in Int
    BY <1>1, <2>1 DEF Slots
  <2> HIDE DEF s
  <2>3. s \notin first .. first + n - 1
    <3> SUFFICES ASSUME s \in first .. first + n - 1 PROVE FALSE
      OBVIOUS
    <3>1. s - first + 1 \in DOMAIN t.cmd.blocks /\ s = first + (s - first + 1) - 1
      BY <1>5, <2>2
    <3> QED
      BY <1>6, <1>7, <1>11, <3>1 DEF s
  <2> QED
    BY <1>8, <2>1, <2>3 DEF s
<1> QED
  BY <1>9, <1>10, <1>11

LEMMA ReceiveStep ==
  ASSUME IInv, Receive
  PROVE  IInv' /\ StillInCall
<1> DEFINE reply == Head(WaitsOn)
<1>1. /\ pc = "receiving" /\ InCall /\ WaitsOn # << >> /\ CallInv /\ TypeInv /\ ThreadsInv
      /\ UNCHANGED <<part, size, call, outbox, status, map, cmds>>
  BY DEF Receive, IInv, InCall
<1>2. /\ call.op \in Batched => response_channel' = Tail(response_channel) /\ done_rx' = done_rx
      /\ call.op \notin Batched => done_rx' = Tail(done_rx) /\ response_channel' = response_channel
  BY DEF Receive
<1>3. IsSeq(WaitsOn) /\ WaitsOn' = Tail(WaitsOn)
  BY <1>1, <1>2, DueIs DEF WaitsOn
<1>4. /\ reply \in Range(WaitsOn) /\ Range(WaitsOn) = {reply} \cup Range(WaitsOn')
      /\ Len(WaitsOn') = Len(WaitsOn) - 1 /\ IsSeq(WaitsOn')
  BY <1>1, <1>3, SeqHead
<1>5. /\ IsSeq(response_channel') /\ IsSeq(done_rx')
      /\ Len(response_channel') + Len(done_rx') = Len(response_channel) + Len(done_rx) - 1
  <2>1. CASE call.op \in Batched
    BY <1>1, <1>2, <1>3, <1>4, <2>1, DueIs DEF WaitsOn, TypeInv
  <2>2. CASE call.op \notin Batched
    BY <1>1, <1>2, <1>3, <1>4, <2>2, DueIs DEF WaitsOn, TypeInv
  <2> QED
    BY <2>1, <2>2
<1>6. AllAlive' = AllAlive /\ Known' /\ Tasks' = Tasks /\ Stored' = Stored
  BY <1>1 DEF AllAlive, CallInv, Known, Tasks, Stored
<1>7. Due' = Due - 1
  BY <1>1, <1>4, DueIs, CommandsIs DEF Due
<1>8. AllAlive => reply.kind = WantedReply
  <2> SUFFICES ASSUME AllAlive PROVE reply.kind = WantedReply
    OBVIOUS
  <2>1. CASE call.op \in Gets
    <3>1. PICK t \in Tasks : reply = Reply(t.worker, t.cmd)
      BY <1>1, <1>4, <2>1 DEF CallInv, Getting
    <3> QED
      BY <1>1, <2>1, <3>1, ReplyIs DEF CallInv, WantedReply
  <2>2. CASE call.op \in Inserts
    BY <1>1, <1>4, <2>2 DEF CallInv, Inserting, WantedReply, Gets, Inserts
  <2> QED
    BY <1>1, <2>1, <2>2 DEF CallInv, Known
<1> HIDE DEF reply
<1>9. CASE reply.kind # WantedReply
  <2>1. pc' = "panicked" /\ expected' = expected
    BY <1>9 DEF Receive, reply
  <2>2. TypeInv' /\ ThreadsInv'
    BY <1>1, <1>5, <2>1 DEF TypeInv, ThreadsInv
  <2> QED
    BY <1>1, <1>6, <1>8, <1>9, <2>1, <2>2 DEF IInv, EndInv, InCall, StillInCall
<1>10. CASE reply.kind = WantedReply
  <2>1. /\ results' = IF reply.kind = "Blocks" THEN PlacedReply(reply) ELSE results
        /\ expected' = expected - 1 /\ pc' = pc
    BY <1>10 DEF Receive, reply
  <2>2. TypeInv' /\ ThreadsInv'
    BY <1>1, <1>5, <2>1 DEF TypeInv, ThreadsInv
  <2>3. FromTasks'
    BY <1>1, <1>6, <2>1 DEF CallInv, FromTasks
  <2>4. \A t : Waiting(t)' = Waiting(t)
    BY <1>1 DEF Waiting
  <2>5. ASSUME AllAlive, call.op \in Gets PROVE Getting'
    <3>1. Getting /\ Known
      BY <1>1, <2>5 DEF CallInv
    <3>2. PICK t \in Tasks : reply = Reply(t.worker, t.cmd)
      BY <1>4, <3>1 DEF Getting
    <3>3. reply.kind = "Blocks"
      BY <2>5, <3>1, <3>2, ReplyIs
    <3>4. results' = PlacedReply(reply) /\ DOMAIN results = Slots(call.b)
      BY <2>1, <3>1, <3>3 DEF Getting
    <3>5. /\ \A x \in DOMAIN t.cmd.blocks : results'[SlotOf(t, x, call.b)] = reply.blocks[x]
          /\ \A u \in Tasks : \A y \in DOMAIN u.cmd.blocks :
               u # t => results'[SlotOf(u, y, call.b)] = results[SlotOf(u, y, call.b)]
          /\ DOMAIN results' = Slots(call.b)
      BY <1>1, <2>5, <3>2, <3>4, SlotsApart
    <3>6. \A u : Reply(u.worker, u.cmd)' = Reply(u.worker, u.cmd)
      BY <1>1 DEF Reply, Found
    <3>7. call' = call
      BY <1>1
    <3>8. Placed(t)'
      BY <3>2, <3>5, <3>6, <3>7 DEF Placed
    <3>9. ASSUME NEW u \in Tasks, u # t, Placed(u) PROVE Placed(u)'
      BY <3>5, <3>6, <3>7, <3>9 DEF Placed
    <3>10. ASSUME NEW u \in Tasks
           PROVE  Waiting(u)' \/ Reply(u.worker, u.cmd)' \in Range(WaitsOn') \/ Placed(u)'
      <4>1. CASE Reply(u.worker, u.cmd) = reply
        <5> SUFFICES ASSUME u # t PROVE Placed(u)' \/ Reply(u.worker, u.cmd)' \in Range(WaitsOn')
          BY <3>8
        <5>1. /\ u.worker = t.worker /\ u.cmd.offset = t.cmd.offset
              /\ DOMAIN u.cmd.blocks = DOMAIN t.cmd.blocks
          <6>1. DOMAIN u.cmd.blocks = DOMAIN Reply(u.worker, u.cmd).blocks
            BY <2>5, <3>1, ReplyIs
          <6>2. DOMAIN t.cmd.blocks = DOMAIN Reply(t.worker, t.cmd).blocks
            BY <2>5, <3>1, ReplyIs
          <6>3. /\ u.worker = Reply(u.worker, u.cmd).pid /\ t.worker = Reply(t.worker, t.cmd).pid
                /\ u.cmd.offset = Reply(u.worker, u.cmd).offset
                /\ t.cmd.offset = Reply(t.worker, t.cmd).offset
            BY <2>5, <3>1, ReplyIs
          <6> QED
            BY <3>2, <4>1, <6>1, <6>2, <6>3
        <5>2. \A x : SlotOf(u, x, call.b) = SlotOf(t, x, call.b)
          BY <5>1 DEF SlotOf
        <5>3. DOMAIN u.cmd.blocks = {}
          BY <3>1, <5>1, <5>2 DEF Known, Dispatched, Tasks
        <5> QED
          BY <1>6, <3>7, <5>3 DEF Placed
      <4>2. CASE u # t /\ Reply(u.worker, u.cmd) # reply
        BY <1>4, <2>4, <3>1, <3>6, <3>9, <4>2 DEF Getting
      <4> QED
        BY <3>2, <4>1, <4>2
    <3>11. \A q \in Range(WaitsOn') : \E u \in Tasks : q = Reply(u.worker, u.cmd)'
      BY <1>4, <3>1, <3>6 DEF Getting
    <3> QED
      BY <1>1, <1>6, <3>1, <3>5, <3>10, <3>11 DEF Getting, Agree
  <2>6. ASSUME AllAlive, call.op \in Inserts PROVE Inserting'
    <3>1. Inserting
      BY <1>1, <2>6 DEF CallInv
    <3>2. \A val : Chosen(val) /\ Within(val) => Chosen(val)' /\ Within(val)'
      BY <1>1, <1>6 DEF Chosen, Within
    <3>3. \A u : Arrived(u)' = Arrived(u)
      BY <1>1 DEF Arrived
    <3> QED
      BY <1>1, <1>4, <1>6, <2>4, <3>1, <3>2, <3>3 DEF Inserting
  <2>7. CallInv'
    <3>1. expected \in Int /\ Due \in Nat /\ Len(WaitsOn) \in Nat
          /\ Len(response_channel) \in Nat /\ Len(done_rx) \in Nat
      BY <1>1, DueIs DEF TypeInv
    <3>2. ~AllAlive => expected' > Due'
      BY <1>1, <1>7, <2>1, <3>1 DEF CallInv
    <3>3. AllAlive => expected' = Due' /\ Len(response_channel') + Len(done_rx') = Len(WaitsOn')
      BY <1>1, <1>4, <1>5, <1>7, <2>1, <3>1 DEF CallInv
    <3> QED
      BY <1>1, <1>6, <2>3, <2>5, <2>6, <3>2, <3>3 DEF CallInv
  <2> QED
    BY <1>1, <2>1, <2>2, <2>7 DEF IInv, InCall, StillInCall
<1> QED
  BY <1>9, <1>10
-------------------------------------------------------------------------------
(* The caller: the end of a call. *)
LEMMA ChannelClosedStep ==
  ASSUME IInv, ChannelClosed
  PROVE  IInv' /\ StillInCall
<1>1. /\ pc = "receiving" /\ pc' = "panicked" /\ \A w \in Workers : status[w] \in Gone
      /\ UNCHANGED <<part, size, call, outbox, expected, results, status, map, cmds,
                     response_channel, done_rx>>
  BY DEF ChannelClosed, callVars
<1>2. ~AllAlive'
  BY <1>1, WorkersAre DEF IInv, ThreadsInv, Gone, AllAlive
<1>3. TypeInv' /\ ThreadsInv'
  BY <1>1 DEF IInv, TypeInv, ThreadsInv, Channels
<1> QED
  BY <1>1, <1>2, <1>3 DEF IInv, EndInv, InCall, StillInCall

(* When the last reply is in, no worker is dead and every task has been served. *)
LEMMA AllServed ==
  ASSUME IInv, pc = "receiving", expected = 0
  PROVE  /\ AllAlive /\ Quiet /\ CallInv
         /\ call.op \in Gets => \A t \in Tasks : Placed(t)
         /\ call.op \in Inserts => \A t \in Tasks : Arrived(t)
<1>1. CallInv /\ TypeInv /\ Due \in Nat
  BY DueIs DEF IInv, InCall
<1>2. AllAlive /\ expected = Due /\ Len(response_channel) + Len(done_rx) = Len(WaitsOn)
  BY <1>1 DEF CallInv
<1>3. /\ Len(outbox) = 0 /\ Commands = 0 /\ Len(WaitsOn) = 0
      /\ Len(response_channel) = 0 /\ Len(done_rx) = 0
  BY <1>1, <1>2, DueIs DEF Due
<1>4. Quiet /\ WaitsOn = << >>
  <2>1. outbox = << >> /\ response_channel = << >> /\ done_rx = << >>
    BY <1>1, <1>3, EmptyRange DEF TypeInv
  <2>2. \A w \in Workers : cmds[w] = << >>
    BY <1>1, <1>3, NoneUnderway, CommandsIs DEF TypeInv
  <2> QED
    BY <2>1, <2>2 DEF Quiet, WaitsOn
<1>5. \A t \in Tasks : ~Waiting(t)
  BY <1>1, <1>4, TaskIs, EmptyRange DEF CallInv, Waiting, Quiet
<1>6. call.op \in Gets => \A t \in Tasks : Placed(t)
  BY <1>1, <1>2, <1>4, <1>5, EmptyRange DEF CallInv, Getting
<1>7. call.op \in Inserts => \A t \in Tasks : Arrived(t)
  BY <1>1, <1>2, <1>5 DEF CallInv, Inserting
<1> QED
  BY <1>1, <1>2, <1>4, <1>6, <1>7

(* All keys of the batch are in the map that the workers make up, with a value *)
(* from the batch, and their copies agree.                                     *)
LEMMA InsertedWhole ==
  ASSUME IInv, pc = "receiving", expected = 0, call.op \in Inserts,
         NEW val, Chosen(val), Within(val)
  PROVE  /\ DOMAIN Stored = DOMAIN call.before \cup Range(call.keys)
         /\ \A k \in Range(call.keys) : Stored[k] = val[k]
         /\ \A k \in DOMAIN call.before : k \notin Range(call.keys) /\ Stored[k] = call.before[k]
         /\ Agree(Stored)
<1>1. AllAlive /\ CallInv /\ Known /\ Inserting /\ part \in Partitions
  BY AllServed DEF CallInv, IInv, TypeInv
<1>2. \A k \in DOMAIN Stored : k \in Key /\ k \in DOMAIN map[part[k]] /\ Stored[k] = map[part[k]][k]
  BY DEF Stored
<1>3. \A k \in Key : k \in DOMAIN map[part[k]] => k \in DOMAIN Stored
  BY DEF Stored
<1>4. Range(call.keys) \cap DOMAIN call.before = {} /\ Range(call.keys) \subseteq Key
  BY <1>1, BatchesAre DEF Known
<1>5. ASSUME NEW k \in Range(call.keys) PROVE k \in DOMAIN Stored
  <2>1. PICK t \in Tasks : \E x \in DOMAIN t.cmd.blocks :
          Live(t, x) /\ t.worker = part[k] /\ KeyOf(t.cmd, x) = k
    BY <1>5 DEF Chosen
  <2>2. k \in DOMAIN map[part[k]]
    BY <2>1, AllServed DEF Arrived
  <2> QED
    BY <1>3, <1>4, <2>2
<1>6. ASSUME NEW k \in DOMAIN call.before PROVE k \in DOMAIN Stored
  BY <1>1, <1>3 DEF Inserting
<1>7. ASSUME NEW w \in Workers, NEW k \in DOMAIN map[w]
      PROVE  \/ k \in DOMAIN call.before /\ map[w][k] = call.before[k] /\ k \notin Range(call.keys)
             \/ k \in Range(call.keys) /\ map[w][k] = val[k] /\ k \notin DOMAIN call.before
  BY <1>4 DEF Within
<1>8. ASSUME NEW k \in DOMAIN Stored
      PROVE  \/ k \in DOMAIN call.before /\ Stored[k] = call.before[k] /\ k \notin Range(call.keys)
             \/ k \in Range(call.keys) /\ Stored[k] = val[k] /\ k \notin DOMAIN call.before
  <2>1. part[k] \in Workers
    BY <1>1, <1>2, WorkersAre
  <2> QED
    BY <1>2, <1>7, <2>1
<1>9. Agree(Stored)
  BY <1>2, <1>5, <1>6, <1>7, <1>8 DEF Agree
<1> QED
  BY <1>4, <1>5, <1>6, <1>8, <1>9

LEMMA ReturnStep ==
  ASSUME IInv, Return
  PROVE  IInv' /\ Stored' = Stored /\ AllAlive /\ AllAlive'
<1>1. /\ pc = "receiving" /\ expected = 0 /\ pc' = "idle" /\ size' = SizeAfter
      /\ UNCHANGED <<part, call, outbox, expected, calls, joining, status, map, cmds,
                     response_channel, done_rx>>
  BY DEF Return, Finished
<1>2. AllAlive /\ Quiet /\ CallInv /\ TypeInv /\ ThreadsInv /\ Known
  BY <1>1, AllServed DEF IInv, CallInv
<1>3. Stored' = Stored /\ AllAlive' /\ Quiet'
  BY <1>1, <1>2 DEF Stored, AllAlive, Quiet
<1>4. TypeInv' /\ ThreadsInv'
  BY <1>1, <1>2 DEF TypeInv, ThreadsInv, Channels
<1>5. /\ IsFiniteSet(Range(call.keys)) /\ IsFiniteSet(DOMAIN call.before)
      /\ Distinct(call.keys) => Cardinality(Range(call.keys)) = BatchLen(call.keys)
  BY <1>2, BatchesAre DEF Known
<1>6. Agree(Stored) /\ IsFiniteSet(DOMAIN Stored) /\ size' = Cardinality(DOMAIN Stored)
  <2>1. CASE call.op \in Gets
    <3>1. Stored = call.before /\ Agree(call.before)
      BY <1>2, <2>1 DEF CallInv, Getting
    <3>2. call.op \notin {"insert_batch", "insert_batch_distinct"}
      BY <2>1 DEF Gets
    <3>3. size = Cardinality(DOMAIN call.before) + 0 /\ size' = size
      BY <1>1, <1>2, <3>2 DEF CallInv, SizeAfter
    <3>4. Cardinality(DOMAIN call.before) \in Nat
      BY <1>5, FS_CardinalityType
    <3> QED
      BY <1>5, <3>1, <3>3, <3>4
  <2>2. CASE call.op \in Inserts
    <3>1. PICK val : Chosen(val) /\ Within(val)
      BY <1>2, <2>2 DEF CallInv, Inserting
    <3>2. /\ DOMAIN Stored = DOMAIN call.before \cup Range(call.keys)
          /\ DOMAIN call.before \cap Range(call.keys) = {} /\ Agree(Stored)
      BY <1>1, <2>2, <3>1, InsertedWhole
    <3>3. /\ IsFiniteSet(DOMAIN Stored)
          /\ Cardinality(DOMAIN Stored) = Cardinality(DOMAIN call.before) + Cardinality(Range(call.keys))
      <4>1. Cardinality(DOMAIN call.before) \in Nat /\ Cardinality(Range(call.keys)) \in Nat
        BY <1>5, FS_CardinalityType
      <4> QED
        <5>1. Cardinality(DOMAIN call.before \cap Range(call.keys)) = 0
          BY <3>2, FS_EmptySet
        <5>2. /\ IsFiniteSet(DOMAIN call.before \cup Range(call.keys))
              /\ Cardinality(DOMAIN call.before \cup Range(call.keys)) =
                   Cardinality(DOMAIN call.before) + Cardinality(Range(call.keys))
                     - Cardinality(DOMAIN call.before \cap Range(call.keys))
          BY <1>5, FS_Union
        <5> QED
          BY <3>2, <4>1, <5>1, <5>2
    <3>4. size' = Cardinality(DOMAIN call.before) + Cardinality(Range(call.keys))
      <4>1. CASE call.op = "insert_batch"
        BY <1>1, <1>2, <4>1 DEF CallInv, SizeAfter
      <4>2. CASE call.op = "insert_batch_distinct"
        <5>1. Cardinality(Range(call.keys)) = BatchLen(call.keys)
          BY <1>2, <1>5, <4>2 DEF Known
        <5>2. size = Cardinality(DOMAIN call.before) + 0
          BY <1>2, <4>2 DEF CallInv
        <5>3. Cardinality(DOMAIN call.before) \in Nat
          BY <1>5, FS_CardinalityType
        <5> QED
          BY <1>1, <4>2, <5>1, <5>2, <5>3 DEF SizeAfter
      <4> QED
        BY <2>2, <4>1, <4>2 DEF Inserts
    <3> QED
      BY <3>2, <3>3, <3>4
  <2> QED
    BY <1>2, <2>1, <2>2 DEF Known
<1>7. IdleInv'
  BY <1>1, <1>3, <1>6 DEF IdleInv, Agree
<1> QED
  BY <1>1, <1>2, <1>3, <1>4, <1>7 DEF IInv, InCall
-------------------------------------------------------------------------------
(* The workers. *)
LEMMA ServeStep ==
  ASSUME IInv, NEW w \in Workers, Serve(w)
  PROVE  IInv' /\ (AllAlive => pc \in {"sending", "receiving"} /\ AllAlive')
<1> DEFINE c == Head(cmds[w])
<1>1. /\ status[w] = "serving" /\ cmds[w] # << >> /\ c.kind # "Shutdown"
      /\ UNCHANGED <<part, size, pc, call, outbox, expected, results, status>>
      /\ cmds' = [cmds EXCEPT ![w] = Tail(@)]
      /\ map' = IF c.kind \in {"Insert", "Insertv2"}
                THEN [map EXCEPT ![w] = WithAll(@, Inserted(w, c))] ELSE map
      /\ IF OnSharedChannel(c)
         THEN response_channel' = Append(response_channel, Reply(w, c)) /\ UNCHANGED done_rx
         ELSE done_rx' = Append(done_rx, Reply(w, c)) /\ UNCHANGED response_channel
  BY DEF Serve, Taken, callVars
<1>2. TypeInv /\ ThreadsInv /\ Channels(cmds) /\ IsFiniteSet(UnderwayIn(cmds))
      /\ IsSeq(response_channel) /\ IsSeq(done_rx)
  BY DEF IInv, TypeInv
<1>3. /\ c \in Range(cmds[w]) /\ Range(cmds[w]) = {c} \cup Range(Tail(cmds[w]))
      /\ cmds'[w] = Tail(cmds[w]) /\ \A v \in Workers : v # w => cmds'[v] = cmds[v]
  <2>1. IsSeq(cmds[w]) /\ w \in DOMAIN cmds
    BY <1>2 DEF Channels
  <2> QED
    BY <1>1, <1>2, <2>1, SeqHead DEF Channels
<1>4. Channels(cmds') /\ IsFiniteSet(UnderwayIn(cmds')) /\ Commands' = Commands - 1
  BY <1>1, <1>2, OneLess, CommandsIs
<1>5. IsSeq(response_channel') /\ IsSeq(done_rx') /\ DOMAIN map' = Workers
  BY <1>1, <1>2, SeqAppend DEF TypeInv
<1> HIDE DEF c
<1>6. TypeInv' /\ AllAlive' = AllAlive
  BY <1>1, <1>2, <1>4, <1>5 DEF TypeInv, AllAlive
<1>7. ThreadsInv'
  BY <1>1, <1>2, <1>3 DEF ThreadsInv
<1>8. pc # "barrier" /\ pc # "idle"
  BY <1>1, <1>2 DEF IInv, IdleInv, Quiet
<1>9. ASSUME pc \notin {"sending", "receiving"} PROVE IInv' /\ ~AllAlive
  <2>1. ~AllAlive
    BY <1>1, <1>2, <1>3, <1>8, <1>9 DEF IInv, EndInv, TypeInv
  <2> QED
    BY <1>1, <1>6, <1>7, <1>8, <1>9, <2>1 DEF IInv, InCall, EndInv
<1>10. ASSUME pc \in {"sending", "receiving"} PROVE CallInv'
  <2>1. CallInv /\ Known /\ Due \in Nat /\ expected \in Int
    BY <1>2, <1>10, DueIs DEF IInv, InCall, CallInv, TypeInv
  <2>2. PICK t \in Tasks : /\ t = Task(w, c) /\ t.worker = w /\ t.cmd = c
                           /\ c.kind = Kind(call.op)
    <3>1. /\ Task(w, c) \in Tasks /\ Task(w, c).worker = w /\ Task(w, c).cmd = c
      BY <1>3, <2>1 DEF CallInv, FromTasks, Task
    <3> QED
      BY <2>1, <3>1, TaskIs
  <2>3. /\ OnSharedChannel(c) <=> call.op \in Batched
        /\ c.kind \in {"Insert", "Insertv2"} <=> call.op \in Inserts
        /\ call.op \in Inserts \/ call.op \in Gets
    BY <2>1, <2>2, SharedIs DEF Known
  <2>4. WaitsOn' = Append(WaitsOn, Reply(w, c)) /\ IsSeq(WaitsOn)
    BY <1>1, <1>2, <2>3 DEF WaitsOn
  <2>5. Range(WaitsOn') = Range(WaitsOn) \cup {Reply(w, c)} /\ Len(WaitsOn') = Len(WaitsOn) + 1
    BY <2>4, SeqAppend
  <2>6. Len(response_channel') + Len(done_rx') = Len(response_channel) + Len(done_rx) + 1
    <3>1. Len(response_channel) \in Nat /\ Len(done_rx) \in Nat
      BY <1>2, SeqIs
    <3> QED
      BY <1>1, <1>2, <3>1, SeqAppend
  <2>7. Due' = Due
    <3>1. Commands \in Nat /\ Len(outbox) \in Nat /\ Len(WaitsOn) \in Nat
      BY DueIs
    <3>2. Due' = Len(outbox) + (Commands - 1) + (Len(WaitsOn) + 1)
      BY <1>1, <1>4, <2>5 DEF Due
    <3> QED
      BY <3>1, <3>2 DEF Due
  <2>8. Known' /\ Tasks' = Tasks /\ call' = call
    BY <1>1, <2>1 DEF Known, Tasks
  <2>9. FromTasks'
    <3>1. \A v \in Workers : Range(cmds'[v]) \subseteq Range(cmds[v])
      BY <1>3
    <3> QED
      BY <1>1, <2>1, <2>8, <3>1 DEF CallInv, FromTasks
  <2>10. ASSUME NEW u \in Tasks, Waiting(u), u # t PROVE Waiting(u)'
    <3>1. u = Task(u.worker, u.cmd) /\ u.worker \in Workers
      BY <2>1, TaskIs
    <3>2. CASE u.worker = w /\ u.cmd = c
      BY <2>2, <2>10, <3>1, <3>2
    <3>3. CASE ~(u.worker = w /\ u.cmd = c)
      BY <1>1, <1>3, <2>10, <3>1, <3>3 DEF Waiting
    <3> QED
      BY <3>2, <3>3
  <2>11. ASSUME AllAlive, call.op \in Gets PROVE Getting'
    <3>1. Getting /\ call.op \notin Inserts
      BY <2>1, <2>11 DEF CallInv, Gets, Inserts
    <3>2. map' = map /\ Stored' = Stored
      BY <1>1, <2>3, <3>1 DEF Stored
    <3>3. \A u : Reply(u.worker, u.cmd)' = Reply(u.worker, u.cmd)
      BY <3>2 DEF Reply, Found
    <3>4. \A u : Placed(u)' = Placed(u)
      BY <1>1, <3>3 DEF Placed
    <3>5. \A q \in Range(WaitsOn') : \E u \in Tasks : q = Reply(u.worker, u.cmd)'
      BY <2>2, <2>5, <3>1, <3>3 DEF Getting
    <3>6. ASSUME NEW u \in Tasks
          PROVE  Waiting(u)' \/ Reply(u.worker, u.cmd)' \in Range(WaitsOn') \/ Placed(u)'
      <4>1. CASE u = t
        BY <2>2, <2>5, <3>3, <4>1
      <4>2. CASE u # t
        BY <2>5, <2>10, <3>1, <3>3, <3>4, <4>2 DEF Getting
      <4> QED
        BY <4>1, <4>2
    <3> QED
      BY <1>1, <2>8, <3>1, <3>2, <3>5, <3>6 DEF Getting, Agree
  <2>12. ASSUME AllAlive, call.op \in Inserts PROVE Inserting'
    <3>1. Inserting
      BY <2>1, <2>12 DEF CallInv
    <3>2. PICK val : Chosen(val) /\ Within(val)
      BY <3>1 DEF Inserting
    <3>3. /\ map'[w] = WithAll(map[w], Inserted(w, c)) /\ \A v \in Workers : v # w => map'[v] = map[v]
      BY <1>1, <1>2, <2>3, <2>12 DEF TypeInv
    <3>4. /\ \A k : k \in DOMAIN map'[w] <=>
                 k \in DOMAIN map[w] \/ \E kv \in Inserted(w, c) : kv[1] = k
          /\ \A k \in DOMAIN map[w] : map'[w][k] = map[w][k]
          /\ \A k \in DOMAIN map'[w] : k \notin DOMAIN map[w] =>
               \E kv \in Inserted(w, c) : kv[1] = k /\ map'[w][k] = kv[2]
      <4> DEFINE pairs == Inserted(w, c)
      <4> HIDE DEF pairs
      <4>1. map'[w] = WithAll(map[w], pairs)
        BY <3>3 DEF pairs
      <4>2. /\ \A k : k \in DOMAIN map'[w] <=> k \in DOMAIN map[w] \/ \E kv \in pairs : kv[1] = k
            /\ \A k \in DOMAIN map[w] : map'[w][k] = map[w][k]
            /\ \A k \in DOMAIN map'[w] : k \notin DOMAIN map[w] =>
                 \E kv \in pairs : kv[1] = k /\ map'[w][k] = kv[2]
        BY <4>1, WithAllIs
      <4> QED
        BY <4>2 DEF pairs
    <3>5. \A kv \in Inserted(w, c) : kv[1] \in Range(call.keys) /\ kv[2] = val[kv[1]]
      <4>1. Task(w, c) \in Tasks
        BY <2>2
      <4> QED
        BY <2>1, <3>2, <4>1, InsertedAre
    <3>6. Chosen(val)'
      BY <1>1, <2>8, <3>2 DEF Chosen
    <3>7. Within(val)'
      <4>1. ASSUME NEW k \in DOMAIN map'[w]
            PROVE  \/ k \in DOMAIN call.before /\ map'[w][k] = call.before[k]
                   \/ k \in Range(call.keys) /\ map'[w][k] = val[k]
        BY <3>2, <3>4, <3>5 DEF Within
      <4> QED
        BY <2>8, <3>2, <3>3, <4>1 DEF Within
    <3>8. \A v \in Workers : DOMAIN map[v] \subseteq DOMAIN map'[v]
      BY <3>3, <3>4
    <3>9. \A k \in DOMAIN call.before : k \in Key /\ k \in DOMAIN map'[part[k]]
      BY <1>2, <3>1, <3>8, WorkersAre DEF Inserting, TypeInv
    <3>10. Arrived(t)'
      <4> SUFFICES ASSUME NEW x \in DOMAIN c.blocks, Live(t, x) PROVE KeyOf(c, x) \in DOMAIN map'[w]
        BY <2>2 DEF Arrived
      <4>1. Task(w, c) = [worker |-> w, cmd |-> c]
        BY DEF Task
      <4>2. <<KeyOf(c, x), ValueOf(c, x)>> \in Inserted(w, c)
        BY <2>2, <4>1 DEF Inserted
      <4>3. <<KeyOf(c, x), ValueOf(c, x)>>[1] = KeyOf(c, x)
        OBVIOUS
      <4> QED
        BY <3>4, <4>2, <4>3
    <3>11. ASSUME NEW u \in Tasks, Arrived(u) PROVE Arrived(u)'
      <4>1. u.worker \in Workers
        BY <2>1, TaskIs
      <4> QED
        BY <3>8, <3>11, <4>1 DEF Arrived
    <3>12. \A q \in Range(WaitsOn') : q.kind = "Unit"
      BY <2>1, <2>2, <2>5, <2>12, <3>1, ReplyIs DEF Inserting
    <3>13. \A u \in Tasks : Waiting(u)' \/ Arrived(u)'
      <4> SUFFICES ASSUME NEW u \in Tasks PROVE Waiting(u)' \/ Arrived(u)'
        OBVIOUS
      <4>1. CASE u = t
        BY <3>10, <4>1
      <4>2. CASE u # t
        BY <2>10, <3>1, <3>11, <4>2 DEF Inserting
      <4> QED
        BY <4>1, <4>2
    <3> QED
      BY <1>1, <2>8, <3>6, <3>7, <3>9, <3>12, <3>13 DEF Inserting
  <2>13. /\ ~AllAlive' => expected' > Due'
         /\ AllAlive' => expected' = Due' /\ Len(response_channel') + Len(done_rx') = Len(WaitsOn')
    BY <1>1, <1>6, <2>1, <2>5, <2>6, <2>7, DueIs DEF CallInv
  <2> QED
    BY <1>1, <1>6, <2>1, <2>8, <2>9, <2>11, <2>12, <2>13 DEF CallInv
<1>11. ASSUME pc \in {"sending", "receiving"} PROVE IInv'
  BY <1>1, <1>6, <1>7, <1>10, <1>11 DEF IInv, InCall
<1> QED
  BY <1>6, <1>9, <1>11

LEMMA WorkerPanicsStep ==
  ASSUME IInv, NEW w \in Workers, WorkerPanics(w)
  PROVE  IInv' /\ ~AllAlive' /\ (AllAlive => pc \in {"sending", "receiving"})
<1>1. /\ status[w] = "serving" /\ cmds[w] # << >>
      /\ UNCHANGED <<part, size, pc, call, outbox, expected, results, response_channel, done_rx>>
      /\ Head(cmds[w]).kind \in {"Insert", "Insertv2"}
      /\ status' = [status EXCEPT ![w] = "dead"] /\ cmds' = [cmds EXCEPT ![w] = << >>]
  BY DEF WorkerPanics, Taken, callVars
<1>2. TypeInv /\ ThreadsInv /\ Channels(cmds) /\ IsFiniteSet(UnderwayIn(cmds)) /\ DOMAIN map' = Workers
  BY DEF IInv, TypeInv, WorkerPanics
<1>3. /\ cmds'[w] = << >> /\ \A v \in Workers : v # w => cmds'[v] = cmds[v]
      /\ status'[w] = "dead" /\ \A v \in Workers : v # w => status'[v] = status[v]
  BY <1>1, <1>2 DEF TypeInv, Channels
<1>4. /\ Channels(cmds') /\ IsFiniteSet(UnderwayIn(cmds'))
      /\ Cardinality(UnderwayIn(cmds')) < Cardinality(UnderwayIn(cmds))
  BY <1>1, <1>2, SomeLess
<1>5. ~AllAlive'
  BY <1>3 DEF AllAlive
<1>6. TypeInv'
  BY <1>1, <1>2, <1>4 DEF TypeInv
<1>7. ThreadsInv'
  BY <1>1, <1>2, <1>3, EmptyRange DEF ThreadsInv
<1>8. pc # "barrier" /\ pc # "idle"
  BY <1>1, <1>2 DEF IInv, IdleInv, Quiet
<1>9. Head(cmds[w]) \in Range(cmds[w])
  BY <1>1, <1>2, SeqHead DEF Channels
<1>10. AllAlive => pc \in {"sending", "receiving"}
  BY <1>1, <1>2, <1>8, <1>9 DEF IInv, EndInv, TypeInv
<1>11. ASSUME pc \in {"sending", "receiving"} PROVE CallInv'
  <2>1. CallInv /\ expected >= Due /\ Due \in Nat /\ expected \in Int
    BY <1>2, <1>11, DueIs DEF IInv, InCall, CallInv, TypeInv
  <2>2. Due' < Due
    <3>1. Commands' < Commands /\ Commands' \in Nat /\ WaitsOn' = WaitsOn
      BY <1>1, <1>4, NoneUnderway, CommandsIs DEF WaitsOn
    <3> QED
      BY <1>1, <3>1, DueIs DEF Due
  <2>3. Due' \in Int
    <3>1. Commands' \in Nat /\ WaitsOn' = WaitsOn
      BY <1>1, <1>4, NoneUnderway, CommandsIs DEF WaitsOn
    <3> QED
      BY <1>1, <3>1, DueIs DEF Due
  <2>4. Known' /\ Tasks' = Tasks
    BY <1>1, <2>1 DEF CallInv, Known, Tasks
  <2>5. FromTasks'
    <3>1. \A v \in Workers : Range(cmds'[v]) \subseteq Range(cmds[v])
      BY <1>3, EmptyRange
    <3> QED
      BY <1>1, <2>1, <2>4, <3>1 DEF CallInv, FromTasks
  <2> QED
    BY <1>1, <1>5, <2>1, <2>2, <2>3, <2>4, <2>5 DEF CallInv
<1> QED
  BY <1>1, <1>5, <1>6, <1>7, <1>8, <1>10, <1>11 DEF IInv, InCall, EndInv

LEMMA StopStep ==
  ASSUME IInv, NEW w \in Workers, Stop(w)
  PROVE  IInv' /\ Stored' = Stored /\ pc \in {"dropping", "dropped"}
         /\ UNCHANGED <<pc, call>> /\ AllAlive' = AllAlive
<1>1. /\ status[w] = "serving" /\ cmds[w] # << >> /\ Head(cmds[w]).kind = "Shutdown"
      /\ UNCHANGED <<part, size, pc, call, outbox, expected, results, map, response_channel, done_rx>>
      /\ status' = [status EXCEPT ![w] = "stopped"] /\ cmds' = [cmds EXCEPT ![w] = << >>]
  BY DEF Stop, Taken, callVars
<1>2. TypeInv /\ ThreadsInv /\ Channels(cmds) /\ IsFiniteSet(UnderwayIn(cmds))
  BY DEF IInv, TypeInv
<1>3. /\ cmds'[w] = << >> /\ \A v \in Workers : v # w => cmds'[v] = cmds[v]
      /\ status'[w] = "stopped" /\ \A v \in Workers : v # w => status'[v] = status[v]
  BY <1>1, <1>2 DEF TypeInv, Channels
<1>4. Channels(cmds') /\ IsFiniteSet(UnderwayIn(cmds'))
  BY <1>1, <1>2, SomeLess
<1>5. Head(cmds[w]) \in Range(cmds[w])
  BY <1>1, <1>2, SeqHead DEF Channels
<1>6. pc \in {"dropping", "dropped"}
  BY <1>1, <1>2, <1>5 DEF ThreadsInv
<1>7. TypeInv' /\ AllAlive' = AllAlive
  BY <1>1, <1>2, <1>3, <1>4 DEF TypeInv, AllAlive
<1>8. ThreadsInv'
  BY <1>1, <1>2, <1>3, <1>6 DEF ThreadsInv
<1>9. EndInv'
  BY <1>1, <1>3, <1>6, <1>7, EmptyRange DEF IInv, EndInv
<1> QED
  BY <1>1, <1>6, <1>7, <1>8, <1>9 DEF IInv, InCall, Stored
-------------------------------------------------------------------------------
(* The drop. *)
LEMMA DropStep ==
  ASSUME IInv, Drop \/ Joined
  PROVE  IInv' /\ Stored' = Stored /\ pc \in {"idle", "panicked", "dropping"}
         /\ pc' \in {"dropping", "dropped"} /\ UNCHANGED <<call, status>>
<1> DEFINE shut == [kind |-> "Shutdown"]
<1>1. PICK w : cmds' = IF w \in Workers /\ status[w] \notin Gone
                       THEN [cmds EXCEPT ![w] = Append(@, shut)] ELSE cmds
  BY DEF Drop, Joined, SentShutdown
<1>2. /\ pc \in {"idle", "panicked", "dropping"} /\ pc' \in {"dropping", "dropped"}
      /\ UNCHANGED <<part, size, call, outbox, expected, results, status, map, response_channel, done_rx>>
  BY DEF Drop, Joined, callVars
<1>3. TypeInv /\ ThreadsInv /\ Channels(cmds) /\ IsFiniteSet(UnderwayIn(cmds))
  BY DEF IInv, TypeInv
<1>4. Channels(cmds') /\ IsFiniteSet(UnderwayIn(cmds'))
  BY <1>1, <1>3, OneMore
<1>5. \A v \in Workers : Range(cmds'[v]) \subseteq Range(cmds[v]) \cup {shut}
  <2>1. ASSUME NEW v \in Workers, v = w, cmds' = [cmds EXCEPT ![w] = Append(@, shut)]
        PROVE  Range(cmds'[v]) = Range(cmds[v]) \cup {shut}
    <3>1. cmds'[v] = Append(cmds[v], shut) /\ IsSeq(cmds[v])
      BY <1>3, <2>1 DEF Channels
    <3> QED
      BY <3>1, SeqAppend
  <2>2. ASSUME NEW v \in Workers, v # w, cmds' = [cmds EXCEPT ![w] = Append(@, shut)]
        PROVE  cmds'[v] = cmds[v]
    BY <2>2, <1>3 DEF Channels
  <2> QED
    BY <1>1, <2>1, <2>2
<1>6. TypeInv' /\ AllAlive' = AllAlive
  BY <1>2, <1>3, <1>4 DEF TypeInv, AllAlive
<1>7. ThreadsInv'
  BY <1>2, <1>3 DEF ThreadsInv
<1>8. AllAlive => \A v \in Workers : \A c \in Range(cmds[v]) : c.kind = "Shutdown"
  BY <1>2, EmptyRange DEF IInv, EndInv, IdleInv, Quiet
<1>9. EndInv'
  BY <1>5, <1>6, <1>8 DEF EndInv
<1> QED
  BY <1>2, <1>6, <1>7, <1>9 DEF IInv, InCall, Stored
-------------------------------------------------------------------------------
(* The invariants. *)
LEMMA StutterStep ==
  ASSUME IInv, UNCHANGED vars
  PROVE  IInv' /\ Stored' = Stored /\ AllAlive' = AllAlive /\ InCall' = InCall
<1>1. UNCHANGED <<part, size, pc, call, outbox, expected, results, status, map, cmds,
                  response_channel, done_rx>>
  BY DEF vars, callVars
<1>2. TypeInv' = TypeInv /\ ThreadsInv' = ThreadsInv /\ AllAlive' = AllAlive /\ InCall' = InCall
  BY <1>1 DEF TypeInv, ThreadsInv, AllAlive, InCall, Channels
<1>3. Stored' = Stored
  BY <1>1 DEF Stored
<1>4. /\ \A d : Agree(d)' = Agree(d)
      /\ Quiet' = Quiet /\ Known' = Known /\ FromTasks' = FromTasks /\ EndInv' = EndInv
      /\ Tasks' = Tasks /\ Due' = Due /\ WaitsOn' = WaitsOn
  BY <1>1, <1>2, CommandsIs DEF Agree, Quiet, Known, FromTasks, EndInv, Tasks, Due, WaitsOn
<1>5. \A t : /\ Waiting(t)' = Waiting(t) /\ Arrived(t)' = Arrived(t)
             /\ Reply(t.worker, t.cmd)' = Reply(t.worker, t.cmd)
  BY <1>1 DEF Waiting, Arrived, Reply, Found
<1>6. \A t : Placed(t)' = Placed(t)
  BY <1>1, <1>5 DEF Placed
<1>7. \A val : Chosen(val) /\ Within(val) => Chosen(val)' /\ Within(val)'
  BY <1>1, <1>4 DEF Chosen, Within
<1>8. (Getting => Getting') /\ (Inserting => Inserting')
  BY <1>1, <1>3, <1>4, <1>5, <1>6, <1>7 DEF Getting, Inserting
<1>9. (CallInv => CallInv') /\ (IdleInv => IdleInv')
  BY <1>1, <1>2, <1>3, <1>4, <1>8 DEF CallInv, IdleInv
<1> QED
  BY <1>1, <1>2, <1>3, <1>4, <1>9 DEF IInv

LEMMA Inductive == IInv /\ [Next]_vars => IInv'
<1> SUFFICES ASSUME IInv, [Next]_vars PROVE IInv'
  OBVIOUS
<1>1. CASE Begin
  BY <1>1, BeginStep
<1>2. CASE Drop \/ Joined
  BY <1>2, DropStep
<1>3. CASE Started \/ Send \/ Receive \/ ChannelClosed \/ Return
  BY <1>3, BarrierStep, SendStep, ReceiveStep, ChannelClosedStep, ReturnStep
<1>4. ASSUME NEW w \in Workers, WorkerStep(w) PROVE IInv'
  BY <1>4, BarrierStep, ServeStep, WorkerPanicsStep, StopStep DEF WorkerStep
<1>5. CASE UNCHANGED vars
  BY <1>5, StutterStep
<1> QED
  BY <1>1, <1>2, <1>3, <1>4, <1>5 DEF Next, CallerStep

LEMMA Invariant == Spec => []IInv
BY InitIsIInv, Inductive, PTL DEF Spec

(* While all workers live, every reply that a call waits for is owed by one    *)
(* command or is in the channel it is received from, and between calls there   *)
(* is nothing that a later call could take for its own.                        *)
THEOREM RepliesMatch == Spec => []ReplyPerCommand
<1>1. IInv => ReplyPerCommand
  <2> SUFFICES ASSUME IInv, AllAlive PROVE ReplyPerCommand
    BY DEF ReplyPerCommand
  <2>1. InCall => /\ expected = Len(outbox) + Commands + Len(WaitsOn)
                  /\ Len(response_channel) + Len(done_rx) = Len(WaitsOn)
    BY DEF IInv, CallInv, Due
  <2>2. pc = "idle" => Commands = 0 /\ response_channel = << >> /\ done_rx = << >>
    BY NoneUnderway, CommandsIs DEF IInv, IdleInv, Quiet, TypeInv
  <2> QED
    BY <2>1, <2>2 DEF ReplyPerCommand
<1> QED
  BY <1>1, Invariant, PTL

(* The size that the insertions keep is the number of keys lookups can reach.  *)
THEOREM SizeCounts == Spec => []SizeIsCount
<1>1. IInv => SizeIsCount
  BY DEF IInv, IdleInv, SizeIsCount
<1> QED
  BY <1>1, Invariant, PTL

(* A key in the map of a worker it does not belong to is a copy.               *)
THEOREM CopiesAgree == Spec => []ForeignKeysAreCopies
<1>1. IInv => ForeignKeysAreCopies
  BY DEF IInv, IdleInv, Agree, ForeignKeysAreCopies
<1> QED
  BY <1>1, Invariant, PTL
-------------------------------------------------------------------------------
(* The answers of a get. *)
LEMMA FoundIsExpected ==
  ASSUME IInv, Stored = call.before, NEW k \in Key
  PROVE  Found(part[k], k) = Expected(k)
<1>1. k \in DOMAIN Stored <=> k \in DOMAIN map[part[k]]
  BY DEF Stored
<1>2. k \in DOMAIN Stored => Stored[k] = map[part[k]][k]
  BY DEF Stored
<1> QED
  BY <1>1, <1>2 DEF Found, Expected

LEMMA AnswersAre ==
  ASSUME IInv, pc = "receiving", expected = 0, call.op \in Gets,
         "get_batch" \notin RepeatedKeys
  PROVE  Answers = [i \in DOMAIN call.keys |-> Expected(call.keys[i])] /\ Stored = call.before
<1>1. /\ AllAlive /\ CallInv /\ Known /\ Getting /\ \A t \in Tasks : Placed(t)
      /\ part \in Partitions
  BY AllServed DEF CallInv, IInv, TypeInv
<1>2. /\ Stored = call.before /\ DOMAIN results = Slots(call.b)
      /\ call.keys \in KeyBatches /\ call.b \in 0 .. BatchLen(call.keys)
  BY <1>1 DEF Getting, Known
<1>3. \A i \in DOMAIN call.keys : call.keys[i] \in Key
  BY <1>2, BatchesAre
<1>4. \A t \in Tasks : \A x \in DOMAIN t.cmd.blocks :
        results[SlotOf(t, x, call.b)] =
          IF t.cmd.kind = "Get"
          THEN [t.cmd.blocks[x] EXCEPT !.v = Found(t.worker, t.cmd.blocks[x].k)]
          ELSE Found(t.worker, t.cmd.blocks[x].key)
  BY <1>1, ReplyIs DEF Placed
<1>5. CASE call.op \in {"get_batch_distinct", "get_batch_leaky"}
  <2> DEFINE index == [s \in DOMAIN results |-> results[s].index]
  <2>1. IndexedTasks(call.plan.tasks, call.keys, part, call.b) /\ Kind(call.op) = "Get"
    BY <1>1, <1>5 DEF Known, Kind
  <2>2. \A t \in Tasks : t.cmd.kind = "Get"
    BY <1>1, <2>1, TaskIs
  <2>3. \A t \in Tasks : \A x \in DOMAIN t.cmd.blocks :
          /\ SlotOf(t, x, call.b) \in Slots(call.b)
          /\ t.cmd.blocks[x].index \in DOMAIN call.keys \cup {InvalidId}
          /\ results[SlotOf(t, x, call.b)].index = t.cmd.blocks[x].index
          /\ results[SlotOf(t, x, call.b)].v = Found(t.worker, KeyOf(t.cmd, x))
    <3> SUFFICES ASSUME NEW t \in Tasks, NEW x \in DOMAIN t.cmd.blocks
                 PROVE  /\ SlotOf(t, x, call.b) \in Slots(call.b)
                        /\ t.cmd.blocks[x].index \in DOMAIN call.keys \cup {InvalidId}
                        /\ results[SlotOf(t, x, call.b)].index = t.cmd.blocks[x].index
                        /\ results[SlotOf(t, x, call.b)].v = Found(t.worker, KeyOf(t.cmd, x))
      OBVIOUS
    <3>1. SlotOf(t, x, call.b) \in Slots(call.b)
      BY <2>1 DEF IndexedTasks, Dispatched, Tasks
    <3>2. /\ DOMAIN t.cmd.blocks[x] = {"index", "k", "v"}
          /\ t.cmd.blocks[x].index \in DOMAIN call.keys \cup {InvalidId}
      BY <2>1 DEF IndexedTasks, Tasks
    <3>3. results[SlotOf(t, x, call.b)] =
            [t.cmd.blocks[x] EXCEPT !.v = Found(t.worker, t.cmd.blocks[x].k)]
      BY <1>4, <2>2
    <3>4. KeyOf(t.cmd, x) = t.cmd.blocks[x].k
      BY <2>2 DEF KeyOf
    <3> QED
      BY <3>1, <3>2, <3>3, <3>4
  <2>4. index \in [Slots(call.b) -> DOMAIN call.keys \cup {InvalidId}]
    <3>1. \A s \in Slots(call.b) : \E t \in Tasks : \E x \in DOMAIN t.cmd.blocks : s = SlotOf(t, x, call.b)
      BY <2>1 DEF IndexedTasks, Tasks
    <3> QED
      BY <1>2, <2>3, <3>1
  <2>5. ASSUME NEW i \in DOMAIN call.keys
        PROVE  \E s \in Slots(call.b) :
                 /\ {r \in Slots(call.b) : index[r] = i} = {s}
                 /\ results[s].v = Found(part[call.keys[i]], call.keys[i])
    <3>1. PICK t \in Tasks : \E x \in DOMAIN t.cmd.blocks :
            /\ t.cmd.blocks[x].index = i
            /\ t.worker = part[call.keys[i]] /\ KeyOf(t.cmd, x) = call.keys[i]
      BY <2>1 DEF IndexedTasks, Tasks
    <3>2. PICK x \in DOMAIN t.cmd.blocks :
            /\ t.cmd.blocks[x].index = i
            /\ t.worker = part[call.keys[i]] /\ KeyOf(t.cmd, x) = call.keys[i]
      BY <3>1
    <3> DEFINE s == SlotOf(t, x, call.b)
    <3>3. s \in Slots(call.b) /\ index[s] = i /\ results[s].v = Found(part[call.keys[i]], call.keys[i])
      BY <1>2, <2>3, <3>2
    <3>4. ASSUME NEW r \in Slots(call.b), index[r] = i PROVE r = s
      <4>1. PICK u \in Tasks : \E y \in DOMAIN u.cmd.blocks : r = SlotOf(u, y, call.b)
        BY <2>1 DEF IndexedTasks, Tasks
      <4>2. PICK y \in DOMAIN u.cmd.blocks : r = SlotOf(u, y, call.b)
        BY <4>1
      <4>3. u.cmd.blocks[y].index = i
        BY <1>2, <2>3, <3>4, <4>2
      <4>4. i # InvalidId
        BY <1>2, ShardedAssumption
      <4>5. t = u /\ x = y
        BY <2>1, <3>2, <4>3, <4>4 DEF IndexedTasks, Tasks
      <4> QED
        BY <4>2, <4>5
    <3> QED
      BY <3>3, <3>4
  <2> HIDE DEF index
  <2>6. \A i \in DOMAIN call.keys : Ordering(index)[i] \in Slots(call.b) /\ index[Ordering(index)[i]] = i
    BY <1>2, <2>4, <2>5, OrderContract
  <2>7. ASSUME NEW i \in DOMAIN call.keys
        PROVE  results[Ordering(index)[i]].v = Expected(call.keys[i])
    <3>1. PICK s \in Slots(call.b) : /\ {r \in Slots(call.b) : index[r] = i} = {s}
                                     /\ results[s].v = Found(part[call.keys[i]], call.keys[i])
      BY <2>5
    <3>2. Ordering(index)[i] = s
      BY <2>6, <3>1
    <3> QED
      BY <1>2, <1>3, <3>1, <3>2, FoundIsExpected
  <2>8. Answers = [i \in DOMAIN call.keys |-> results[Ordering(index)[i]].v]
    BY <1>5 DEF Answers, index
  <2> QED
    BY <1>2, <2>7, <2>8
<1>6. CASE call.op = "get_batch"
  <2> DEFINE source == SourcesIn(call.plan, call.b, BatchLen(call.keys))
  <2>1. Routes(source, call.plan.tasks, call.keys, part, call.b) /\ Kind(call.op) = "Getv2"
    BY <1>1, <1>6 DEF Known, Kind
  <2>2. \A t \in Tasks : t.cmd.kind = "Getv2"
    BY <1>1, <2>1, TaskIs
  <2> HIDE DEF source
  <2>3. ASSUME NEW i \in DOMAIN call.keys
        PROVE  results[source[i]] = Expected(call.keys[i])
    <3>1. PICK t \in Tasks : \E x \in DOMAIN t.cmd.blocks :
            /\ source[i] = SlotOf(t, x, call.b)
            /\ t.worker = part[call.keys[i]] /\ KeyOf(t.cmd, x) = call.keys[i]
      BY <2>1 DEF Routes, Tasks
    <3>2. PICK x \in DOMAIN t.cmd.blocks :
            /\ source[i] = SlotOf(t, x, call.b)
            /\ t.worker = part[call.keys[i]] /\ KeyOf(t.cmd, x) = call.keys[i]
      BY <3>1
    <3>3. KeyOf(t.cmd, x) = t.cmd.blocks[x].key /\ t.cmd.kind # "Get"
      BY <2>2 DEF KeyOf
    <3>4. results[source[i]] = Found(part[call.keys[i]], call.keys[i])
      BY <1>4, <3>2, <3>3
    <3> QED
      BY <1>2, <1>3, <3>4, FoundIsExpected
  <2>4. Answers = [i \in DOMAIN call.keys |-> results[source[i]]]
    BY <1>6 DEF Answers, source
  <2> QED
    BY <1>2, <2>3, <2>4
<1> QED
  BY <1>5, <1>6 DEF Gets
-------------------------------------------------------------------------------
(* The workers together implement one map that takes whole batches.            *)
LEMMA InitIsBatches == Init => Batches!Init
<1> SUFFICES ASSUME Init PROVE Batches!Init
  OBVIOUS
<1>1. /\ pc = "barrier" /\ call = NoCall /\ part \in Partitions
      /\ \A w \in Workers : map[w] = << >>
      /\ \A w \in Workers : status[w] = "spawned"
  BY DEF Init
<1>2. AllAlive /\ ~InCall
  BY <1>1 DEF AllAlive, InCall
<1>3. DOMAIN Stored = {}
  <2>1. \A k \in Key : DOMAIN map[part[k]] = {}
    BY <1>1, WorkersAre
  <2> QED
    BY <2>1 DEF Stored
<1>4. Stored = [k \in {} |-> NoValue]
  <2>1. Stored = [k \in DOMAIN Stored |-> Stored[k]]
    BY DEF Stored
  <2> QED
    BY <1>3, <2>1
<1> QED
  BY <1>1, <1>2, <1>4 DEF Batches!Init

Dict == IF InCall \/ ~AllAlive THEN call.before ELSE Stored

(* Every step but a return leaves the map as it is and forgets the answer.     *)
LEMMA OtherStep ==
  ASSUME IInv, Next, ~Return
  PROVE  Dict' = Dict /\ ~(pc' = "idle" /\ call'.op \in Gets)
<1>1. CASE Begin
  BY <1>1, BeginStep DEF Dict, InCall
<1>2. CASE Started \/ \E w \in Workers : ArriveAtBarrier(w)
  BY <1>2, BarrierStep DEF Dict, InCall, NoCall, Gets
<1>3. CASE Send \/ Receive \/ ChannelClosed
  <2>1. StillInCall
    BY <1>3, SendStep, ReceiveStep, ChannelClosedStep
  <2> QED
    BY <2>1 DEF Dict, StillInCall
<1>4. CASE Drop \/ Joined
  BY <1>4, DropStep DEF Dict, InCall, AllAlive
<1>5. ASSUME NEW w \in Workers, Serve(w) \/ WorkerPanics(w)
      PROVE  Dict' = Dict /\ ~(pc' = "idle" /\ call'.op \in Gets)
  <2>1. /\ UNCHANGED <<pc, call>> /\ cmds[w] # << >>
        /\ AllAlive => pc \in {"sending", "receiving"}
    BY <1>5, ServeStep, WorkerPanicsStep DEF Serve, WorkerPanics, Taken, callVars
  <2>2. pc # "idle"
    BY <2>1 DEF IInv, IdleInv, Quiet
  <2>3. ~AllAlive => ~AllAlive'
    <3>1. status' = status \/ status' = [status EXCEPT ![w] = "dead"]
      BY <1>5 DEF Serve, WorkerPanics
    <3> QED
      BY <3>1 DEF AllAlive, IInv, TypeInv
  <2> QED
    BY <2>1, <2>2, <2>3 DEF Dict, InCall
<1>6. ASSUME NEW w \in Workers, Stop(w)
      PROVE  Dict' = Dict /\ ~(pc' = "idle" /\ call'.op \in Gets)
  BY <1>6, StopStep DEF Dict, InCall
<1> QED
  BY <1>1, <1>2, <1>3, <1>4, <1>5, <1>6 DEF Next, CallerStep, WorkerStep

(* A get takes effect when it returns. *)
LEMMA GetReturns ==
  ASSUME IInv, Return, call.op \in Gets, "get_batch" \notin RepeatedKeys
  PROVE  Batches!Get(call.keys) /\ call.keys \in KeyBatches
<1>1. /\ pc = "receiving" /\ expected = 0 /\ pc' = "idle" /\ results' = Answers /\ call' = call
  BY DEF Return, Finished
<1>2. Answers = [i \in DOMAIN call.keys |-> Expected(call.keys[i])] /\ Stored = call.before
  BY <1>1, AnswersAre
<1>3. IInv' /\ Stored' = Stored /\ AllAlive /\ AllAlive' /\ InCall /\ ~InCall'
  BY <1>1, ReturnStep DEF InCall
<1>4. call.keys \in KeyBatches
  BY <1>3 DEF IInv, CallInv, Known
<1>5. \A k : (IF Expected(k).is_some THEN Expected(k).value ELSE NoValue)
               = IF k \in DOMAIN call.before THEN call.before[k] ELSE NoValue
  BY DEF Expected, OOption, NoAnswer
<1>6. Returned' = [keys |-> call.keys,
                   found |-> [i \in DOMAIN call.keys |->
                                IF call.keys[i] \in DOMAIN call.before THEN call.before[call.keys[i]]
                                ELSE NoValue]]
  BY <1>1, <1>2, <1>5 DEF Returned
<1> QED
  BY <1>1, <1>2, <1>3, <1>4, <1>6 DEF Batches!Get, Batches!LookedUp

(* So does an insertion, as a whole: of the values that the batch has for a    *)
(* key, repeated or not, all workers have stored the same one.                 *)
InsertedOneEach(val) ==
  /\ val \in [Range(call.keys) -> Value]
  /\ \A k \in Range(call.keys) : \E i \in DOMAIN call.keys : call.keys[i] = k /\ call.values[i] = val[k]
  /\ Stored = [k \in DOMAIN call.before \cup Range(call.keys) |->
                 IF k \in Range(call.keys) THEN val[k] ELSE call.before[k]]

LEMMA InsertReturns ==
  ASSUME IInv, Return, call.op \in Inserts
  PROVE  /\ \E val : InsertedOneEach(val)
         /\ call.keys \in KeyBatches /\ call.values \in ValueBatches
         /\ DOMAIN call.keys = DOMAIN call.values
         /\ Range(call.keys) \cap DOMAIN call.before = {} /\ call.op \notin Gets
         /\ Dict = call.before /\ Dict' = Stored
         /\ pc' = "idle" /\ call' = call
<1>1. pc = "receiving" /\ expected = 0 /\ pc' = "idle" /\ call' = call
  BY DEF Return, Finished
<1>2. IInv' /\ Stored' = Stored /\ AllAlive /\ AllAlive' /\ InCall /\ ~InCall'
  BY <1>1, ReturnStep DEF InCall
<1>3. CallInv /\ Known /\ Inserting
  BY <1>2 DEF IInv, CallInv
<1>4. PICK val : Chosen(val) /\ Within(val)
  BY <1>3 DEF Inserting
<1>5. /\ DOMAIN Stored = DOMAIN call.before \cup Range(call.keys)
      /\ \A k \in Range(call.keys) : Stored[k] = val[k]
      /\ \A k \in DOMAIN call.before : k \notin Range(call.keys) /\ Stored[k] = call.before[k]
  BY <1>1, <1>4, InsertedWhole
<1>6. /\ call.keys \in KeyBatches /\ call.values \in ValueBatches
      /\ DOMAIN call.keys = DOMAIN call.values
  BY <1>3 DEF Known
<1>7. val \in [Range(call.keys) -> Value]
  <2>1. Range(call.values) \subseteq Value
    BY <1>6, ShardedAssumption DEF Range
  <2> QED
    BY <1>4, <2>1 DEF Chosen
<1>8. Stored = [k \in DOMAIN call.before \cup Range(call.keys) |->
                  IF k \in Range(call.keys) THEN val[k] ELSE call.before[k]]
  <2>1. Stored = [k \in DOMAIN Stored |-> Stored[k]]
    BY DEF Stored
  <2> QED
    BY <1>5, <2>1
<1>9. \A k \in Range(call.keys) : \E i \in DOMAIN call.keys : call.keys[i] = k /\ call.values[i] = val[k]
  BY <1>4 DEF Chosen
<1>10. Range(call.keys) \cap DOMAIN call.before = {} /\ call.op \notin Gets
  BY <1>3 DEF Known, Inserts, Gets
<1>11. Dict = call.before /\ Dict' = Stored
  BY <1>2 DEF Dict
<1>12. InsertedOneEach(val)
  BY <1>7, <1>8, <1>9 DEF InsertedOneEach
<1> QED
  BY <1>1, <1>6, <1>10, <1>11, <1>12

(* Of distinct keys, each position is the first occurrence of its key. *)
LEMMA DistinctInsertReturns ==
  ASSUME IInv, Return, call.op \in Inserts, ~RepeatedInsertion
  PROVE  Batches!Insert(call.keys, call.values)
         /\ call.keys \in KeyBatches /\ call.values \in ValueBatches
<1>1. /\ call.keys \in KeyBatches /\ call.values \in ValueBatches
      /\ DOMAIN call.keys = DOMAIN call.values
      /\ Range(call.keys) \cap DOMAIN call.before = {} /\ call.op \notin Gets
      /\ Dict = call.before /\ Dict' = Stored
      /\ pc' = "idle" /\ call' = call
  BY InsertReturns
<1>2. PICK val : InsertedOneEach(val)
  BY InsertReturns
<1>3. Distinct(call.keys)
  <2>1. Known
    BY DEF IInv, CallInv, Return, Finished, InCall
  <2> QED
    BY <2>1 DEF Known, Inserts, RepeatedInsertion, Return
<1> DEFINE new == {call.keys[i] : i \in DOMAIN call.keys}
<1>4. Range(call.keys) = new
  BY DEF Range
<1>5. ASSUME NEW k \in new
      PROVE  \E i \in DOMAIN call.keys :
               Batches!FirstOccurrence(call.keys, k, i) /\ call.values[i] = val[k]
  <2>1. PICK i \in DOMAIN call.keys : call.keys[i] = k /\ call.values[i] = val[k]
    BY <1>2, <1>4, <1>5 DEF InsertedOneEach
  <2>2. \A j \in DOMAIN call.keys \ {i} : call.keys[j] # k
    BY <1>3, <2>1 DEF Distinct, IsInjective
  <2> QED
    BY <2>1, <2>2 DEF Batches!FirstOccurrence
<1> HIDE DEF new
<1>6. /\ DOMAIN call.keys = DOMAIN call.values /\ new \cap DOMAIN Dict = {}
      /\ val \in [new -> Value]
      /\ Dict' = [k \in DOMAIN Dict \cup new |-> IF k \in new THEN val[k] ELSE Dict[k]]
  BY <1>1, <1>2, <1>4 DEF InsertedOneEach
<1>7. ~(pc' = "idle" /\ call'.op \in Gets)
  BY <1>1
<1>8. /\ DOMAIN call.keys = DOMAIN call.values /\ new \cap DOMAIN Dict = {}
      /\ val \in [new -> Value]
      /\ \A k \in new : \E i \in DOMAIN call.keys :
           Batches!FirstOccurrence(call.keys, k, i) /\ call.values[i] = val[k]
      /\ Dict' = [k \in DOMAIN Dict \cup new |-> IF k \in new THEN val[k] ELSE Dict[k]]
  BY <1>5, <1>6
<1>9. Batches!Insert(call.keys, call.values)
  BY <1>7, <1>8 DEF Batches!Insert, Dict, new
<1> QED
  BY <1>1, <1>9

(* An insertion, also one with repeated keys, takes effect as a whole when it  *)
(* returns: what was in the map stays, and of the values that the batch has    *)
(* for a key one is stored, whichever workers and replies were first.          *)
THEOREM InsertionsKeepOneValue ==
  Spec => [][Return /\ call.op \in Inserts =>
               /\ DOMAIN Stored = DOMAIN call.before \cup Range(call.keys)
               /\ \A k \in DOMAIN call.before : Stored[k] = call.before[k]
               /\ \A k \in Range(call.keys) : \E i \in DOMAIN call.keys :
                    call.keys[i] = k /\ Stored[k] = call.values[i]]_vars
<1> DEFINE Whole == /\ DOMAIN Stored = DOMAIN call.before \cup Range(call.keys)
                    /\ \A k \in DOMAIN call.before : Stored[k] = call.before[k]
                    /\ \A k \in Range(call.keys) : \E i \in DOMAIN call.keys :
                         call.keys[i] = k /\ Stored[k] = call.values[i]
<1>1. ASSUME IInv, Return, call.op \in Inserts PROVE Whole
  <2>1. PICK val : InsertedOneEach(val)
    BY <1>1, InsertReturns
  <2>2. Range(call.keys) \cap DOMAIN call.before = {}
    BY <1>1, InsertReturns
  <2> DEFINE all == DOMAIN call.before \cup Range(call.keys)
  <2>3. /\ DOMAIN Stored = all
        /\ \A k \in all : Stored[k] = IF k \in Range(call.keys) THEN val[k] ELSE call.before[k]
    BY <2>1 DEF InsertedOneEach
  <2>4. \A k \in Range(call.keys) : \E i \in DOMAIN call.keys :
          call.keys[i] = k /\ Stored[k] = call.values[i]
    BY <2>1, <2>3 DEF InsertedOneEach
  <2> QED
    BY <2>2, <2>3, <2>4
<1>2. IInv => [Return /\ call.op \in Inserts => Whole]_vars
  BY <1>1
<1> QED
  BY <1>2, Invariant, PTL

(* The calls of ShardedMap are those of one map that takes and answers batches *)
(* at once, whatever order commands are served in, unless get_batch is called  *)
(* with repeated keys.  Insertions of repeated keys are left out: what they do *)
(* is said by InsertionsKeepOneValue.                                          *)
THEOREM BatchesImplemented ==
  ASSUME "get_batch" \notin RepeatedKeys
  PROVE  Spec => ImplementsBatchMap
<1>1. ASSUME IInv, [Next]_vars
      PROVE  [~RepeatedInsertion => Batches!Next]_(Batches!batchVars)
  <2>1. CASE Return
    <3>1. call.op \in Gets \/ call.op \in Inserts
      BY <1>1, <2>1 DEF Return, Finished, IInv, InCall, CallInv, Known
    <3> QED
      BY <1>1, <2>1, <3>1, GetReturns, DistinctInsertReturns DEF Batches!Next
  <2>2. CASE Next /\ ~Return
    <3>1. Dict' = Dict /\ ~(pc' = "idle" /\ call'.op \in Gets)
      BY <1>1, <2>2, OtherStep
    <3>2. Batches!Forget
      BY <3>1 DEF Batches!Forget, Dict
    <3> QED
      BY <3>2 DEF Batches!Next
  <2>3. CASE UNCHANGED vars
    <3>1. /\ Stored' = Stored /\ AllAlive' = AllAlive /\ InCall' = InCall
          /\ UNCHANGED <<pc, call, results>>
      BY <1>1, <2>3, StutterStep DEF vars, callVars
    <3> QED
      BY <3>1 DEF Batches!batchVars, Returned
  <2> QED
    BY <1>1, <2>1, <2>2, <2>3
<1> QED
  BY <1>1, InitIsBatches, Invariant, PTL DEF Spec, ImplementsBatchMap

(* A get returns for every position of the batch what the map held for its     *)
(* key when the call began.  With repeated keys, get_batch may not: that is    *)
(* the finding of the run that offers it such batches.                         *)
THEOREM GetsAnswerEveryKey ==
  ASSUME "get_batch" \notin RepeatedKeys
  PROVE  Spec => []AnswersEveryKey
<1>1. Init => AnswersEveryKey
  BY DEF Init, AnswersEveryKey
<1>2. ASSUME IInv, AnswersEveryKey, [Next]_vars PROVE AnswersEveryKey'
  <2>1. CASE Return
    <3>1. pc = "receiving" /\ expected = 0 /\ results' = Answers /\ call' = call
      BY <2>1 DEF Return, Finished
    <3> SUFFICES ASSUME call.op \in Gets PROVE results' = [i \in DOMAIN call.keys |-> Expected(call.keys[i])]
      BY <3>1 DEF AnswersEveryKey, Expected
    <3> QED
      BY <1>2, <3>1, AnswersAre
  <2>2. CASE Next /\ ~Return
    BY <1>2, <2>2, OtherStep DEF AnswersEveryKey
  <2>3. CASE UNCHANGED vars
    BY <1>2, <2>3 DEF AnswersEveryKey, Expected, vars, callVars
  <2> QED
    BY <1>2, <2>1, <2>2, <2>3
<1> QED
  BY <1>1, <1>2, Invariant, PTL DEF Spec
================================================================================
