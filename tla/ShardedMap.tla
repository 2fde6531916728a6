------------------------------ MODULE ShardedMap ------------------------------
(* ShardedMap (datastructures/src/sharded_map.rs): one caller, P worker        *)
(* threads with a map each, a command channel per worker, a reply channel that *)
(* all workers share and one that is made for each call of the *_distinct      *)
(* operations.  A worker's map is the map that KeyedMap promises.              *)
(* What the oblivious algorithms around the protocol compute is a parameter,   *)
(* of which only a contract is used; module ShardedBatch has the computations. *)
EXTENDS ShardedTasks

CONSTANTS Key, Value,
          Partitions,         \* the hash functions considered: key -> worker
          KeyBatches, ValueBatches,   \* batches: 0 .. n - 1 -> Key, .. -> Value
          Capacity,           \* per_part * P
          Operations,                \* the operations that are called
          RepeatedKeys,       \* the ones that are offered batches with repeated keys
          WorkersPanic,       \* may an insertion panic in a worker?
          NoValue,
          MaxCalls,
          TasksFor(_, _, _, _, _), Ordering(_),
          PlanFor(_, _, _, _, _), SourcesIn(_, _, _)

ASSUME ShardedAssumption ==
  /\ NoValue \notin Value
  /\ Partitions \subseteq [Key -> Workers]
  /\ \A keys \in KeyBatches : /\ IsFiniteSet(DOMAIN keys)
                              /\ keys \in [0 .. BatchLen(keys) - 1 -> Key]
                              /\ InvalidId \notin DOMAIN keys
  /\ \A values \in ValueBatches : values \in [DOMAIN values -> Value]
  /\ Capacity \in Nat /\ MaxCalls \in Nat
  /\ RepeatedKeys \subseteq Operations /\ WorkersPanic \in BOOLEAN

BatchSizeFits(keys, b) ==
  BatchLen(keys) > 0 /\ b <= BatchLen(keys) /\ b >= div_ceil(BatchLen(keys), P)
LoadFits(plan, b) == \A p \in Workers : plan.load[p] <= b

(* What is looked up or inserted for a batch.                                  *)
ToGet(keys) == [i \in DOMAIN keys |-> NoAnswer]
ToInsert(values) == [i \in DOMAIN values |-> OOption(TRUE, values[i])]
ToGetv2(keys) == [i \in DOMAIN keys |-> DefaultValue]

ASSUME DistinctContract ==
  \A keys \in KeyBatches, part \in Partitions : \A b \in 0 .. BatchLen(keys) :
    FitsPartitions(keys, part, b) =>
      /\ IndexedTasks(TasksFor("Get", keys, ToGet(keys), part, b), keys, part, b)
      /\ \A values \in ValueBatches : Distinct(keys) /\ DOMAIN values = DOMAIN keys =>
           InsertionTasks(TasksFor("Insert", keys, ToInsert(values), part, b), "Insert",
                          keys, values, part, b)

ASSUME OrderContract ==
  \A keys \in KeyBatches : \A b \in 0 .. BatchLen(keys) :
    \A index \in [Slots(b) -> DOMAIN keys \cup {InvalidId}] :
      (\A i \in DOMAIN keys : \E s \in Slots(b) : {r \in Slots(b) : index[r] = i} = {s})
        => \A i \in DOMAIN keys : /\ Ordering(index)[i] \in Slots(b)
                                 /\ index[Ordering(index)[i]] = i

ASSUME PlanContract ==
  \A keys \in KeyBatches, part \in Partitions : \A b \in 0 .. BatchLen(keys) :
    BatchSizeFits(keys, b) =>
      /\ LET plan == PlanFor("Getv2", keys, ToGetv2(keys), part, b) IN
         LoadFits(plan, b) =>
           /\ Dispatched(plan.tasks, "Getv2", b)
           /\ Distinct(keys) => Routes(SourcesIn(plan, b, BatchLen(keys)), plan.tasks, keys, part, b)
      /\ \A values \in {v \in ValueBatches : DOMAIN v = DOMAIN keys} :
           LET plan == PlanFor("Insertv2", keys, values, part, b) IN
           LoadFits(plan, b) =>
             /\ InsertionTasks(plan.tasks, "Insertv2", keys, values, part, b)
             /\ plan.total = Cardinality(Range(keys))

VARIABLES part,               \* get_partition, fixed by the random state
          size,
          pc,                 \* what the caller is doing
          call,               \* the batch operation at hand, or the last one
          outbox,             \* commands it still has to send
          expected,           \* replies it still has to receive
          results,            \* slot -> answer (merged, res); in the end what is returned
          joining,            \* the worker that is being dropped
          calls,
          status,             \* of each worker thread
          map,                \* of each worker
          cmds,               \* command channel of each worker
          response_channel,   \* replies to get_batch and insert_batch
          done_rx             \* replies to the operation at hand, for the others

callVars == <<call, outbox, expected, results, calls>>
vars == <<part, size, pc, callVars, joining, status, map, cmds, response_channel, done_rx>>

Gone == {"stopped", "dead"}
Batched == {"get_batch", "insert_batch"}
Gets == {"get_batch_distinct", "get_batch_leaky", "get_batch"}

NoCall == [op |-> "none", keys |-> << >>, values |-> << >>, b |-> 0, before |-> << >>,
           plan |-> << >>]

Init == /\ part \in Partitions
        /\ size = 0
        /\ pc = "barrier"
        /\ call = NoCall /\ outbox = << >> /\ expected = 0 /\ results = << >> /\ calls = 0
        /\ joining = 0
        /\ status = [w \in Workers |-> "spawned"]
        /\ map = [w \in Workers |-> << >>]
        /\ cmds = [w \in Workers |-> << >>]
        /\ response_channel = << >> /\ done_rx = << >>
-------------------------------------------------------------------------------
(* new: every worker thread and the caller wait at the start-up barrier.       *)
ArriveAtBarrier(w) ==
  /\ status[w] = "spawned"
  /\ status' = [status EXCEPT ![w] = "at_barrier"]
  /\ UNCHANGED <<part, size, pc, callVars, joining, map, cmds, response_channel, done_rx>>

BarrierFull == Cardinality({w \in Workers : status[w] = "at_barrier"}) = P

Started ==
  /\ pc = "barrier"
  /\ BarrierFull
  /\ status' = [w \in Workers |-> "serving"]
  /\ pc' = "idle"
  /\ UNCHANGED <<part, size, callVars, joining, map, cmds, response_channel, done_rx>>

Stored == [k \in {q \in Key : q \in DOMAIN map[part[q]]} |-> map[part[k]][k]]

(* Mutant of SentCount: one reply more than there are commands. *)
SentCount_OneMore(tasks) == Len(tasks) + 1

SentCount(tasks) == Len(tasks)

(* The operation has its commands ready; `before` is the map it finds.         *)
Prepared(op, keys, values, b, plan) ==
  /\ call' = [op |-> op, keys |-> keys, values |-> values, b |-> b, before |-> Stored,
              plan |-> plan]
  /\ outbox' = plan.tasks
  /\ expected' = SentCount(plan.tasks)
  /\ results' = [s \in Slots(b) |-> NoAnswer]
  /\ done_rx' = << >>
  /\ pc' = "sending"
  /\ calls' = calls + 1
  /\ UNCHANGED <<part, joining, status, map, cmds, response_channel>>

(* An assertion on the arguments fails before anything is sent. *)
Refused ==
  /\ pc' = "panicked"
  /\ calls' = calls + 1
  /\ call' = NoCall
  /\ UNCHANGED <<part, size, outbox, expected, results, joining, status, map, cmds,
                 response_channel, done_rx>>

Ready(op, keys) == pc = "idle" /\ calls < MaxCalls /\ op \in Operations
                   /\ (op \in RepeatedKeys \/ Distinct(keys))

(* The plan of the three operations that send P commands. *)
Split(kind, keys, values, b) == [tasks |-> TasksFor(kind, keys, values, part, b)]

GetBatchDistinct(keys, b) ==
  /\ Ready("get_batch_distinct", keys) /\ Distinct(keys)
  /\ IF b <= BatchLen(keys) /\ FitsPartitions(keys, part, b)
     THEN /\ \E plan \in {Split("Get", keys, ToGet(keys), b)} :
               Prepared("get_batch_distinct", keys, << >>, b, plan)
          /\ UNCHANGED size
     ELSE Refused

(* The largest number of queries to one partition is the batch size. *)
GetBatchLeaky(keys) ==
  /\ Ready("get_batch_leaky", keys)
  /\ \E b \in {q \in 0 .. BatchLen(keys) : FitsPartitions(keys, part, q)} :
       /\ b > 0 => ~FitsPartitions(keys, part, b - 1)
       /\ \E plan \in {Split("Get", keys, ToGet(keys), b)} :
            Prepared("get_batch_leaky", keys, << >>, b, plan)
  /\ UNCHANGED size

(* The caller promises new keys, each once. *)
NewKeys(keys) == \A i \in DOMAIN keys : keys[i] \notin DOMAIN Stored

InsertBatchDistinct(keys, values, b) ==
  /\ Ready("insert_batch_distinct", keys) /\ Distinct(keys) /\ NewKeys(keys)
  /\ IF size + BatchLen(keys) <= Capacity /\ b <= BatchLen(keys) /\ FitsPartitions(keys, part, b)
     THEN /\ \E plan \in {Split("Insert", keys, ToInsert(values), b)} :
               Prepared("insert_batch_distinct", keys, values, b, plan)
          /\ UNCHANGED size
     ELSE Refused

GetBatch(keys, b) ==
  /\ Ready("get_batch", keys)
  /\ IF BatchSizeFits(keys, b)
     THEN \E plan \in {PlanFor("Getv2", keys, ToGetv2(keys), part, b)} :
            IF LoadFits(plan, b)
            THEN Prepared("get_batch", keys, << >>, b, plan) /\ UNCHANGED size
            ELSE Refused
     ELSE Refused

(* Mutant of Enlarged: every position of the batch counts. *)
Enlarged_WithRepeats(plan) == size + BatchLen(plan.index)

Enlarged(plan) == size + plan.total

(* Repeated keys are allowed here; the size grows before anything is sent.     *)
InsertBatch(keys, values, b) ==
  /\ Ready("insert_batch", keys) /\ NewKeys(keys)
  /\ IF BatchSizeFits(keys, b)
     THEN \E plan \in {PlanFor("Insertv2", keys, values, part, b)} :
            IF LoadFits(plan, b)
            THEN Prepared("insert_batch", keys, values, b, plan) /\ size' = Enlarged(plan)
            ELSE Refused
     ELSE Refused
-------------------------------------------------------------------------------
(* tx.send(..).unwrap(): a worker that died has dropped its receiver. *)
Send ==
  /\ pc = "sending" /\ outbox # << >>
  /\ LET task == Head(outbox) IN
     IF status[task.worker] \in Gone
     THEN pc' = "panicked" /\ UNCHANGED <<cmds, outbox>>
     ELSE /\ cmds' = [cmds EXCEPT ![task.worker] = Append(@, task.cmd)]
          /\ outbox' = Tail(outbox)
          /\ pc' = IF Len(outbox) = 1 THEN "receiving" ELSE pc
  /\ UNCHANGED <<part, size, call, expected, results, calls, joining, status, map,
                 response_channel, done_rx>>

WaitsOn == IF call.op \in Batched THEN response_channel ELSE done_rx
WantedReply == IF call.op \in Gets THEN "Blocks" ELSE "Unit"

(* Mutant of PlacedReply: the offset of the sub-task is ignored. *)
PlacedReply_NoOffset(reply) ==
  [s \in DOMAIN results |->
     LET first == reply.pid * call.b IN
     IF s \in first .. first + Len(reply.blocks) - 1 THEN reply.blocks[s - first + 1] ELSE results[s]]

(* The blocks of a reply go to the slots they came from. *)
PlacedReply(reply) ==
  [s \in DOMAIN results |->
     LET first == reply.pid * call.b + reply.offset IN
     IF s \in first .. first + Len(reply.blocks) - 1 THEN reply.blocks[s - first + 1] ELSE results[s]]

Receive ==
  /\ pc = "receiving" /\ expected > 0 /\ WaitsOn # << >>
  /\ LET reply == Head(WaitsOn) IN
     /\ IF call.op \in Batched
        THEN response_channel' = Tail(response_channel) /\ UNCHANGED done_rx
        ELSE done_rx' = Tail(done_rx) /\ UNCHANGED response_channel
     /\ IF reply.kind # WantedReply
        THEN pc' = "panicked" /\ UNCHANGED <<results, expected>>
        ELSE /\ results' = IF reply.kind = "Blocks" THEN PlacedReply(reply) ELSE results
             /\ expected' = expected - 1
             /\ UNCHANGED pc
  /\ UNCHANGED <<part, size, call, outbox, calls, joining, status, map, cmds>>

(* response_channel is closed once all workers, its only senders, are gone.    *)
ChannelClosed ==
  /\ pc = "receiving" /\ expected > 0 /\ call.op \in Batched
  /\ response_channel = << >> /\ \A w \in Workers : status[w] \in Gone
  /\ pc' = "panicked"
  /\ UNCHANGED <<part, size, callVars, joining, status, map, cmds, response_channel, done_rx>>

(* The answers in the order of the keys: by the index that comes back with     *)
(* each of them, or from where the plan has put them.                          *)
Answers ==
  CASE call.op \in {"get_batch_distinct", "get_batch_leaky"} ->
         [i \in DOMAIN call.keys |-> results[Ordering([s \in DOMAIN results |-> results[s].index])[i]].v]
    [] call.op = "get_batch" ->
         [i \in DOMAIN call.keys |-> results[SourcesIn(call.plan, call.b, BatchLen(call.keys))[i]]]
    [] OTHER -> << >>

(* insert_batch_distinct updates the size only now.                            *)
SizeAfter == IF call.op = "insert_batch_distinct" THEN size + BatchLen(call.keys) ELSE size

Finished == /\ pc = "receiving" /\ expected = 0
            /\ pc' = "idle"

Return ==
  /\ Finished
  /\ results' = Answers
  /\ size' = SizeAfter
  /\ UNCHANGED <<part, call, outbox, expected, calls, joining, status, map, cmds,
                 response_channel, done_rx>>
-------------------------------------------------------------------------------
(* One command of worker w.                                                    *)
Found(w, k) == IF k \in DOMAIN map[w] THEN OOption(TRUE, map[w][k]) ELSE NoAnswer

(* Mutant of Inserted: the junk in the slots of insert_batch is inserted, too. *)
Inserted_Junk(w, cmd) ==
  {<<KeyOf(cmd, x), ValueOf(cmd, x)>> :
     x \in {y \in DOMAIN cmd.blocks : cmd.kind = "Insert" => cmd.blocks[y].v.is_some}}

(* What an insertion command really inserts. *)
Inserted(w, cmd) ==
  {<<KeyOf(cmd, x), ValueOf(cmd, x)>> :
     x \in {y \in DOMAIN cmd.blocks : Live([worker |-> w, cmd |-> cmd], y)}}

WithAll(m, pairs) ==
  [k \in DOMAIN m \cup {kv[1] : kv \in pairs} |->
     IF k \in DOMAIN m THEN m[k] ELSE (CHOOSE kv \in pairs : kv[1] = k)[2]]

Reply(w, cmd) ==
  CASE cmd.kind = "Get" ->
         [kind |-> "Blocks", pid |-> w, offset |-> 0,
          blocks |-> [i \in DOMAIN cmd.blocks |->
                        [cmd.blocks[i] EXCEPT !.v = Found(w, cmd.blocks[i].k)]]]
    [] cmd.kind = "Getv2" ->
         [kind |-> "Blocks", pid |-> w, offset |-> cmd.offset,
          blocks |-> [i \in DOMAIN cmd.blocks |-> Found(w, cmd.blocks[i].key)]]
    [] OTHER -> [kind |-> "Unit", pid |-> w]

Taken(w) == /\ status[w] = "serving" /\ cmds[w] # << >>
            /\ UNCHANGED <<part, size, pc, callVars, joining>>

(* Mutant of OnSharedChannel: receipts for insertions go to the other channel. *)
OnSharedChannel_Gets(cmd) == cmd.kind = "Getv2"

OnSharedChannel(cmd) == cmd.kind \in {"Getv2", "Insertv2"}

(* A worker serves its commands in the order they came and replies on the      *)
(* channel the command belongs to.                                             *)
Serve(w) ==
  /\ Taken(w)
  /\ LET cmd == Head(cmds[w]) IN
     /\ cmd.kind # "Shutdown"
     /\ map' = IF cmd.kind \in {"Insert", "Insertv2"}
               THEN [map EXCEPT ![w] = WithAll(@, Inserted(w, cmd))] ELSE map
     /\ IF OnSharedChannel(cmd)
        THEN response_channel' = Append(response_channel, Reply(w, cmd)) /\ UNCHANGED done_rx
        ELSE done_rx' = Append(done_rx, Reply(w, cmd)) /\ UNCHANGED response_channel
  /\ cmds' = [cmds EXCEPT ![w] = Tail(@)]
  /\ UNCHANGED status

(* A full insertion queue panics on any insertion, a dummy one included; some  *)
(* of the block's elements may already be in.  Queued commands are dropped.    *)
WorkerPanics(w) ==
  /\ WorkersPanic /\ Taken(w)
  /\ Head(cmds[w]).kind \in {"Insert", "Insertv2"}
  /\ \E some \in SUBSET Inserted(w, Head(cmds[w])) :
       map' = [map EXCEPT ![w] = WithAll(@, some)]
  /\ status' = [status EXCEPT ![w] = "dead"]
  /\ cmds' = [cmds EXCEPT ![w] = << >>]
  /\ UNCHANGED <<response_channel, done_rx>>

Stop(w) ==
  /\ Taken(w) /\ Head(cmds[w]).kind = "Shutdown"
  /\ status' = [status EXCEPT ![w] = "stopped"]
  /\ cmds' = [cmds EXCEPT ![w] = << >>]
  /\ UNCHANGED <<map, response_channel, done_rx>>
-------------------------------------------------------------------------------
(* Mutant of SentShutdown: only the first worker is told.                      *)
SentShutdown_First(w) ==
  cmds' = IF w = 0 /\ status[w] \notin Gone
          THEN [cmds EXCEPT ![w] = Append(@, [kind |-> "Shutdown"])] ELSE cmds

(* Dropping the map, or unwinding past it, drops the workers one by one: each  *)
(* is sent Shutdown, an error being ignored, and joined.                       *)
SentShutdown(w) ==
  cmds' = IF w \in Workers /\ status[w] \notin Gone
          THEN [cmds EXCEPT ![w] = Append(@, [kind |-> "Shutdown"])] ELSE cmds

Drop ==
  /\ pc \in {"idle", "panicked"}
  /\ pc' = "dropping"
  /\ joining' = 0
  /\ SentShutdown(0)
  /\ UNCHANGED <<part, size, callVars, status, map, response_channel, done_rx>>

Joined ==
  /\ pc = "dropping"
  /\ status[joining] \in Gone
  /\ joining' = joining + 1
  /\ pc' = IF joining + 1 = P THEN "dropped" ELSE pc
  /\ SentShutdown(joining + 1)
  /\ UNCHANGED <<part, size, callVars, status, map, response_channel, done_rx>>
-------------------------------------------------------------------------------
Begin ==
  \E keys \in KeyBatches :
    \/ GetBatchLeaky(keys)
    \/ \E b \in 0 .. BatchLen(keys) + 1 :
         \/ GetBatchDistinct(keys, b)
         \/ GetBatch(keys, b)
         \/ \E values \in {v \in ValueBatches : DOMAIN v = DOMAIN keys} :
              InsertBatchDistinct(keys, values, b) \/ InsertBatch(keys, values, b)

WorkerStep(w) == ArriveAtBarrier(w) \/ Serve(w) \/ WorkerPanics(w) \/ Stop(w)

CallerStep == Started \/ Send \/ Receive \/ ChannelClosed \/ Return \/ Joined

Next == Begin \/ Drop \/ CallerStep \/ \E w \in Workers : WorkerStep(w)

(* Every thread that can go on eventually does; nothing forces another call,   *)
(* a drop or a panic.  (A step that sets pc as Finished says is a Return.)     *)
Fairness == /\ WF_vars(Started \/ Send \/ Receive \/ ChannelClosed \/ Joined)
            /\ WF_pc(Finished)
            /\ \A w \in Workers : WF_vars(ArriveAtBarrier(w) \/ Serve(w) \/ Stop(w))

Spec == Init /\ [][Next]_vars

FairSpec == Spec /\ Fairness
-------------------------------------------------------------------------------
InCall == pc \in {"sending", "receiving"}
AllAlive == \A w \in Workers : status[w] # "dead"

(* The commands on their way: the worker and the place in its channel. *)
Underway == UNION {{w} \X DOMAIN cmds[w] : w \in Workers}
Commands == Cardinality(Underway)

(* While all workers live, every reply a call still waits for is owed by       *)
(* exactly one command on its way or waits in the right channel, and between   *)
(* calls nothing is left that a later call could take for its own.             *)
ReplyPerCommand ==
  AllAlive =>
    /\ InCall => /\ expected = Len(outbox) + Commands + Len(WaitsOn)
                 /\ Len(response_channel) + Len(done_rx) = Len(WaitsOn)
    /\ pc = "idle" => Commands = 0 /\ response_channel = << >> /\ done_rx = << >>

(* The size counts the keys that lookups can reach. *)
SizeIsCount == AllAlive /\ pc = "idle" => size = Cardinality(DOMAIN Stored)

(* insert_batch_distinct also inserts keys into maps of workers they do not    *)
(* belong to (v.is_some is set on every copy of the batch).  Such a copy only  *)
(* takes up room: its key is in the right map, too, with the same value.       *)
ForeignKeysAreCopies ==
  AllAlive /\ pc = "idle" =>
    \A w \in Workers : \A k \in DOMAIN map[w] :
      k \in DOMAIN Stored /\ map[w][k] = Stored[k]

(* A get returns for every position what the map held for its key, repeated or *)
(* not, though replies arrive in any order.                                    *)
Expected(k) == IF k \in DOMAIN call.before THEN OOption(TRUE, call.before[k]) ELSE NoAnswer
AnswersEveryKey ==
  pc = "idle" /\ call.op \in Gets =>
    results = [i \in DOMAIN call.keys |-> Expected(call.keys[i])]

(* The map as its user sees it: a call takes effect when it returns, and never *)
(* if a worker dies.                                                           *)
Returned == [keys |-> call.keys,
             found |-> [i \in DOMAIN call.keys |->
                          IF results[i].is_some THEN results[i].value ELSE NoValue]]
Batches == INSTANCE BatchMap WITH
             dict <- IF InCall \/ ~AllAlive THEN call.before ELSE Stored,
             ret  <- IF pc = "idle" /\ call.op \in Gets THEN Returned ELSE << >>

(* The promise of insert_batch that of a repeated key the first occurrence is  *)
(* used depends on the order in which a network that is not stable leaves      *)
(* equal keys, and is not kept.  The return of such a call is left out.        *)
RepeatedInsertion == Finished /\ call.op = "insert_batch" /\ ~Distinct(call.keys)

(* The workers together are one map that takes and answers whole batches,      *)
(* whatever the order of their replies.  All calls are compared with it but    *)
(* insertions of repeated keys, after which it goes on from what is stored.    *)
ImplementsBatchMap ==
  Batches!Init /\ [][~RepeatedInsertion => Batches!Next]_(Batches!batchVars)

(* A call returns, or panics in the caller's thread, unless a worker died.     *)
CallsReturn == InCall ~> (~InCall \/ ~AllAlive)

(* Dropping the map ends, with every thread gone, whether or not some died.    *)
DropEnds == pc = "dropping" ~> (pc = "dropped" /\ \A w \in Workers : status[w] \in Gone)
================================================================================
