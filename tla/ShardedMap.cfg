SPECIFICATION FairSpec
CONSTANTS
  P = 2
  SUBTASK_SIZE = 1
  DefaultKey = 0
  DefaultValue = 0
  NoValue = NoValue
  Key <- MCKey
  Value <- MCValue
  Partitions <- MCPartitions
  KeyBatches <- MCBatches
  ValueBatches <- MCValues
  Capacity = 2
  Operations = {"get_batch", "insert_batch", "get_batch_distinct", "insert_batch_distinct", "get_batch_leaky"}
  RepeatedKeys = {"insert_batch", "get_batch_leaky"}
  WorkersPanic = TRUE
  MaxCalls = 2
  TasksFor <- DistinctTasks
  Ordering <- InOrder
  PlanFor <- BatchPlan
  SourcesIn <- Sources
INVARIANTS ReplyPerCommand SizeIsCount ForeignKeysAreCopies
PROPERTIES ImplementsBatchMap CallsReturn DropEnds
CHECK_DEADLOCK FALSE
