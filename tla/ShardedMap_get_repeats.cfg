SPECIFICATION Spec
CONSTANTS
  P = 2
  SUBTASK_SIZE = 1
  DefaultKey = 0
  DefaultValue = 0
  NoValue = NoValue
  Key <- MCKey
  Value <- MCValue
  Partitions <- MCPartitions
  KeyBatches <- MCBatches
  ValueBatches <- MCValues
  Capacity = 2
  Operations = {"insert_batch", "get_batch"}
  RepeatedKeys = {"get_batch"}
  WorkersPanic = FALSE
  MaxCalls = 2
  TasksFor <- DistinctTasks
  Ordering <- InOrder
  PlanFor <- BatchPlan
  SourcesIn <- Sources
INVARIANTS AnswersEveryKey
CHECK_DEADLOCK FALSE
