CONSTANTS
  H = 3
  MaxN = 4
  Z = 2
  S = 1
  Key = {0, 1, 2}
  Value = {0, 1, 2}
  Default = 0
  MaxPriority = 2
  NoKey = NoKey
  NoValue = NoValue
  MaxInserts = 3
SPECIFICATION Spec
VIEW MCView
INVARIANTS MinimaAreRight FoundByHandle
PROPERTIES ImplementsPriorityQueue
