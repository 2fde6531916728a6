CONSTANTS
  LEVEL_0_BUCKETS = 1
  FAN_OUT = 2
  RandomBound = 2
  InitialBound = 1
  W = 2
  SHORT_ARRAY_THRESHOLD = 2
  Value = {v0, v1}
  Default = v0
  NoValue = NoValue
  FixedSizes = {2, 3}
  MultiWaySizes = {2}
  MaxSize = 4
  n = 8
  Keys = {0, 1, 2, 6, 8}
SPECIFICATION MCSpec
VIEW MCView
INVARIANTS PointersAgree
PROPERTIES ImplementsPositionMap ImplementsArray
