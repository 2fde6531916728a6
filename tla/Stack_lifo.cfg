CONSTANTS
  N = 3
  Element = {e0, e1}
  DefaultElement = e0
  MaxTimestamp = 8
  H = 2
  MaxN = 2
  Z = 1
  S = 4
  Value = {v0, v1}
  Default = v0
  NoValue = NoValue
SPECIFICATION MCSpec
VIEW MCView
PROPERTIES LifoWithoutDummyPops
