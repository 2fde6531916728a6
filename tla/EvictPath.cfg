CONSTANTS
  H = 4
  MaxN = 8
  Z = 2
  S = 1
  Key = {0, 1, 2, 3, 4, 5, 6, 7, 8}
  Value = {v0}
  Default = v0
  NoKey = NoKey
  NoValue = NoValue
  Paths = {5}
SPECIFICATION MCSpec
PROPERTIES BlocksPreserved SinksOnOwnPath OneBlockPerLevel DeepestLevelFills StashDrains
