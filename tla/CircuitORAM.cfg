CONSTANTS
  H = 3
  MaxN = 4
  Z = 1
  S = 2
  TightS = 1
  Key = {k1, k2, k3}
  Value = {v0, v1}
  Default = v0
  NoKey = NoKey
  NoValue = NoValue
SPECIFICATION MCSpec
VIEW MCView
SYMMETRY MCSymmetry
INVARIANTS TypeOK OneBlockPerKey OnClientPath EvictionsSuffice
PROPERTIES ImplementsPathOram ImplementsLossyMap
