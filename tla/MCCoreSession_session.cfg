CONSTANTS
  k1 = k1
  k2 = k2
  v1 = v1
  v2 = v2
  Keys = {k1, k2}
  Values = {v1, v2}
  OptionSets <- MCOptionSets
  None = None
  Games = {1}
  Kinds <- MCKinds
  MaxCores = 2
SPECIFICATION Spec
INVARIANTS CallbacksAreCurrent FileFollowsOptions ValuesAllowed
