CONSTANTS
  Workers = {w1, w2}
  PaidKeys = {k1}
  AppendKeys = {k2}
  tuple = tuple
  list = list
  other = other
  Values <- MCValues
  Json <- MCJson
  None = None
  MaxFaults = 2
SPECIFICATION FairSpec
INVARIANTS
  ReplayAgrees
  EffectsAccounted
  OneRowPerKey
PROPERTIES
  ImplementsOutcome
  Completes
