CONSTANTS
  Conns = {c1, c2}
  Tables = {"campaign", "run"}
  Keys = {k1}
  NoKey = NoKey
  NoTable = NoTable
  NoOp = NoOp
  Habits = {{}}
  HearAll = TRUE
  ParentIds = {1}
  MaxRows = 2
  MaxReplaced = 1
  MaxCrashes = 1
SPECIFICATION Spec
INVARIANT ReplayFindsExisting
CHECK_DEADLOCK FALSE
