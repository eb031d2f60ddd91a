CONSTANTS
  Conns = {c1, c2}
  Habits = {{}, {c1}, {c2}, {c1, c2}}
  Tables = {"campaign", "run"}
  Keys = {k1}
  NoKey = NoKey
  NoTable = NoTable
  NoOp = NoOp
  HearAll = FALSE
  ParentIds = {1}
  MaxRows = 2
  MaxReplaced = 1
  MaxCrashes = 1
SPECIFICATION Spec
INVARIANTS
  KeysUnique
  ParentsPresent
  AckedDurable
  NoDanglingTransaction
PROPERTY AppendOnly
SYMMETRY Symmetry
CHECK_DEADLOCK FALSE
