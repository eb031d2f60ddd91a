CONSTANTS
  Birth = {3}
  Survive = {2, 3}
  Patterns <- MCForms
  NotYet = NotYet
  Census <- MCCensus
  Live <- MCLive
  KnownObjects <- MCKnown
  Cap = 4
  Faulty = FALSE
  MaxAge = 2
SPECIFICATION OracleSpec
INVARIANTS
  MaximalComponents
  NovelIsUnseen
PROPERTIES
  SameKey
  ClassifiesRight
  SplitEnds
CHECK_DEADLOCK FALSE
