SPECIFICATION FairSpec
CONSTANTS
  Patterns = {p, q}
  Wrapped = {}
  HasMarkers = TRUE
  CleanExit = "ERROR"
  MaxLines = 6
INVARIANTS
  UnsatIsSaid
  NothingPrintedIsLost
  CandidatesArePrinted
PROPERTY Returns
CHECK_DEADLOCK FALSE
