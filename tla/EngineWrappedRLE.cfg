SPECIFICATION Spec
CONSTANTS
  Patterns = {p}
  Wrapped = {p}
  HasMarkers = TRUE
  CleanExit = "ERROR"
  MaxLines = 4
INVARIANT RealRLEParses
CHECK_DEADLOCK FALSE
