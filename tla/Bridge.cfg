CONSTANTS
  c1 = c1
  Specs <- MCSpecs
  Candidates = {c1}
  Meets <- MCMeets
  HalfWidths <- MCHalfWidths
  None = None
  MaxBridges = 2
  MaxRequests = 2
SPECIFICATION Spec
INVARIANT ReaimsAsRead
CHECK_DEADLOCK FALSE
