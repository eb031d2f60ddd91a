CONSTANTS
  Birth = {3}
  Survive = {2, 3}
  Starts <- MCStarts
  Specs <- MCSpecs
  None = None
  MaxAge = 2
SPECIFICATION SearchSpec
INVARIANTS
  ShipsAreShips
  NoTrivialLCM
  UnsatIsRight
  RejectedForCause
PROPERTY PassesInEveryPhase
CHECK_DEADLOCK FALSE
