CONSTANTS
  MaxCpu = 2
  Candidates = {c1, c2}
  Specs = {s1, s2}
  MinBaseline = 2
  MaxPulls = 4
  MaxSent = 3
  None = None
SPECIFICATION FairSpec
INVARIANTS
  Accounting
  HardStop
  RedirectPreempts
  ChatsInOrder
  RecipesPinTheirAttempt
PROPERTIES
  ImplementsContract
  Termination
CHECK_DEADLOCK FALSE
