CONSTANTS
  Specs <- MCSpecs
  Envelopes <- MCEnvelopes
  None = None
  MaxEnvelopes = 2
SPECIFICATION MemorySpec
INVARIANTS
  NarrowerIsDeadToo
  SquaresSound
CHECK_DEADLOCK FALSE
