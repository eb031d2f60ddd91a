CONSTANTS
  Birth = {3}
  Survive = {2, 3}
  Patterns <- MCPatterns
  MaxN = 4
SPECIFICATION Spec
INVARIANTS
  NeverAtBorder
PROPERTY ImplementsLife
CHECK_DEADLOCK FALSE
