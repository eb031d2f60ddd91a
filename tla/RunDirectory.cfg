SPECIFICATION DirectorySpec
CONSTANTS
  DefaultRule = "B3/S23"
  NoRule = NoRule
  Nothing = Nothing
  Specs <- MCSpecs
  SeedLists <- MCSeedLists
  Installs <- MCInstalls
  Passing <- MCPassing
  Apgcode <- MCApgcode
  Census <- MCCensus
  MaxUpgrades = 1
  MaxRuns = 2
INVARIANTS
  OkIsEarned
  MismatchHasCause
  WrittenStays
CHECK_DEADLOCK FALSE
