SPECIFICATION FeatureSpec
CONSTANTS
  Feature = {1, 2, 3, 4}
  Registries <- MCRegistries
  ComputerSets = {{1, 2, 3}, {1, 2, 3, 4}}
  Wants <- MCWants
  Reads <- MCReads
CHECK_DEADLOCK FALSE
INVARIANTS
  OrderRespectsDependencies
  CyclesAreRefused
  ClosureIsLeast
  ErrorsAreExplained
  ComputedIsComplete
PROPERTY RunEnds
