SPECIFICATION ReadersSpec
CONSTANTS
  c1 = c1
  c2 = c2
  Content = {c1, c2}
  Offered <- MCOffered
  DqOk <- MCDqOk
  HardGap <- MCHardGap
  None = None
  Torn = Torn
  Run = {r1, r2}
  Version = {1, 2}
  MaxDrops = 1
  MaxFaults = 1
  Overlap = FALSE
  Reader = {q}
CHECK_DEADLOCK FALSE
SYMMETRY RunSymmetry
INVARIANTS
  L1FailClosed
  RebuildableFromRaw
  MetadataDescribesFiles
  InputsDecideOutcome
  LoadedPassedDQ
  CalmLoadIsSnapshot
PROPERTIES
  RawImmutable
  SuccessMeansPublished
