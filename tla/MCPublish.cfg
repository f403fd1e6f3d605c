SPECIFICATION PublishSpec
CONSTANTS
  f1 = f1
  b1 = b1
  b2 = b2
  k1 = k1
  k2 = k2
  Run = {f1, b1, b2, k1, k2}
  Target <- MCTarget
  Refused <- MCRefused
  None = None
  Torn = Torn
  MaxRebuilds = 2
  MaxFaults = 1
  Overlap = FALSE
CHECK_DEADLOCK FALSE
SYMMETRY RunSymmetry
INVARIANTS
  ManifestDescribesData
PROPERTIES
  PublishedAreVersioned
  SuccessIsComplete
