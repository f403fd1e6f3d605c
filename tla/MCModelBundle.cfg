SPECIFICATION BundleSpec
CONSTANTS
  Isin = {1, 2}
  Root = 0
  Train = {t1, t2}
  Modes = {"pooled", "per_stock"}
  Score = {q}
  None = None
  Torn = Torn
  MaxFaults = 1
  Overlap = FALSE
CHECK_DEADLOCK FALSE
SYMMETRY TrainSymmetry
INVARIANTS
  RanksFromOneTraining
PROPERTIES
  ArtifactsAreVersioned
  BundleIsFrozen
  TrainingIsComplete
