SPECIFICATION WalkForwardSpec
CONSTANTS
  Horizon = 2
  Embargo = 1
  MinTrain = 2
  TestFold = 2
  StepBy = 2
  LastSession = 10
  Matrices <- MCMatrices
  TuneMin = 5
  ValPart = 5
CHECK_DEADLOCK FALSE
INVARIANTS
  TestedExactlyOnce
  OutOfSample
PROPERTY TrainingEnds
