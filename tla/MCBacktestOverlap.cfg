SPECIFICATION BacktestSpec
CONSTANTS
  Horizon = 2
  Embargo = 2
  MinTrain = 1
  TestFold = 3
  StepBy = 3
  LastSession = 13
  Matrices <- MCMatrices
  Stock = {a, b}
  TopK = 2
  HistoryTail = 3
  Eligible <- AllStocks
  Gaps <- MCGaps
CHECK_DEADLOCK FALSE
INVARIANT BooksDoNotOverlap
