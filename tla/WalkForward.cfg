SPECIFICATION Spec

CONSTANTS
  LibrarySessions <- Weekdays
  AdHocClosures = {16}
  LookupWindow = 4
  NoDate = NoDate
  Tickers = {1, 2}
  Spans <- Backtests
  MonthStarts <- ShortMonths
  MonthsPerYear = 2
  WarmupYears = 1
  OosMonths = 1
  Horizon = 2
  Folds = 3
  MinTrainRows = 2
  Features = {1, 2}
  FeatureData <- SomeData
INVARIANT WindowsTile
INVARIANT OutOfSample
INVARIANT AnswerIsOfItsWindow
INVARIANT EachRowTestedOnce
INVARIANT ColumnsAreMaximal
