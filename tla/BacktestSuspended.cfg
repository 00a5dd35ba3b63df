SPECIFICATION Spec

CONSTANTS
  NumTickers = 1
  LibrarySessions = {1, 2, 4, 5, 6}
  AdHocClosures = {5}
  LookupWindow = 3
  NoDate = NoDate
  Members <- AllMembers
  Start = 2
  End = 7
  Schedules = {{1, 2, 6}, {3, 4}, {7}}
  InitialCash = 8
  Bars <- FewBars
  Lookback = 5
  MinObs = 1
  FeeRate = 6
  StampRate = 10
  Strategies = {"factor"}
INVARIANT FilterSuffices
