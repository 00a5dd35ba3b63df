SPECIFICATION Spec

CONSTANTS
  NumTickers = 2
  LibrarySessions = {1, 2, 4, 5, 6}
  AdHocClosures = {5}
  LookupWindow = 3
  NoDate = NoDate
  Members <- LeavesTwo
  Start = 2
  End = 7
  Schedules = {{1, 2, 6}, {3, 4}, {7}}
  InitialCash = 8
  Bars <- FewBars
  Lookback = 3
  MinObs = 1
  FeeRate = 30
  StampRate = 10
  Strategies = {"any", "equal_weight", "factor"}
INVARIANT EquityMatchesTrades
INVARIANT SnapshotIsMarked
INVARIANT CurveIsComplete
INVARIANT NeverShort
INVARIANT OverdraftIsCosts
INVARIANT FrozenIsKept
PROPERTY OnlyCostsAreLost
INVARIANT DrawdownIsWorst
