SPECIFICATION Spec

CONSTANTS
  f1 = f1
  f2 = f2
  Periods = {1, 2, 3}
  YearEnds = {1, 3}
  QuarterlyColumns = 1
  Delay = 1
  Lag = 1
  LookbackDays = 2
  TtmPeriods = 2
  Flows = {f1, f2}
  LastDay = 4
  MaxEditions = 2
  MaxRuns = 2
SYMMETRY Symmetry
INVARIANT NoLookahead
INVARIANT NoFutureRow
INVARIANT LineageExplains
PROPERTY EditionsGoForward
