SPECIFICATION Spec

CONSTANTS
  f1 = f1
  f2 = f2
  Periods = {1, 2, 3, 4, 5}
  YearEnds = {2, 4}
  QuarterlyColumns = 3
  Delay = 1
  Lag = 1
  LookbackDays = 4
  TtmPeriods = 2
  Flows = {f1}
  LastDay = 6
  MaxEditions = 1
  MaxRuns = 1
INVARIANT TtmIsAYear
