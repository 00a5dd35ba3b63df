SPECIFICATION ValSpec

CONSTANTS
  b1 = b1
  t1 = t1
  t2 = t2
  t3 = t3
  Batches = {b1}
  Providers = {"yfinance", "webull"}
  Tickers = {t1, t2, t3}
  Known = {t1, t3}
  Members = {t1, t3}
  TargetLists <- Lists
  Threads = 2
  Lookback = 1
  WebullStart <- FirstWanted
  PageSize = 2
  MaxAttempts = 2
  FirstDay <- FirstListed
  Closed = {}
  Sources <- Answers
  Faults = {"source_error", "throttled", "future_bar", "db_error", "commit_unknown", "capture_error", "kill"}
  LastDay = 1
  MaxFaults = 1
  StaleDays = 1
INVARIANT NoHoles
INVARIANT SummaryIsTrue
INVARIANT WritesAreRecorded
INVARIANT NoAlarm
INVARIANT CleanBillHolds
INVARIANT DownloadEnds
