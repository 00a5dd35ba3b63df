SPECIFICATION Spec

CONSTANTS
  f1 = f1
  f2 = f2
  Providers = {"yfinance", "webull"}
  Flows = {f1, f2}
  Sessions <- FewDays
  Lookbacks = {1, 4}
  Window = 3
  Required = 2
  Skip = 1
  PriceWindow = 1
  Horizon = 1
  Figure = 1
  Shares = 1
  LastDay = 4
SYMMETRY Symmetry
INVARIANT ReturnsAreEarned
INVARIANT YieldIsRebased
