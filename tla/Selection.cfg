SPECIFICATION SelSpec

CONSTANTS
  Tickers <- Names
  NumSectors = 3
  Questions <- All
  Parts = 60
INVARIANT PlacesAreProportional
INVARIANT NoneBetterLeftOut
INVARIANT BetterGetsMore
