SPECIFICATION Spec

CONSTANTS
  n1 = n1
  n2 = n2
  r1 = r1
  NumTickers = 2
  Names = {n1, n2}
  NoName = NoName
  Runs = {r1}
  Lists <- AskedFor
  TickerFiles <- Files
  MemberFiles <- Editions
  LastDate = 3
  Faults = {"lookup_error", "db_error", "commit_unknown", "capture_error", "kill"}
  MaxFaults = 1
  MaxSeeds = 2
INVARIANT RefreshIsTold
INVARIANT RefreshCatchesUp
INVARIANT UniverseIsAsSeeded
