SPECIFICATION Spec

CONSTANTS
  r1 = r1
  r2 = r2
  s1 = s1
  s2 = s2
  Requests = {r1, r2}
  Strategies = {s1, s2}
  StrategyOf <- OwnStrategy
  Workers = {w1, w2}
  NoJob = NoJob
  Faults = {"redis_down", "db_error", "kill", "api_crash"}
  MaxFaults = 3
INVARIANT PageIsRight
INVARIANT OneWriter
PROPERTY PromiseKept
