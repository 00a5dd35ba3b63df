SPECIFICATION Spec

CONSTANTS
  r1 = r1
  r2 = r2
  s1 = s1
  s2 = s2
  Requests = {r1, r2}
  Strategies = {s1, s2}
  StrategyOf <- SameStrategy
  Workers = {w1}
  NoJob = NoJob
  Faults = {}
  MaxFaults = 0
INVARIANT EnsureSucceeds
