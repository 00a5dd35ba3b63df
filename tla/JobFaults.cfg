SPECIFICATION FairSpec

CONSTANTS
  r1 = r1
  r2 = r2
  s1 = s1
  s2 = s2
  Requests = {r1, r2}
  Strategies = {s1, s2}
  StrategyOf <- SameStrategy
  Workers = {w1}
  NoJob = NoJob
  Faults = {"redis_down", "reply_lost", "db_error", "commit_unknown", "timeout", "kill", "api_crash"}
  MaxFaults = 2
INVARIANT DeliveredHasRow
INVARIANT NoSilentLoss
INVARIANT ResultServed
PROPERTY NoRerun
PROPERTY AcceptedSettles
PROPERTY EveryRequestAnswered
