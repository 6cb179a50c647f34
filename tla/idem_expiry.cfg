SPECIFICATION CacheSpec
CONSTANTS
  Callers = {r1, r2, r3}
  Keys = {k1}
  Cap = 1
  RecordSizes = {1, 2}
  TotalBodyBudget = 2
  Ttl = 1
  MaxTime = 4
INVARIANT OriginOwnsRecord
CHECK_DEADLOCK FALSE
