SPECIFICATION MCSpec
CONSTANTS
  Providers <- Vendors
  ComboTable <- Chains
  Aliases <- AliasNames
  Ends <- AliasEnds
  Names <- Asked
  MaxAliasHops = 2
  Answers <- AllAnswers
  TokenUnit = 3
  Rate = 2
  MaxTime = 14
  Reqs = {r1, r2}
  Window = 3
  Rpm = 2
  Tpm = 3
  MaxTokens = 3
  MaxLag = 1
  MaxClock = 6
  Models = {m1, m2, m3}
  Accounts = {ac1, ac2}
  Workers = {w1, w2}
  MaxBenches = 2
  Ttls = {0, 1}
  BenchTTL = 2
  StormStrikes = 3
  StormWindow = 1
  StormBench = 2
  WallWindow = 1
  WallPark = 1
  MaxBenchTime = 3
  MaxEvents = 3
INVARIANT SameHopCap
CHECK_DEADLOCK FALSE
SYMMETRY Alike
