SPECIFICATION MCSpec
CONSTANTS
  Requests = {r1, r2}
  Capacity = 4
  BodySizes = {0, 2, 6}
  ReplySizes = {1, 3}
  MaxBudgets = 2
  MaxAttempts = 2
  Callers = {c1, c2, c3}
  Keys = {k1, k2}
  Cap = 1
  RecordSizes = {1, 2}
  TotalBodyBudget = 2
  Ttl = 1
  MaxTime = 3
  N = 4
  Limit = 3
  Orders <- Tasked
  Failing = {0, 1, 2, 3}
  Overflows = TRUE
  Workers = {w1, w2}
  MaxTools = 2
  MaxChunks = 5
  Legs <- TwoLegs
  Others = {"x"}
  Rates = {1, 2, 3}
  MapCap = 2
  MinSamples = 2
  StaleAfter = 0
  LargeInput = 125
  MaxServed = 3
  MaxAge = 1
  Combos <- Tiered
  Kits <- ClientKits
  Texts = {500, 12000, 45000}
  TextCap = 16384
  Rounds = {2, 15}
  MaxMessages = 6
INVARIANT Accounted
INVARIANT SingleFlight
INVARIANT Rotates
INVARIANT Translated
INVARIANT Steers
PROPERTY WaitsEnd
CHECK_DEADLOCK FALSE
