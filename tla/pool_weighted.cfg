SPECIFICATION AuditSpec
CONSTANTS
  TokenUnit = 2
  Accounts = {keyA, keyB}
  NoAcct = NoAcct
  keyA = keyA
  keyB = keyB
  slotA1 = slotA1
  slotA2 = slotA2
  slotB = slotB
  req1 = req1
  req2 = req2
  req3 = req3
  convId = convId
  teamId = teamId
  Slots = {slotA1, slotA2, slotB}
  Owner <- WeightedOwner
  Lead <- FirstSlot
  Reqs = {req1, req2}
  Ids = {convId, teamId}
  Identity <- TwoIds
  PinTTL <- BothPinned
  MaxPins = 1
  Rpm <- SomeRpm
  PoolRpm = 2
  CoolBase = 1
  CoolCap = 2
  FlapThreshold = 1
  FlapOpen = 1
  BillingParole = 2
  MaxConc = 1
  Answers = {"ok", "region_locked", "edge_fault", "unauthorized", "rate_limited", "gated"}
  RetryAfters = {0}
  Parks = {1}
  MaxTime = 2
  MaxStrikes = 1
  MaxFlap = 1
INVARIANT SlotsAgree
INVARIANT LiveMatches
CHECK_DEADLOCK FALSE
