SPECIFICATION AuditSpec
CONSTANTS
  TokenUnit = 2
  Accounts = {keyA, keyB}
  NoAcct = NoAcct
  keyA = keyA
  keyB = keyB
  slotA1 = slotA1
  slotA2 = slotA2
  slotB = slotB
  req1 = req1
  req2 = req2
  req3 = req3
  convId = convId
  teamId = teamId
  Slots = {slotA1, slotB}
  Owner <- PlainOwner
  Lead <- FirstSlot
  Reqs = {req1, req2, req3}
  Ids = {convId}
  Identity <- OneId
  PinTTL <- Unpinned
  MaxPins = 2
  Rpm <- NoRpm
  PoolRpm = 0
  CoolBase = 1
  CoolCap = 2
  FlapThreshold = 2
  FlapOpen = 1
  BillingParole = 2
  MaxConc = 0
  Answers = {"ok", "rate_limited"}
  RetryAfters = {0, 3}
  Parks = {}
  MaxTime = 3
  MaxStrikes = 2
  MaxFlap = 2
PROPERTY FreshVerdictSurvives
CHECK_DEADLOCK FALSE
