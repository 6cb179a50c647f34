SPECIFICATION AuditSpec
CONSTANTS
  TokenUnit = 2
  Accounts = {keyA, keyB}
  NoAcct = NoAcct
  keyA = keyA
  keyB = keyB
  slotA1 = slotA1
  slotA2 = slotA2
  slotB = slotB
  req1 = req1
  req2 = req2
  req3 = req3
  convId = convId
  teamId = teamId
  Slots = {slotA1, slotB}
  Owner <- PlainOwner
  Lead <- FirstSlot
  Reqs = {req1, req2}
  Ids = {convId, teamId}
  Identity <- TwoIds
  PinTTL <- BothPinned
  MaxPins = 3
  Rpm <- NoRpm
  PoolRpm = 0
  CoolBase = 1
  CoolCap = 2
  FlapThreshold = 1
  FlapOpen = 1
  BillingParole = 2
  MaxConc = 0
  Answers = {"ok", "gated", "payment"}
  RetryAfters = {0}
  Parks = {}
  MaxTime = 3
  MaxStrikes = 1
  MaxFlap = 1
INVARIANT ReadyNotLate
PROPERTY TerminalParked
PROPERTY NoStacking
PROPERTY WarmPinSurvives
CHECK_DEADLOCK FALSE
SYMMETRY PlainSymmetry
