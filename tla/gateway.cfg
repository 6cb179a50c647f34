SPECIFICATION MCSpec
CONSTANTS
  CorruptHold = 2
  JunkHold = 2
  JunkRun = 2
  LoopWindow = 2
  MaxWire = 3
  Accounts = {a1, a2}
  Requests <- AllRequests
  Credentials = {a1, a2}
  FastPath = TRUE
  MaxTries = 2
  Plans <- Planned
  MaxAttempts = 2
  Outcomes <- All
  MaxRecover = 1
  MaxCalls = 4
INVARIANT UnseenReplaced
INVARIANT EndIsHonest
INVARIANT CleanReturn
INVARIANT Routed
PROPERTY NoReplayBehindBytes
PROPERTY Served
PROPERTY Terminates
CHECK_DEADLOCK FALSE
