SPECIFICATION ExecSpec
CONSTANTS
  Plans <- Planned
  Credentials = {a1, a2}
  MaxAttempts = 2
  Outcomes <- All
  MaxRecover = 1
  MaxCalls = 5
INVARIANT NoPanic
CHECK_DEADLOCK FALSE
