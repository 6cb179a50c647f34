SPECIFICATION MCSpec
CONSTANTS
  Files <- MCFiles
  Edits <- MCEdits
  MaxEdits = 2
  Reloaders = {hup, admin}
  Requests = {r1}
  MaxGen = 3
  MaxWindow = 2
  MaxBooked = 1
  MaxRestart = 1
  Editors = {e1, e2}
  Kinds = {"provider", "keyrow", "section", "pin", "password", "reload"}
  MaxHand = 1
  MaxHup = 1
  MaxCrash = 1
  Hand = Hand
  Old = Old
  None = None
  Absent = Absent
  Ips = {i1, i2}
  Reqs = {q1, q2}
  MaxLoginFails = 3
  LoginBlock = 2
  GuardCap = 2
  MaxSessions = 2
  SessionTTL = 1
  MaxTime = 3
  MaxChanges = 1
  Subscribed = {a1, a2}
  Cycle = 2
  Timeout = 1
  MaxPollTime = 6
SYMMETRY Alike
INVARIANT StateCarried
INVARIANT EditsHold
INVARIANT GuardHolds
INVARIANT PollHonest
PROPERTY EditsMean
PROPERTY NotesKept
CHECK_DEADLOCK FALSE
