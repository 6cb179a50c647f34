SPECIFICATION MCSpec
CONSTANTS
  Observers = {o1, o2}
  MaxObs = 2
  MaxCrash = 1
  Sizes = {0, 1, 2}
  MaxWindows = 4
  Loops = {l1, l2}
  Commands = {cli}
  Others = {oth}
  MaxRt = 2
  MaxFault = 1
  Keys = {k1, k2}
  Outs = {k1}
  Attempts = 2
  Callers = {c1}
  Writers = {w1}
  Pids = {1, 2, 3}
  MaxRequests = 1
  MaxKills = 1
  Qualities = {"good", "dies", "deaf"}
  Absent = Absent
  Nobody = Nobody
INVARIANT Kept
INVARIANT PushAccounted
INVARIANT OneUse
INVARIANT LoggedOut
INVARIANT Seamless
PROPERTY Records
PROPERTY NoRollback
PROPERTY Ends
CHECK_DEADLOCK FALSE
