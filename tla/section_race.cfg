SPECIFICATION Spec
CONSTANTS
  Editors = {e1, e2}
  Kinds = {"provider", "section"}
  MaxHand = 0
  MaxHup = 0
  MaxCrash = 0
  Hand = Hand
  Old = Old
  None = None
INVARIANTS EditsSerial
CHECK_DEADLOCK FALSE
