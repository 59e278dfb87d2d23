SPECIFICATION SupervisionSpec
CONSTANTS
  Proc = {p1, p2, p3}
  MaxDeaths = 1
  None = None
INVARIANTS ReapedBeforeNextSlot
CHECK_DEADLOCK FALSE
