SPECIFICATION FairRowsSpec
CONSTANTS
  Slot = {s1, s2}
  MaxLives = 3
  SweepBatch = 1
  None = None
INVARIANTS ServedRowIsOpen
PROPERTIES ClosedStaysClosed BootClosesRows RowsAreFinalized
CHECK_DEADLOCK FALSE
