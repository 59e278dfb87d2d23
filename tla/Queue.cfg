CONSTANTS
  Slots <- MCSlots
  Key <- MCKey
  Watched = {"a2"}
  StagingMax = 2
  AcceptanceMax = 2
SPECIFICATION FairServiceSpec
INVARIANTS
  QueueTypeOK
  OnePlace
  TierHonest
  Capacity
  ClosedIsEmpty
  FifoUnlessSkipped
PROPERTIES
  OrderKept
  EveryoneTaken
