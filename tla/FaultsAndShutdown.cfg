CONSTANTS
  Slots = {"a1", "a2"}
  Key <- MCKey
  Watched = {"a1", "a2"}
  Model <- MCModel
  StagingMax = 1
  AcceptanceMax = 1
  MaxExtensions = 1
  Manifested = {"m1"}
  UnloadSlots = {"a2"}
  ManagerIsInit = FALSE
  MaxFaults = 3
  NoKey = NoKey
  NoSlot = NoSlot
  NoModel = NoModel
SPECIFICATION Spec
\* The system stops when shutdown has ended.
CHECK_DEADLOCK FALSE
INVARIANTS
  NoLeak
  ParkedIsCold
  NoneLeftInQueue
  StoppedIsTerminating
PROPERTIES
  ImplementsSerialService
