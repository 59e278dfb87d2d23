CONSTANTS
  Slots = {"a1", "a2", "b1"}
  Key <- MCKey
  Watched = {"a1", "a2", "b1"}
  Model <- MCModel
  StagingMax = 1
  AcceptanceMax = 1
  MaxExtensions = 1
  Manifested = {"m1"}
  UnloadSlots = {"a2"}
  ManagerIsInit = FALSE
  MaxFaults = 0
  NoKey = NoKey
  NoSlot = NoSlot
  NoModel = NoModel
SPECIFICATION ServeSpec
INVARIANTS
  ManagerTypeOK
  HolderNotDoomed
  ServingNotDoomed
  HandleOfModel
  NoAbandonedRequest
PROPERTIES
  ImplementsSerialService
  UnknownModelKeepsHolder
  LegalMoves
