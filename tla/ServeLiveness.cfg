CONSTANTS
  Slots = {"a1", "a2"}
  Key <- MCKey
  Watched = {"a1", "a2"}
  Model <- MCModel
  StagingMax = 1
  AcceptanceMax = 1
  MaxExtensions = 1
  Manifested = {"m1"}
  UnloadSlots = {"a1"}
  ManagerIsInit = FALSE
  MaxFaults = 0
  NoKey = NoKey
  NoSlot = NoSlot
  NoModel = NoModel
SPECIFICATION FairServeSpec
PROPERTIES
  Answered
  HolderReleased
