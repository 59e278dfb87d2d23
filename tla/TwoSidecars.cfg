CONSTANTS
  Slots = {"a1", "b1"}
  Key <- MCKey
  Watched = {"a1", "b1"}
  Model <- MCModel
  StagingMax = 1
  AcceptanceMax = 1
  MaxExtensions = 1
  Manifested = {"m1", "m2"}
  UnloadSlots = {}
  ManagerIsInit = FALSE
  MaxFaults = 0
  NoKey = NoKey
  NoSlot = NoSlot
  NoModel = NoModel
SPECIFICATION ServeSpec
INVARIANTS
  SingleSidecar
