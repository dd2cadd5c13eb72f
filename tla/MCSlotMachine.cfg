CONSTANTS
  p1 = p1
  d1 = d1
  Nobody = Nobody
  slotController = slotController
  slotEngine = slotEngine
  Players = {p1}
  Developers = {d1}
  SoloControllers <- MCControllers
  Controllers <- MCControllers
  Engines <- MCEngines
  EngineTypes = {"SLOT_MACHINE"}
  ExpressionTypes = {"SLOT_MACHINE"}
  RewardBps = {500}
  DeployedModules <- MCModules
  StatusChanges = {"RETIRED", "LIVE"}
  MaxExpressions = 1
  ApproveAmounts = {}
  InitialBalance = 5
  InitialAllowance = 20001
  MaxSupply = 20000
  Unlimited = 20001
  Durations = {1}
  MaxEpoch = 1
  MaxTime = 0
  MaxClaimLength = 0
  MaxRequests = 2
  Wagers = {1, 3, 4}
  PresetConfigs <- MCPresetConfigs
  MaxPresets = 2
  MaxUint = 600000
SPECIFICATION SlotSpec
INVARIANTS SpinsExplained CoveredSpinsResolve
CHECK_DEADLOCK FALSE
