CONSTANTS
  p1 = p1
  d1 = d1
  Nobody = Nobody
  baccaratController = baccaratController
  baccaratEngine = baccaratEngine
  pickerController = pickerController
  pickerEngine = pickerEngine
  Players = {p1}
  Developers = {d1}
  SoloControllers <- MCSolo
  Controllers <- MCSolo
  Engines <- MCEngines
  EngineTypes = {"SUPER_BACCARAT", "NUMBER_PICKER"}
  ExpressionTypes = {"SUPER_BACCARAT", "NUMBER_PICKER"}
  RewardBps = {2500, 5000}
  DeployedModules <- MCModules
  StatusChanges = {"RETIRED", "DISABLED", "LIVE"}
  MaxExpressions = 2
  ApproveAmounts = {2}
  InitialBalance = 5
  InitialAllowance = 2
  MaxSupply = 2000
  Unlimited = 2001
  Durations = {1}
  MaxEpoch = 1
  MaxTime = 0
  MaxClaimLength = 0
  MaxRequests = 2
  Wagers = {2}
  Sides = {"Player"}
  Wad = 1000
  PLAYER_PAYOUT_WAD = 2027
  BANKER_PAYOUT_WAD = 1973
  TIE_PAYOUT_WAD = 10509
  DelayedVRF = FALSE
  Selections = {0, 1, 99}
  Rolls = {50, 100}
SPECIFICATION FairSpec
INVARIANTS BalancesExplained AccrualsExplained PayoutsOrdered
PROPERTIES RoundsFinal SessionsSettle
CHECK_DEADLOCK FALSE
