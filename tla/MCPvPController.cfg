CONSTANTS
  p1 = p1
  p2 = p2
  d1 = d1
  Nobody = Nobody
  matchController = matchController
  matchEngine = matchEngine
  Players <- MCPlayers
  Developers <- MCDevelopers
  Controllers = {matchController}
  Engines = {matchEngine}
  EngineTypes = {"POKER_2_7_SINGLE_DRAW"}
  ExpressionTypes = {"POKER_2_7_SINGLE_DRAW"}
  RewardBps = {5000}
  DeployedModules <- MCModules
  StatusChanges = {"RETIRED", "LIVE"}
  MaxExpressions = 1
  ApproveAmounts = {}
  InitialBalance = 4
  InitialAllowance = 5
  MaxSupply = 100
  Unlimited = 101
  Durations = {1}
  MaxEpoch = 2
  MaxTime = 1
  MaxClaimLength = 2
  Stakes = {0, 2}
  Prizes = {3}
  MaxMatches = 2
SPECIFICATION PvPSpec
INVARIANTS SessionsExplained PaidIsClaimed
PROPERTIES SessionsFinal ClosedEpochFrozen
CHECK_DEADLOCK FALSE
