CONSTANTS
  p1 = p1
  p2 = p2
  d1 = d1
  Nobody = Nobody
  matchController = matchController
  matchEngine = matchEngine
  Players <- MCPlayers
  Developers = {d1}
  Controllers = {matchController}
  Engines = {matchEngine}
  EngineTypes = {"POKER_2_7_SINGLE_DRAW"}
  ExpressionTypes = {"POKER_2_7_SINGLE_DRAW"}
  RewardBps = {5000}
  DeployedModules <- MCModules
  StatusChanges = {"RETIRED", "LIVE"}
  MaxExpressions = 1
  ApproveAmounts = {}
  InitialBalance = 4
  InitialAllowance = 5
  MaxSupply = 100
  Unlimited = 101
  Durations = {1}
  MaxEpoch = 1
  MaxTime = 0
  MaxClaimLength = 2
  Stakes = {0, 2}
  Prizes = {3}
  MaxMatches = 2
  MaxTournaments = 2
  NamedTournaments = {1, 2}
SYMMETRY PlayersSymmetry
SPECIFICATION TournamentSpec
INVARIANTS PrizesExplained CreditedOnTerms
CHECK_DEADLOCK FALSE
