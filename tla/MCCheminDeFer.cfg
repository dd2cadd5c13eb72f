CONSTANTS
  p1 = p1
  p2 = p2
  p3 = p3
  d1 = d1
  Nobody = Nobody
  cheminController = cheminController
  cheminEngine = cheminEngine
  Players <- MCPlayers
  Developers = {d1}
  Controllers = {cheminController}
  Engines = {cheminEngine}
  EngineTypes = {"CHEMIN_DE_FER"}
  ExpressionTypes = {"CHEMIN_DE_FER"}
  RewardBps = {5000}
  DeployedModules <- MCModules
  StatusChanges = {"RETIRED", "DISABLED", "LIVE"}
  MaxExpressions = 1
  ApproveAmounts = {}
  InitialBalance = 6
  InitialAllowance = 101
  MaxSupply = 100
  Unlimited = 101
  Durations = {1}
  MaxEpoch = 2
  MaxTime = 2
  MaxClaimLength = 1
  Wad = 10
  BANKER_RISK_PER_PLAYER_WAD = 13
  JOIN_WINDOW = 1
  Bets = {1, 6}
  Takes = {1, 3}
  MaxTables = 1
  MaxRequests = 2
SPECIFICATION FairSpec
INVARIANTS EscrowSplit TakersListed RequestsAddressed
PROPERTIES TablesFinal WinnersDoubled ImplementsEscrow TablesSettle
CHECK_DEADLOCK FALSE
