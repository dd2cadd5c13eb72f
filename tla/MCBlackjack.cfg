CONSTANTS
  None = None
  MAX_PLAYER_CARDS = 6
  MAX_DEALER_CARDS = 4
  Sessions <- MCSessions
  Wager = 4
  InsuranceStakes = {1, 3}
  InitialBalance = 20
  Payouts = {0, 8}
  Deals <- MCDeals
  Draws = {9, 2}
  SpareProofs = 1
SPECIFICATION Spec
INVARIANTS
  ProofChain
  StakesExplained
  HandsScored
PROPERTY SessionsComplete
CHECK_DEADLOCK FALSE
