CONSTANTS
  StartingStack = 5
  DEFAULT_SMALL_BLIND = 2
  DEFAULT_BIG_BLIND = 4
  MaxUint = 15
  MaxLevel = 1
  HandSize = 2
  Masks <- MCMasks
  Scores = {0, 1}
  None = None
SPECIFICATION FairPokerSpec
INVARIANTS ChipsConserved PotMatched TurnAndClock WinnerTakesAll HandsAsDealt
PROPERTIES ImplementsMatch HandsEnd
