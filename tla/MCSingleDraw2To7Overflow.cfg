CONSTANTS
  StartingStack = 5
  DEFAULT_SMALL_BLIND = 2
  DEFAULT_BIG_BLIND = 4
  MaxUint = 7
  MaxLevel = 1
SPECIFICATION FairSpec
PROPERTY TimeoutsResolve
