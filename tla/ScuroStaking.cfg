CONSTANTS
  Holders = {h1, h2}
  Wrapper = wrapper
  InitialBalance = 2
  MaxSupply = 4
  Unlimited = 5
SPECIFICATION StakingSpec
INVARIANT Backed
PROPERTY WrappingIsEven
