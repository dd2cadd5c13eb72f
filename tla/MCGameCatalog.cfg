CONSTANTS
  c1 = c1
  c2 = c2
  c3 = c3
  e1 = e1
  e2 = e2
  e3 = e3
  Controllers <- MCControllers
  Engines <- MCEngines
  EngineTypes = {"NUMBER_PICKER"}
  RewardBps = {0, 500}
  MaxModules = 3
SPECIFICATION Spec
SYMMETRY Symmetry
INVARIANT IndexesAgree
CHECK_DEADLOCK FALSE
