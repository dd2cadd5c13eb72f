----------------------------- MODULE MCSoloGames -----------------------------
EXTENDS SoloGames, BaccaratRules, TLC

CONSTANTS p1, d1

MCDevelopers == {p1, d1}
MCSolo == {baccaratController, pickerController}
MCEngines == {baccaratEngine, pickerEngine}
MCModules ==
  << [controller |-> baccaratController, engine |-> baccaratEngine,
      engineType |-> "SUPER_BACCARAT", developerRewardBps |-> 5000,
      status |-> "LIVE"],
     [controller |-> pickerController, engine |-> pickerEngine,
      engineType |-> "NUMBER_PICKER", developerRewardBps |-> 2500,
      status |-> "LIVE"] >>
=============================================================================
