---------------------------- MODULE MCPvPController ----------------------------
EXTENDS PvPController, TLC

CONSTANTS p1, p2, d1

MCPlayers == {p1, p2}
MCDevelopers == {d1, p1}
MCModules == << [controller |-> matchController, engine |-> matchEngine,
                 engineType |-> "POKER_2_7_SINGLE_DRAW", developerRewardBps |-> 5000,
                 status |-> "LIVE"] >>
=============================================================================
