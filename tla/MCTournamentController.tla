---------------------------- MODULE MCTournamentController ----------------------------
EXTENDS TournamentController, TLC

CONSTANTS p1, p2, d1

PlayersSymmetry == Permutations({p1, p2})
MCPlayers == {p1, p2}
MCModules == << [controller |-> matchController, engine |-> matchEngine,
                 engineType |-> "POKER_2_7_SINGLE_DRAW", developerRewardBps |-> 5000,
                 status |-> "LIVE"] >>
=============================================================================
