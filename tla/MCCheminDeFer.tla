---------------------------- MODULE MCCheminDeFer ----------------------------
EXTENDS CheminDeFer, TLC

CONSTANTS p1, p2, p3, d1

MCPlayers == {p1, p2, p3}
MCModules == << [controller |-> cheminController, engine |-> cheminEngine,
                 engineType |-> "CHEMIN_DE_FER", developerRewardBps |-> 5000,
                 status |-> "LIVE"] >>
=============================================================================
