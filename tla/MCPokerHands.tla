---------------------------- MODULE MCPokerHands ----------------------------
EXTENDS PokerHands

\* Discard nothing, or the second of two cards.
MCMasks == {{}, {2}}
=============================================================================
