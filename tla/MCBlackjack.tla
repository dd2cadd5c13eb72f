----------------------------- MODULE MCBlackjack -----------------------------
(***************************************************************************)
(* One session over every kind of up card: low, nine, ten and ace, the     *)
(* last two with and without a dealer's blackjack; a pair, a soft hand and *)
(* an ace numbered 52 for the player.  Six player cards are enough for two *)
(* split hands and two draws; a long soft hand outgrows them.              *)
(***************************************************************************)
EXTENDS Blackjack

deal(player, dealer) == [player |-> player, dealer |-> dealer]

MCDeals == {
  deal(<<9, 7>>, <<6, 4, 9>>),     \* 18 against 7
  deal(<<7, 20>>, <<5, 9, 4>>),    \* a pair of eights against 6
  deal(<<0, 5>>, <<8, 9>>),        \* soft 17 against 9
  deal(<<52, 9>>, <<4, 5, 9>>),    \* an ace of the second deck, 52
  deal(<<9, 6>>, <<0, 7>>),        \* 17 against an ace
  deal(<<9, 20>>, <<0, 35>>),      \* 18 against a blackjack under an ace
  deal(<<9, 33>>, <<61, 7>>),      \* 18 against a ten
  deal(<<8, 7>>, <<12, 13>>) }     \* 17 against a blackjack under a ten

MCSessions == {1}
=============================================================================
