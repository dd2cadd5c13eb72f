---------------------------- MODULE BaccaratRules ----------------------------
(***************************************************************************)
(* BaccaratRules.sol: one round of punto banco from a fresh eight-deck     *)
(* shoe.  A card is its value, 0 for tens and court cards; a shoe is how   *)
(* many cards of each value are left.  The library gets every draw's       *)
(* ticket by hashing the one before; here a ticket is any number below the *)
(* cards left, and a round is decided by the values drawn.                 *)
(*                                                                         *)
(* The assumptions at the end are about these operators alone; TLC         *)
(* evaluates them over all totals and values, and over the first two draws *)
(* of a shoe.                                                              *)
(***************************************************************************)
EXTENDS Naturals, FiniteSets, Functions

CardValues == 0..9

freshShoe == [v \in CardValues |-> IF v = 0 THEN 128 ELSE 32]

playerDraws(playerTotal) == playerTotal <= 5

\* The third cards of the player on which a banker with this total draws.
bankerDrawsOn(bankerTotal) ==
  CASE bankerTotal <= 2 -> CardValues
    [] bankerTotal = 3 -> CardValues \ {8}
    [] bankerTotal = 4 -> 2..7
    [] bankerTotal = 5 -> 4..7
    [] bankerTotal = 6 -> 6..7
    [] OTHER -> {}

bankerDraws(bankerTotal, playerDrew, playerThirdValue) ==
  IF playerDrew THEN playerThirdValue \in bankerDrawsOn(bankerTotal)
                ELSE bankerTotal <= 5

compareTotals(playerTotal, bankerTotal) ==
  CASE playerTotal > bankerTotal -> "PlayerWin"
    [] bankerTotal > playerTotal -> "BankerWin"
    [] OTHER -> "Tie"

\* The values a ticket draws: the first whose cards, with those of the values
\* before it, outnumber the ticket.  Were the set empty, the draw would revert.
drawCard(shoe, ticket) ==
  LET cumulative(v) == SumFunctionOnSet(shoe, 0..v)
  IN  {v \in CardValues :
         /\ ticket < cumulative(v)
         /\ v > 0 => cumulative(v - 1) <= ticket}

\* A round from the totals of the first two cards each; third and last are the
\* next two values of the shoe, drawn in this order if they are drawn at all.
resolve(player, banker, third, last) ==
  LET natural == player >= 8 \/ banker >= 8
      playerDrew == ~natural /\ playerDraws(player)
      bankerDrew == ~natural /\ bankerDraws(banker, playerDrew, third)
      bankerCard == IF playerDrew THEN last ELSE third
      playerTotal == IF playerDrew THEN (player + third) % 10 ELSE player
      bankerTotal == IF bankerDrew THEN (banker + bankerCard) % 10 ELSE banker
  IN  [natural |-> natural,
       playerCardCount |-> IF playerDrew THEN 3 ELSE 2,
       bankerCardCount |-> IF bankerDrew THEN 3 ELSE 2,
       outcome |-> compareTotals(playerTotal, bankerTotal)]

Rounds == {resolve(player, banker, third, last) :
             player \in CardValues, banker \in CardValues,
             third \in CardValues, last \in CardValues}

-----------------------------------------------------------------------------
drawIsFair(shoe) ==
  LET Tickets == 0..(SumFunction(shoe) - 1)
      drawn == [ticket \in Tickets |-> drawCard(shoe, ticket)]
  IN  /\ \A ticket \in Tickets : Cardinality(drawn[ticket]) = 1
      /\ \A v \in CardValues :
           Cardinality({ticket \in Tickets : drawn[ticket] = {v}}) = shoe[v]

\* From a fresh shoe, and from one with any one card taken, every ticket draws
\* one value, and each value is drawn by as many tickets as it has cards.
ASSUME DrawsAreFair ==
  /\ SumFunction(freshShoe) = 416
  /\ drawIsFair(freshShoe)
  /\ \A v \in CardValues : drawIsFair([freshShoe EXCEPT ![v] = @ - 1])

\* The classic rule as players learn it: the banker draws up to 3 and half of
\* the player's third card, 8 and 9 counting as -2 and -1, halves cut to zero.
classicLimit(third) ==
  CASE third = 8 -> 2
    [] third = 9 -> 3
    [] OTHER -> 3 + (third \div 2)

ASSUME TableauIsClassic ==
  \A banker \in 0..7, third \in CardValues :
    bankerDraws(banker, TRUE, third) <=> banker <= classicLimit(third)

\* A natural ends the round after four cards, every other way to end occurs,
\* and so does every outcome after each of them.
ASSUME RoundsAsPlayed ==
  Rounds = [natural : {TRUE}, playerCardCount : {2}, bankerCardCount : {2},
            outcome : {"PlayerWin", "BankerWin", "Tie"}]
           \cup [natural : {FALSE}, playerCardCount : {2, 3},
                 bankerCardCount : {2, 3},
                 outcome : {"PlayerWin", "BankerWin", "Tie"}]
=============================================================================
