--------------------------- MODULE SingleDraw2To7 ---------------------------
(***************************************************************************)
(* One heads-up match of single-draw 2-7 poker                             *)
(* (src/src/engines/SingleDraw2To7Engine.sol).  Matches of the engine share *)
(* nothing but their module's status.  Hands follow each other until one   *)
(* player has no chips left: blinds, the coordinator's deal proof, betting, *)
(* draws, their proofs, betting, the showdown proof.  Players have a clock *)
(* when it is their turn; the coordinator has none.                        *)
(*                                                                         *)
(* Players are seats 0 and 1.  Cards, commitments and draw masks are left  *)
(* out: a proof submission chooses any verdict the verifier could accept.  *)
(* deadlineAt is abstracted to clock: "off" is 0, "running" is a deadline  *)
(* not before block.timestamp, "passed" one before it.  level counts the   *)
(* blind escalation intervals elapsed since the match began.               *)
(***************************************************************************)
EXTENDS Naturals

CONSTANTS StartingStack,    \* both controllers give both players the same
          DEFAULT_SMALL_BLIND, DEFAULT_BIG_BLIND,
          MaxUint,          \* type(uint256).max, scaled
          MaxLevel          \* bound: intervals elapsed in one behaviour

ASSUME MatchAssumption ==
  /\ StartingStack \in Nat \ {0}
  /\ DEFAULT_SMALL_BLIND \in Nat \ {0} /\ DEFAULT_BIG_BLIND \in Nat \ {0}
  /\ MaxLevel \in Nat /\ MaxUint \in Nat
  /\ \A l \in 0..MaxLevel : 2^l \in Nat \ {0}

VARIABLES matchState, matchWinner, isTie,
          dealerIdx, currentTurn, stack, currentBet, hasActed, pot, highestBet,
          contributed,  \* history: what each seat has put into this hand's pot
          handPhase, expectedActor, clock, drawDeclared, drawResolved,
          level,    \* time since the match began, in escalation intervals
          status    \* the module's, in the catalog

outcomeVars == <<matchState, matchWinner, isTie>>
chipVars == <<stack, currentBet, pot, contributed, highestBet>>
drawVars == <<drawDeclared, drawResolved>>
turnVars == <<currentTurn, expectedActor, clock>>
worldVars == <<level, status>>
vars == <<outcomeVars, dealerIdx, chipVars, hasActed, handPhase, drawVars,
          turnVars, worldVars>>

Seats == {0, 1}
NoSeat == 2
COORDINATOR_ACTOR == 255

MatchState == {"Inactive", "Active", "Completed"}
BettingPhases == {"PreDrawBetting", "PostDrawBetting"}
ClockPhases == BettingPhases \cup {"DrawDeclaration"}
ProofPhases == {"AwaitingInitialDeal", "DrawProofPending", "ShowdownProofPending"}
HandPhase == {"None", "HandComplete"} \cup ClockPhases \cup ProofPhases

other(seat) == 1 - seat
lesser(a, b) == IF a > b THEN b ELSE a
settlable == status \in {"LIVE", "RETIRED"}
active == matchState = "Active"

Init ==
  /\ matchState = "Inactive" /\ matchWinner = NoSeat /\ isTie = FALSE
  /\ dealerIdx = 0 /\ currentTurn = 0
  /\ stack = [i \in Seats |-> 0]
  /\ currentBet = [i \in Seats |-> 0]
  /\ hasActed = [i \in Seats |-> FALSE]
  /\ pot = 0 /\ highestBet = 0
  /\ contributed = [i \in Seats |-> 0]
  /\ handPhase = "None" /\ expectedActor = 0 /\ clock = "off"
  /\ drawDeclared = [i \in Seats |-> FALSE]
  /\ drawResolved = [i \in Seats |-> FALSE]
  /\ level = 0
  /\ status = "LIVE"

-----------------------------------------------------------------------------
(* Hands and turns.                                                        *)

\* The turn passes to a seat, with a fresh clock, or to the coordinator.
giveTurn(seat) ==
  /\ currentTurn' = seat
  /\ expectedActor' = seat
  /\ clock' = "running"

awaitCoordinator ==
  /\ expectedActor' = COORDINATOR_ACTOR
  /\ clock' = "off"

\* What each seat posts: its doubled blind, or the stack it has left.
blindCost(stacks, dealer) ==
  [i \in Seats |->
     lesser(2^level * (IF i = dealer THEN DEFAULT_SMALL_BLIND
                                     ELSE DEFAULT_BIG_BLIND), stacks[i])]

\* Solidity reverts when the power or a product exceeds the word.
blindsFit ==
  /\ 2^level <= MaxUint
  /\ DEFAULT_SMALL_BLIND * 2^level <= MaxUint
  /\ DEFAULT_BIG_BLIND * 2^level <= MaxUint

\* _startNextHand, from the stacks and the dealer the hand starts with.
startNextHand(stacks, dealer) ==
  LET cost == blindCost(stacks, dealer) IN
  /\ blindsFit
  /\ handPhase' = "AwaitingInitialDeal"
  /\ awaitCoordinator
  /\ dealerIdx' = dealer /\ currentTurn' = dealer
  /\ stack' = [i \in Seats |-> stacks[i] - cost[i]]
  /\ currentBet' = cost
  /\ pot' = cost[0] + cost[1]
  /\ contributed' = cost
  /\ highestBet' = cost[other(dealer)]
  /\ hasActed' = [i \in Seats |-> FALSE]
  /\ drawDeclared' = [i \in Seats |-> FALSE]
  /\ drawResolved' = [i \in Seats |-> FALSE]

\* Bug: the winner collects the bets of the current round only.
paidOutBets(winner, tie) ==
  IF tie
    THEN [i \in Seats |-> stack[i] + currentBet[i]]
    ELSE [stack EXCEPT ![winner] = @ + currentBet[0] + currentBet[1]]

\* The stacks once the pot of a hand is paid out.
paidOut(winner, tie) ==
  IF tie
    THEN [i \in Seats |-> stack[i] + IF i = 0 THEN pot \div 2
                                             ELSE pot - pot \div 2]
    ELSE [stack EXCEPT ![winner] = @ + pot]

endMatch(stacks, tie) ==
  /\ handPhase' = "HandComplete"
  /\ matchState' = "Completed"
  /\ matchWinner' = IF stacks[0] > 0 THEN 0 ELSE 1
  /\ isTie' = tie
  /\ stack' = stacks
  /\ UNCHANGED <<dealerIdx, currentBet, pot, contributed, highestBet, hasActed,
                 drawVars, turnVars>>

\* Bug: the tie verdict of a hand ends the match.
completeHandTieEnds(winner, tie) ==
  LET stacks == paidOut(winner, tie) IN
  /\ UNCHANGED worldVars
  /\ \/ /\ tie \/ \E i \in Seats : stacks[i] = 0
        /\ endMatch(stacks, tie)
     \/ /\ ~tie /\ \A i \in Seats : stacks[i] > 0
        /\ startNextHand(stacks, other(dealerIdx))
        /\ UNCHANGED outcomeVars

\* _completeHand: the pot is paid; the match ends if a stack is empty, else
\* the dealer changes and the next hand starts in the same transaction.
completeHand(winner, tie) ==
  LET stacks == paidOut(winner, tie) IN
  /\ UNCHANGED worldVars
  /\ \/ /\ \E i \in Seats : stacks[i] = 0
        /\ endMatch(stacks, tie)
     \/ /\ \A i \in Seats : stacks[i] > 0
        /\ startNextHand(stacks, other(dealerIdx))
        /\ UNCHANGED outcomeVars

\* Bug: a match that is over may be started again under its id.
initializeGameAgain ==
  /\ settlable
  /\ ~active
  /\ matchState' = "Active"
  /\ startNextHand([i \in Seats |-> StartingStack], dealerIdx)
  /\ UNCHANGED <<matchWinner, isTie, worldVars>>

initializeGame ==
  /\ settlable
  /\ matchState = "Inactive"
  /\ matchState' = "Active"
  /\ startNextHand([i \in Seats |-> StartingStack], dealerIdx)
  /\ UNCHANGED <<matchWinner, isTie, worldVars>>

-----------------------------------------------------------------------------
(* Betting.                                                                *)

\* The bets are matched: on to the draw, or to the showdown.
endBettingRound ==
  /\ currentBet' = [i \in Seats |-> 0]
  /\ hasActed' = [i \in Seats |-> FALSE]
  /\ highestBet' = 0
  /\ \/ /\ handPhase = "PreDrawBetting"
        /\ handPhase' = "DrawDeclaration"
        /\ giveTurn(other(dealerIdx))
     \/ /\ handPhase = "PostDrawBetting"
        /\ handPhase' = "ShowdownProofPending"
        /\ awaitCoordinator
        /\ UNCHANGED currentTurn

\* Bug: the round ends when both have acted, whatever they have paid.
advanceWhenActed(bets, acted, highest) ==
  \/ /\ acted[0] /\ acted[1]
     /\ endBettingRound
  \/ /\ ~(acted[0] /\ acted[1])
     /\ currentBet' = bets /\ hasActed' = acted /\ highestBet' = highest
     /\ giveTurn(other(currentTurn))
     /\ UNCHANGED handPhase

\* _advanceAfterBettingAction, over the bets as this transaction left them.
\* No caller sets forcePostDraw.
advanceAfterBettingAction(bets, acted, highest) ==
  \/ /\ acted[0] /\ acted[1] /\ bets[0] = bets[1]
     /\ endBettingRound
  \/ /\ ~(acted[0] /\ acted[1] /\ bets[0] = bets[1])
     /\ currentBet' = bets /\ hasActed' = acted /\ highestBet' = highest
     /\ giveTurn(other(currentTurn))
     /\ UNCHANGED handPhase

canActInBetting ==
  /\ settlable
  /\ active
  /\ handPhase \in BettingPhases
  /\ clock = "running"

\* The bets, flags and highest bet once seat p has put in amount more.  Only
\* chips raise: a check does not, though a blind above the highest bet could.
raises(p, amount) == amount > 0 /\ currentBet[p] + amount > highestBet
betsAfter(p, amount) == [currentBet EXCEPT ![p] = @ + amount]
actedAfter(p, amount) ==
  IF raises(p, amount) THEN [i \in Seats |-> i = p]
                       ELSE [hasActed EXCEPT ![p] = TRUE]
highestAfter(p, amount) ==
  IF raises(p, amount) THEN currentBet[p] + amount ELSE highestBet

\* Bug: a player may check without matching the opponent's bet.
betChecksAnything(amount) ==
  LET p == currentTurn IN
  /\ canActInBetting
  /\ amount = 0 \/ currentBet[p] + amount >= highestBet
  /\ stack[p] >= amount
  /\ stack' = [stack EXCEPT ![p] = @ - amount]
  /\ pot' = pot + amount
  /\ contributed' = [contributed EXCEPT ![p] = @ + amount]
  /\ advanceAfterBettingAction(betsAfter(p, amount), actedAfter(p, amount),
                               highestAfter(p, amount))
  /\ UNCHANGED <<outcomeVars, dealerIdx, drawVars, worldVars>>

\* bet by the player whose turn it is; 0 is a check.  A raise gives the
\* opponent another turn.
bet(amount) ==
  LET p == currentTurn IN
  /\ canActInBetting
  /\ currentBet[p] + amount >= highestBet
  /\ stack[p] >= amount
  /\ stack' = [stack EXCEPT ![p] = @ - amount]
  /\ pot' = pot + amount
  /\ contributed' = [contributed EXCEPT ![p] = @ + amount]
  /\ advanceAfterBettingAction(betsAfter(p, amount), actedAfter(p, amount),
                               highestAfter(p, amount))
  /\ UNCHANGED <<outcomeVars, dealerIdx, drawVars, worldVars>>

fold ==
  /\ canActInBetting
  /\ completeHand(other(currentTurn), FALSE)

-----------------------------------------------------------------------------
(* Proofs and draws.                                                       *)

submitInitialDealProof ==
  /\ settlable
  /\ active
  /\ handPhase = "AwaitingInitialDeal"
  /\ handPhase' = "PreDrawBetting"
  /\ drawDeclared' = [i \in Seats |-> FALSE]
  /\ drawResolved' = [i \in Seats |-> FALSE]
  /\ giveTurn(currentTurn)
  /\ UNCHANGED <<outcomeVars, dealerIdx, chipVars, hasActed, worldVars>>

\* Bug: the turn stays with the player who has just declared.
declareDrawKeepsTurn ==
  LET actor == currentTurn IN
  /\ settlable
  /\ active
  /\ handPhase = "DrawDeclaration"
  /\ clock = "running"
  /\ ~drawDeclared[actor]
  /\ drawDeclared' = [drawDeclared EXCEPT ![actor] = TRUE]
  /\ \/ /\ drawDeclared[other(actor)]
        /\ handPhase' = "DrawProofPending"
        /\ awaitCoordinator
        /\ UNCHANGED currentTurn
     \/ /\ ~drawDeclared[other(actor)]
        /\ giveTurn(actor)
        /\ UNCHANGED handPhase
  /\ UNCHANGED <<outcomeVars, dealerIdx, chipVars, hasActed, drawResolved,
                 worldVars>>

declareDraw ==
  LET actor == currentTurn IN
  /\ settlable
  /\ active
  /\ handPhase = "DrawDeclaration"
  /\ clock = "running"
  /\ ~drawDeclared[actor]
  /\ drawDeclared' = [drawDeclared EXCEPT ![actor] = TRUE]
  /\ \/ /\ drawDeclared[other(actor)]
        /\ handPhase' = "DrawProofPending"
        /\ awaitCoordinator
        /\ UNCHANGED currentTurn
     \/ /\ ~drawDeclared[other(actor)]
        /\ giveTurn(other(actor))
        /\ UNCHANGED handPhase
  /\ UNCHANGED <<outcomeVars, dealerIdx, chipVars, hasActed, drawResolved,
                 worldVars>>

\* The two draws are proved in either order; the second one reopens betting.
submitDrawProof(actor) ==
  /\ settlable
  /\ active
  /\ handPhase = "DrawProofPending"
  /\ drawDeclared[actor] /\ ~drawResolved[actor]
  /\ drawResolved' = [drawResolved EXCEPT ![actor] = TRUE]
  /\ \/ /\ drawResolved[other(actor)]
        /\ handPhase' = "PostDrawBetting"
        /\ hasActed' = [i \in Seats |-> FALSE]
        /\ currentBet' = [i \in Seats |-> 0]
        /\ highestBet' = 0
        /\ giveTurn(other(dealerIdx))
     \/ /\ ~drawResolved[other(actor)]
        /\ UNCHANGED <<handPhase, hasActed, currentBet, highestBet, turnVars>>
  /\ UNCHANGED <<outcomeVars, dealerIdx, stack, pot, contributed, drawDeclared,
                 worldVars>>

submitShowdownProof(winner, tie) ==
  /\ settlable
  /\ active
  /\ handPhase = "ShowdownProofPending"
  /\ completeHand(winner, tie)

-----------------------------------------------------------------------------
(* Clocks, time and governance.                                            *)

\* claimTimeout by anyone, or handleTimeout by the controller.
claimTimeout ==
  /\ settlable
  /\ handPhase \in ClockPhases
  /\ clock # "running"
  /\ completeHand(other(currentTurn), FALSE)

Expire ==
  /\ clock = "running"
  /\ clock' = "passed"
  /\ UNCHANGED <<outcomeVars, dealerIdx, chipVars, hasActed, handPhase, drawVars,
                 currentTurn, expectedActor, worldVars>>

Escalate ==
  /\ active /\ level < MaxLevel
  /\ level' = level + 1
  /\ UNCHANGED <<outcomeVars, dealerIdx, chipVars, hasActed, handPhase, drawVars,
                 turnVars, status>>

setModuleStatus(newStatus) ==
  /\ status' = newStatus
  /\ UNCHANGED <<outcomeVars, dealerIdx, chipVars, hasActed, handPhase, drawVars,
                 turnVars, level>>

-----------------------------------------------------------------------------
PlayerMoves ==
  \/ \E amount \in 0..(2 * StartingStack) : bet(amount)
  \/ fold
  \/ declareDraw

CoordinatorMoves ==
  \/ submitInitialDealProof
  \/ \E actor \in Seats : submitDrawProof(actor)
  \/ \E winner \in Seats, tie \in BOOLEAN : submitShowdownProof(winner, tie)

Next ==
  \/ initializeGame
  \/ PlayerMoves
  \/ CoordinatorMoves
  \/ claimTimeout
  \/ Expire
  \/ Escalate
  \/ \E newStatus \in {"LIVE", "RETIRED", "DISABLED"} : setModuleStatus(newStatus)

Spec == Init /\ [][Next]_vars

\* A player whose turn it is moves or lets the clock pass; the coordinator
\* answers; somebody (the opponent has the interest, anyone has the right)
\* claims a clock that has passed.  Nobody has to win.
Fairness ==
  /\ WF_vars(PlayerMoves \/ Expire)
  /\ WF_vars(CoordinatorMoves)
  /\ WF_vars(claimTimeout)

FairSpec == Spec /\ Fairness

-----------------------------------------------------------------------------
\* The types of the match.
TypeOK ==
  /\ matchState \in MatchState /\ matchWinner \in Seats \cup {NoSeat}
  /\ isTie \in BOOLEAN
  /\ dealerIdx \in Seats /\ currentTurn \in Seats
  /\ stack \in [Seats -> Nat] /\ currentBet \in [Seats -> Nat]
  /\ hasActed \in [Seats -> BOOLEAN]
  /\ pot \in Nat /\ highestBet \in Nat /\ contributed \in [Seats -> Nat]
  /\ handPhase \in HandPhase
  /\ expectedActor \in Seats \cup {COORDINATOR_ACTOR}
  /\ clock \in {"off", "running", "passed"}
  /\ drawDeclared \in [Seats -> BOOLEAN] /\ drawResolved \in [Seats -> BOOLEAN]
  /\ level \in 0..MaxLevel
  /\ status \in {"LIVE", "RETIRED", "DISABLED"}

\* No chip is made or lost in a match: blinds posted short, raises, folds,
\* timeouts, odd pots and ties only move chips between the stacks and the pot.
ChipsConserved ==
  /\ active => stack[0] + stack[1] + pot = 2 * StartingStack
  /\ matchState = "Completed" => stack[0] + stack[1] = 2 * StartingStack

\* A betting round ends with both players having paid the same, however the
\* blinds were posted: cards are drawn and shown over a pot to which each seat
\* has contributed half, and while bets are open they are all that the seats'
\* contributions to the hand differ by.
PotMatched ==
  active =>
    /\ pot = contributed[0] + contributed[1]
    /\ handPhase \in {"AwaitingInitialDeal", "PreDrawBetting", "PostDrawBetting"} =>
         contributed[0] + currentBet[1] = contributed[1] + currentBet[0]
    /\ handPhase \in {"DrawDeclaration", "DrawProofPending", "ShowdownProofPending"} =>
         /\ contributed[0] = contributed[1]
         /\ \A i \in Seats : currentBet[i] = 0

\* Whoever the hand waits for is whoever may move: a player phase has that
\* player's clock and a seat that has not declared its draw yet, a proof phase
\* has none, and a draw is proved only once both are declared.
TurnAndClock ==
  active =>
    /\ handPhase \in ClockPhases \cup ProofPhases
    /\ handPhase \in ClockPhases => expectedActor = currentTurn /\ clock # "off"
    /\ handPhase \in ProofPhases =>
         expectedActor = COORDINATOR_ACTOR /\ clock = "off"
    /\ handPhase = "DrawDeclaration" => ~drawDeclared[currentTurn]
    /\ handPhase = "DrawProofPending" =>
         /\ \A i \in Seats : drawDeclared[i]
         /\ \E i \in Seats : ~drawResolved[i]

\* A match that is over has one winner, who holds every chip: the split of the
\* prize that getOutcomes has for a tie is never used.
WinnerTakesAll ==
  matchState = "Completed" =>
    /\ ~isTie
    /\ matchWinner \in Seats
    /\ stack[matchWinner] = 2 * StartingStack

\* Nothing moves in a match that is over, not even on a clock that was running
\* when it ended.
MatchFinal ==
  [][ matchState = "Completed" =>
        UNCHANGED <<outcomeVars, chipVars, handPhase>> ]_vars

\* The match is what the controllers above it take it for.
Match == INSTANCE MatchEngine
ImplementsMatch == Match!Spec

\* Every hand whose blinds were posted in order (a big blind not cut below the
\* small one) ends: players who check, call and raise in time run out of
\* chips or of turns, and players who do not are timed out.
BlindsInOrder == currentBet[dealerIdx] <= highestBet

HandsEnd ==
  \A d \in Seats :
    <>[]settlable =>
      (active /\ dealerIdx = d /\ handPhase = "AwaitingInitialDeal" /\ BlindsInOrder
         ~> (matchState = "Completed" \/ dealerIdx # d))

\* docs/concepts/canonical-terminology.md: the timeout deadline is the time
\* "after which the current player-clock phase can be force-resolved".  With
\* somebody who keeps claiming it, a clock that has passed does not stay.
TimeoutsResolve ==
  <>[]settlable => (clock = "passed" /\ active ~> clock # "passed" \/ ~active)
=============================================================================
