---------------------------- MODULE SuperBaccarat ----------------------------
(***************************************************************************)
(* Solo baccarat: SuperBaccaratController over SuperBaccaratEngine         *)
(* (src/src/controllers and src/src/engines).  play burns the wager and    *)
(* asks for randomness; the coordinator's answer fixes the payout; settle, *)
(* callable by anyone, pays it.  The answer is a step of its own; the mock  *)
(* coordinator's, given inside play, is the case where it is the next one. *)
(*                                                                         *)
(* The cards are abstracted to the outcome they decide; BaccaratRules has  *)
(* the round, which can have any of the three.  Multipliers are fractions  *)
(* of Wad; the contract's are 1, 2.0276..., 1.9730... and 10.509... times  *)
(* 1e18, rounded down after the product.                                   *)
(***************************************************************************)
EXTENDS BaseSoloController

CONSTANTS baccaratController, baccaratEngine,
          Sides,  \* the sides players bet on
          Wad, PLAYER_PAYOUT_WAD, BANKER_PAYOUT_WAD, TIE_PAYOUT_WAD

VARIABLE playRequests

BaccaratOutcome == {"PlayerWin", "BankerWin", "Tie"}

NoRequest == [player |-> Nobody, wager |-> 0, side |-> "Player",
              payout |-> 0, fulfilled |-> FALSE]

payoutMultiplierWad(side) ==
  CASE side = "Player" -> PLAYER_PAYOUT_WAD
    [] side = "Banker" -> BANKER_PAYOUT_WAD
    [] side = "Tie" -> TIE_PAYOUT_WAD

sideWins(side, outcome) ==
  <<side, outcome>> \in {<<"Player", "PlayerWin">>, <<"Banker", "BankerWin">>,
                         <<"Tie", "Tie">>}

computePayout(wager, side, outcome) ==
  CASE sideWins(side, outcome) -> (wager * payoutMultiplierWad(side)) \div Wad
    [] outcome = "Tie" /\ side # "Tie" -> wager
    [] OTHER -> 0

SuperBaccaratInit == playRequests = [id \in RequestIds |-> NoRequest]

\* The engine's side of a coordinator answer.
resolved(request, outcome) ==
  [request EXCEPT !.payout = computePayout(request.wager, request.side, outcome),
                  !.fulfilled = TRUE]

-----------------------------------------------------------------------------
(* Plausible bugs, defined to show that the properties can fail.           *)

\* a second answer to the same request draws a new round
rawFulfillRandomWordsAgain(id, outcome) ==
  /\ Catalog!isSettlableEngine(baccaratEngine)
  /\ playRequests[id].player # Nobody
  /\ playRequests' = [playRequests EXCEPT ![id] = resolved(@, outcome)]
  /\ UNCHANGED <<protocolVars, soloVars>>

\* settling is only possible while the module is launchable
settleWhileLiveOnly(sessionId) ==
  /\ Catalog!isLaunchableController(baccaratController)
  /\ playRequests[sessionId].fulfilled
  /\ markSettled(baccaratController, sessionId)
  /\ UNCHANGED <<catalogVars, registryVars, requestCounter,
                 sessionExpressionTokenId, playRequests>>
  /\ mintAndAccrue(baccaratController, token, playRequests[sessionId].player,
                   playRequests[sessionId].payout,
                   playRequests[sessionId].wager, sessionId)

-----------------------------------------------------------------------------
\* play by player: the controller burns, the engine opens the request.
play(player, wager, side, expressionTokenId) ==
  /\ Catalog!isLaunchableController(baccaratController)
  /\ canBurnPlayerWager(baccaratController, player, wager)
  /\ Catalog!isAuthorizedControllerForEngine(baccaratController, baccaratEngine)
  /\ wager > 0
  /\ token' = burnPlayerWager(token, player, wager)
  /\ requestRandomWords
  /\ playRequests' = [playRequests EXCEPT ![nextRequestId] =
       [player |-> player, wager |-> wager, side |-> side,
        payout |-> 0, fulfilled |-> FALSE]]
  /\ recordExpressionTokenId(baccaratController, nextRequestId, expressionTokenId)
  /\ UNCHANGED <<catalogVars, registryVars, rewardsVars, sessionSettled>>

\* The coordinator's answer, as a transaction of its own.
rawFulfillRandomWords(id, outcome) ==
  /\ Catalog!isSettlableEngine(baccaratEngine)
  /\ playRequests[id].player # Nobody
  /\ ~playRequests[id].fulfilled
  /\ playRequests' = [playRequests EXCEPT ![id] = resolved(@, outcome)]
  /\ UNCHANGED <<protocolVars, soloVars>>

settle(sessionId) ==
  /\ Catalog!isSettlableController(baccaratController)
  /\ playRequests[sessionId].fulfilled
  /\ markSettled(baccaratController, sessionId)
  /\ UNCHANGED <<catalogVars, registryVars, requestCounter,
                 sessionExpressionTokenId, playRequests>>
  /\ mintAndAccrue(baccaratController, token, playRequests[sessionId].player,
                   playRequests[sessionId].payout,
                   playRequests[sessionId].wager, sessionId)

SuperBaccaratPlay ==
  \E player \in Players, wager \in Wagers, side \in Sides,
     x \in ExpressionChoices :
    play(player, wager, side, x)

SuperBaccaratNext ==
  \/ SuperBaccaratPlay
  \/ \E id \in RequestIds, outcome \in BaccaratOutcome :
       rawFulfillRandomWords(id, outcome)
  \/ \E id \in RequestIds : settle(id)

-----------------------------------------------------------------------------
sessions == {id \in RequestIds : playRequests[id].player # Nobody}
settledSessions == {id \in RequestIds : sessionSettled[baccaratController][id]}

\* A settled session is completed, and its terms are final: neither a second
\* answer of the coordinator nor another call changes what was paid.
RoundsFinal ==
  [][ \A id \in sessions :
        /\ sessionSettled[baccaratController][id]
             => sessionSettled'[baccaratController][id]
        /\ playRequests[id].fulfilled => playRequests'[id] = playRequests[id]
        /\ sessionSettled'[baccaratController][id] => playRequests[id].fulfilled
    ]_<<playRequests, sessionSettled>>

\* What settle asks of the session's module and expression.
StaysSettlable(id) ==
  /\ Catalog!isSettlableController(baccaratController)
  /\ Registry!isExpressionCompatible(
       Catalog!getModuleByController(baccaratController).engineType,
       sessionExpressionTokenId[baccaratController][id])
=============================================================================
