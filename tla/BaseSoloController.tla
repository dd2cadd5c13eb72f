------------------------- MODULE BaseSoloController -------------------------
(***************************************************************************)
(* What the single-player controllers share                                *)
(* (src/src/controllers/BaseSoloController.sol): which sessions of a       *)
(* controller are settled, which expression each names, and the settlement *)
(* a controller makes for a completed session.  Session ids are the request *)
(* ids of the randomness coordinator, which counts them; the coordinator is *)
(* external: the mock answers in the requesting transaction, a manual or a *)
(* real one in a later one.                                                *)
(***************************************************************************)
EXTENDS ProtocolSettlement

CONSTANTS MaxRequests,  \* bound: randomness requests made in one behaviour
          Wagers,       \* wagers players try
          SoloControllers

ASSUME SoloAssumption == MaxRequests \in Nat /\ Wagers \subseteq Nat

VARIABLES requestCounter, sessionSettled, sessionExpressionTokenId

soloVars == <<requestCounter, sessionSettled, sessionExpressionTokenId>>

RequestIds == 1..MaxRequests

\* Expression ids a player may name: the known ones and one never minted.
ExpressionChoices == 1..MaxExpressions

SoloInit ==
  /\ requestCounter = 0
  /\ sessionSettled = [c \in SoloControllers |-> [id \in RequestIds |-> FALSE]]
  /\ sessionExpressionTokenId =
       [c \in SoloControllers |-> [id \in RequestIds |-> 0]]

\* The id the coordinator gives the next request, which engines read ahead.
nextRequestId == requestCounter + 1

requestRandomWords ==
  /\ requestCounter < MaxRequests
  /\ requestCounter' = nextRequestId

-----------------------------------------------------------------------------
(* Plausible bugs, defined to show that the properties can fail.           *)

\* the developer is credited for the payout instead of the burned wager
mintAndAccrueOnPayout(c, l, player, payout, totalBurned, sessionId) ==
  /\ canMintPlayerReward(c, l, payout)
  /\ token' = mintPlayerReward(l, player, payout)
  /\ accrueDeveloperForExpression(c, sessionExpressionTokenId'[c][sessionId],
                                  payout)

\* the player is not paid when the round returns no more than the wager
mintAndAccrueWinsOnly(c, l, player, payout, totalBurned, sessionId) ==
  /\ canMintPlayerReward(c, l, payout)
  /\ token' = IF payout > totalBurned
                THEN mintPlayerReward(l, player, payout) ELSE l
  /\ accrueDeveloperForExpression(c, sessionExpressionTokenId'[c][sessionId],
                                  totalBurned)

-----------------------------------------------------------------------------
markSettled(c, sessionId) ==
  /\ ~sessionSettled[c][sessionId]
  /\ sessionSettled' = [sessionSettled EXCEPT ![c][sessionId] = TRUE]

recordExpressionTokenId(c, sessionId, expressionTokenId) ==
  sessionExpressionTokenId' =
    [sessionExpressionTokenId EXCEPT ![c][sessionId] = expressionTokenId]

\* Pays the player out of ledger l and credits the developer of the session's
\* expression, read after the transaction may have recorded it.
mintAndAccrue(c, l, player, payout, totalBurned, sessionId) ==
  /\ canMintPlayerReward(c, l, payout)
  /\ token' = mintPlayerReward(l, player, payout)
  /\ accrueDeveloperForExpression(c, sessionExpressionTokenId'[c][sessionId],
                                  totalBurned)
=============================================================================
