---------------------------- MODULE NumberPicker ----------------------------
(***************************************************************************)
(* NumberPickerAdapter over NumberPickerEngine (src/src/controllers and    *)
(* src/src/engines).  play burns the wager, opens the request and, in the  *)
(* same transaction, finalizes it; the finalization insists that the       *)
(* coordinator has already answered.                                       *)
(***************************************************************************)
EXTENDS BaseSoloController

CONSTANTS pickerController, pickerEngine,
          DelayedVRF,  \* whether the coordinator answers in a later transaction
          Selections,  \* selections players submit
          Rolls        \* (randomWord % 100) + 1 for the words drawn

VARIABLE playRequests

NoRequest == [player |-> Nobody, wager |-> 0, selection |-> 0,
              payout |-> 0, isWin |-> FALSE, fulfilled |-> FALSE]

NumberPickerInit == playRequests = [id \in RequestIds |-> NoRequest]

-----------------------------------------------------------------------------
(* Plausible bugs, defined to show that the properties can fail.           *)

\* the payout pays the selected share instead of its inverse
resolvedBackwards(request, roll) ==
  LET isWin == roll > request.selection
  IN  [request EXCEPT !.isWin = isWin, !.fulfilled = TRUE,
         !.payout = IF isWin THEN (request.wager * request.selection) \div 100
                             ELSE 0]

-----------------------------------------------------------------------------
\* The engine's side of a coordinator answer.
resolved(request, roll) ==
  LET isWin == roll > request.selection
  IN  [request EXCEPT !.isWin = isWin, !.fulfilled = TRUE,
         !.payout = IF isWin THEN (request.wager * 100) \div request.selection
                             ELSE 0]

\* _finalize, over the requests as this transaction leaves them and the
\* ledger l it has produced so far.
finalizeRequest(requestId, l) ==
  /\ Catalog!isSettlableController(pickerController)
  /\ markSettled(pickerController, requestId)
  /\ playRequests'[requestId].fulfilled
  /\ mintAndAccrue(pickerController, l, playRequests'[requestId].player,
                   playRequests'[requestId].payout,
                   playRequests'[requestId].wager, requestId)

play(player, wager, selection, expressionTokenId, roll) ==
  LET request == [player |-> player, wager |-> wager, selection |-> selection,
                  payout |-> 0, isWin |-> FALSE, fulfilled |-> FALSE]
  IN
  /\ Catalog!isLaunchableController(pickerController)
  /\ canBurnPlayerWager(pickerController, player, wager)
  /\ Catalog!isAuthorizedControllerForEngine(pickerController, pickerEngine)
  /\ selection \in 1..99
  /\ wager > 0
  /\ requestRandomWords
  /\ playRequests' = [playRequests EXCEPT ![nextRequestId] =
       IF DelayedVRF THEN request ELSE resolved(request, roll)]
  /\ recordExpressionTokenId(pickerController, nextRequestId, expressionTokenId)
  /\ finalizeRequest(nextRequestId, burnPlayerWager(token, player, wager))
  /\ UNCHANGED <<catalogVars, registryVars>>

\* The coordinator's answer, as a transaction of its own.
rawFulfillRandomWords(id, roll) ==
  /\ Catalog!isSettlableEngine(pickerEngine)
  /\ playRequests[id].player # Nobody
  /\ ~playRequests[id].fulfilled
  /\ playRequests' = [playRequests EXCEPT ![id] = resolved(@, roll)]
  /\ UNCHANGED <<protocolVars, soloVars>>

finalize(requestId) ==
  /\ UNCHANGED playRequests
  /\ UNCHANGED <<catalogVars, registryVars, requestCounter,
                 sessionExpressionTokenId>>
  /\ finalizeRequest(requestId, token)

NumberPickerPlay ==
  \E player \in Players, wager \in Wagers, selection \in Selections,
     x \in ExpressionChoices, roll \in Rolls :
    play(player, wager, selection, x, roll)

\* With a coordinator that answers inside the request, play leaves nothing for
\* a later call to act on; only one that answers later has those calls.
NumberPickerLater ==
  \/ \E id \in RequestIds, roll \in Rolls : rawFulfillRandomWords(id, roll)
  \/ \E id \in RequestIds : finalize(id)

-----------------------------------------------------------------------------
sessions == {id \in RequestIds : playRequests[id].player # Nobody}
settledSessions == {id \in RequestIds : sessionSettled[pickerController][id]}

\* A pick is paid once, when it is answered, and what it was played for, what it
\* won and that it is settled are final, whoever asks the coordinator next.
PicksFinal ==
  [][ \A id \in sessions :
        /\ sessionSettled[pickerController][id]
             => sessionSettled'[pickerController][id]
        /\ playRequests[id].fulfilled => playRequests'[id] = playRequests[id]
        /\ sessionSettled'[pickerController][id] => playRequests[id].fulfilled
    ]_<<playRequests, sessionSettled>>

\* A winning round never returns less than its wager and a losing one returns
\* nothing; a higher selection, which wins less often here, never pays more
\* on the same wager than a lower one.
PayoutsOrdered ==
  \A id, jd \in sessions :
    LET r == playRequests[id]
        s == playRequests[jd]
    IN  /\ (r.isWin => r.payout >= r.wager) /\ (~r.isWin => r.payout = 0)
        /\ r.isWin /\ s.isWin /\ r.wager = s.wager
             /\ r.selection <= s.selection => r.payout >= s.payout

\* What play asks of the module, a player, the coordinator's bound and the
\* expression.
CanPlay ==
  /\ Catalog!isLaunchableController(pickerController)
  /\ requestCounter < MaxRequests
  /\ \E p \in Players, wager \in Wagers :
       wager > 0 /\ canBurnPlayerWager(pickerController, p, wager)
  /\ \E x \in ExpressionChoices :
       Registry!isExpressionCompatible(
         Catalog!getModuleByController(pickerController).engineType, x)
=============================================================================
