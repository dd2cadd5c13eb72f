----------------------------- MODULE Blackjack -----------------------------
(***************************************************************************)
(* Blackjack sessions (src/src/engines/BlackjackEngine.sol, src/src/       *)
(* controllers/BlackjackController.sol) between three parties: the player, *)
(* the clock, and the coordinator who proves each step off chain and       *)
(* submits the proof later, twice, or not in the order of proving.         *)
(*                                                                         *)
(* The engine keeps what the last proof says in the same struct as what it *)
(* keeps itself; here they are "view" and "session".  The module is live   *)
(* and the expression compatible throughout: the gates and the ledger are  *)
(* those of the other games and are modelled there.  The verifiers accept  *)
(* a proof exactly for the public inputs it was made of.                   *)
(***************************************************************************)
EXTENDS BlackjackProof

CONSTANTS
  Sessions,         \* session ids; bounds the model
  Wager,            \* what startHand burns
  InsuranceStakes,  \* amounts tried
  InitialBalance,
  Payouts,          \* what a proof may pay
  Deals,            \* the cards of a session: the player's two, the dealer's
  Draws,            \* cards a hand may receive
  SpareProofs       \* proofs the coordinator makes beyond one per step

VARIABLES
  session,   \* the engine's sessions, without
  view,      \* the public state the last proof reported
  balance,   \* the player's SCU
  settled,   \* sessions the controller has settled
  payloads,  \* the coordinator's proofs, each of which may be sent any time
  accepted   \* history: the payloads the engine has accepted

vars == <<session, view, balance, settled, payloads, accepted>>

ASSUME BlackjackAssumption ==
  /\ IsFiniteSet(Sessions)
  /\ Wager \in Nat /\ InitialBalance \in Nat /\ SpareProofs \in Nat
  /\ InsuranceStakes \subseteq Nat /\ Payouts \subseteq Nat
  /\ \A deal \in Deals : deal.player \in Cards \X Cards /\ deal.dealer \in Seq(Cards)
  /\ Draws \subseteq Cards
  /\ None \notin Int /\ None \notin PlayerActions
  /\ None \notin [HandIds -> Nat] /\ None \notin Seq(Cards)

-----------------------------------------------------------------------------
(* Sessions                                                                *)

NoSession ==
  [wager |-> 0, totalBurned |-> 0, deadline |-> "none", proofSequence |-> 0,
   deckCommitment |-> None, playerStateCommitment |-> None,
   dealerStateCommitment |-> None, playerKeyCommitment |-> None,
   pendingAction |-> None, pendingAdditionalBurn |-> 0]

emptyHand ==
  [wager |-> 0, value |-> 0, status |-> HAND_STATUS.NONE, allowedActionMask |-> {},
   cardCount |-> 0, cardStartIndex |-> 0, payoutKind |-> HAND_PAYOUT.NONE]

NoView ==
  [phase |-> PHASE.INACTIVE, decisionType |-> DECISION.NONE, dealerRevealMask |-> {},
   handCount |-> 0, activeHandIndex |-> 0, peekAvailable |-> FALSE,
   peekResolved |-> FALSE, dealerHasBlackjack |-> FALSE,
   insuranceAvailable |-> FALSE, insuranceStatus |-> INSURANCE.NONE,
   surrenderAvailable |-> FALSE, surrenderStatus |-> SURRENDER.NONE, dealerUpValue |-> 0,
   dealerFinalValue |-> 0, payout |-> 0, insuranceStake |-> 0,
   insurancePayout |-> 0, hands |-> each(LAMBDA i : emptyHand),
   playerCards |-> <<>>, dealerCards |-> <<>>]

at(s, phase) == view[s].phase = phase
opened(s) == ~at(s, PHASE.INACTIVE)

\* block.timestamp <= deadlineAt; no deadline is a deadline of 0
inTime(s) == session[s].deadline = "open"

\* the hand the player is to act on
activeHand(s) == view[s].hands[view[s].activeHandIndex + 1]

Init ==
  /\ session = [s \in Sessions |-> NoSession]
  /\ view = [s \in Sessions |-> NoView]
  /\ balance = InitialBalance
  /\ settled = {}
  /\ payloads = [s \in Sessions |-> {}]
  /\ accepted = [s \in Sessions |-> <<>>]

-----------------------------------------------------------------------------
(* The controller's startHand and the engine's openSession                 *)

startHand(s) ==
  /\ ~opened(s) /\ \A t \in Sessions : t < s => opened(t)
  /\ balance >= Wager
  /\ balance' = balance - Wager
  /\ session' = [session EXCEPT ![s] =
       [NoSession EXCEPT !.wager = Wager, !.totalBurned = Wager,
                         !.playerKeyCommitment = playerKey(s, s)]]
  /\ view' = [view EXCEPT ![s] =
       [NoView EXCEPT !.phase = PHASE.AWAITING_INITIAL_DEAL, !.handCount = 1,
                      !.hands[1].wager = Wager]]
  /\ UNCHANGED <<settled, payloads, accepted>>

-----------------------------------------------------------------------------
(* Proofs                                                                  *)

\* the engine's own padding of the cards of a public state
fillSharedState(state) ==
  [state EXCEPT !.playerCards = padArray(@, MAX_PLAYER_CARDS),
                !.dealerCards = padArray(@, MAX_DEALER_CARDS)]

\* public inputs every proof has
sharedInputs(s, p) ==
  [sessionId |-> s, playerStateCommitment |-> p.playerStateCommitment,
   dealerStateCommitment |-> p.dealerStateCommitment,
   playerKeyCommitment |-> session[s].playerKeyCommitment,
   state |-> fillSharedState(p.publicState), deckCommitment |-> p.deckCommitment,
   proofSequence |-> None, pendingAction |-> None, oldPlayerStateCommitment |-> None]

buildInitialDealInputs(s, p) == sharedInputs(s, p)

\* later proofs are of the committed deck and the next in the sequence
buildPeekInputs(s, p) ==
  [sharedInputs(s, p) EXCEPT !.deckCommitment = session[s].deckCommitment,
                             !.proofSequence = session[s].proofSequence + 1]

buildActionInputs(s, p) ==
  [buildPeekInputs(s, p) EXCEPT
     !.pendingAction = session[s].pendingAction,
     !.oldPlayerStateCommitment = session[s].playerStateCommitment]

buildShowdownInputs(s, p) == buildPeekInputs(s, p)

\* the verifier of a phase accepts the proofs of its circuit and inputs
verifies(p, phase, inputs) ==
  p.proof = [circuit |-> blackjackCircuitForPhase[phase], inputs |-> inputs]

\* phases the player has a deadline in
Windows == {PHASE.AWAITING_PREPLAY_DECISION, PHASE.AWAITING_POSTPEEK_DECISION,
            PHASE.AWAITING_PLAYER_ACTION}

deadlineOf(phase) == IF phase \in Windows THEN "open" ELSE "none"

\* the commitments of an accepted proof
committed(ses, p) ==
  [ses EXCEPT !.playerStateCommitment = p.playerStateCommitment,
              !.dealerStateCommitment = p.dealerStateCommitment,
              !.deadline = deadlineOf(p.publicState.phase)]

acted(ses) == [ses EXCEPT !.pendingAction = None, !.pendingAdditionalBurn = 0]

applyPublicState(s, p, ses) ==
  /\ session' = [session EXCEPT ![s] = ses]
  /\ view' = [view EXCEPT ![s] = p.publicState]
  /\ accepted' = [accepted EXCEPT ![s] = Append(@, p)]
  /\ UNCHANGED <<balance, settled, payloads>>

submitInitialDealProof(s, p) ==
  /\ at(s, PHASE.AWAITING_INITIAL_DEAL) /\ view[s].handCount = 1
  /\ verifies(p, "initial-deal", buildInitialDealInputs(s, p))
  /\ applyPublicState(s, p,
       [committed(session[s], p) EXCEPT !.proofSequence = 1,
                                        !.deckCommitment = p.deckCommitment])

submitPeekProof(s, p) ==
  /\ at(s, PHASE.AWAITING_PEEK_RESOLUTION)
  /\ verifies(p, "peek", buildPeekInputs(s, p))
  /\ applyPublicState(s, p, [committed(session[s], p) EXCEPT !.proofSequence = @ + 1])

-----------------------------------------------------------------------------
(* Plausible bugs, defined to show that the properties can fail.           *)

\* the sequence number is not advanced, so a proof can be sent again
submitActionProofAgain(s, p) ==
  /\ at(s, PHASE.AWAITING_COORDINATOR_ACTION) /\ session[s].pendingAction # None
  /\ verifies(p, "action", buildActionInputs(s, p))
  /\ applyPublicState(s, p, acted(committed(session[s], p)))

\* a double or a split burns without being counted
declareUncounted(s, action, additionalBurn) ==
  session' = [session EXCEPT ![s].pendingAction = action,
                             ![s].pendingAdditionalBurn = additionalBurn,
                             ![s].deadline = "none"]

-----------------------------------------------------------------------------
submitActionProof(s, p) ==
  /\ at(s, PHASE.AWAITING_COORDINATOR_ACTION) /\ session[s].pendingAction # None
  /\ verifies(p, "action", buildActionInputs(s, p))
  /\ applyPublicState(s, p,
       acted([committed(session[s], p) EXCEPT !.proofSequence = @ + 1]))

\* a stand, also a forced one, may be followed by the showdown directly
submitShowdownProof(s, p) ==
  /\ at(s, PHASE.AWAITING_COORDINATOR_ACTION)
  /\ session[s].pendingAction \in {None, "STAND"}
  /\ verifies(p, "showdown", buildShowdownInputs(s, p))
  /\ applyPublicState(s, p,
       acted([committed(session[s], p) EXCEPT !.proofSequence = @ + 1]))

submitProof(s) ==
  \E p \in payloads[s] :
    \/ submitInitialDealProof(s, p) \/ submitPeekProof(s, p)
    \/ submitActionProof(s, p) \/ submitShowdownProof(s, p)

-----------------------------------------------------------------------------
(* The player's decisions, each a call of the controller that burns what   *)
(* it costs and forwards to the engine                                     *)

\* a call that fails in the engine burns nothing
burn(amount) == balance >= amount /\ balance' = balance - amount

requiredAdditionalBurn(s, action) ==
  LET hand == activeHand(s) IN
  IF /\ action \in hand.allowedActionMask
     /\ action = "DOUBLE" \/ (action = "SPLIT" /\ view[s].handCount < 4)
    THEN hand.wager ELSE 0

declared(s, action, additionalBurn) ==
  session' = [session EXCEPT ![s].totalBurned = @ + additionalBurn,
                             ![s].pendingAction = action,
                             ![s].pendingAdditionalBurn = additionalBurn,
                             ![s].deadline = "none"]

declareAction(s, action) ==
  /\ at(s, PHASE.AWAITING_PLAYER_ACTION) /\ inTime(s)
  /\ session[s].pendingAction = None
  /\ action \in activeHand(s).allowedActionMask
  /\ burn(requiredAdditionalBurn(s, action))
  /\ declared(s, action, requiredAdditionalBurn(s, action))
  /\ view' = [view EXCEPT ![s].phase = PHASE.AWAITING_COORDINATOR_ACTION]
  /\ UNCHANGED <<settled, payloads, accepted>>

insurance(s, amount) ==
  /\ at(s, PHASE.AWAITING_PREPLAY_DECISION) /\ view[s].decisionType = DECISION.INSURANCE
  /\ inTime(s)
  /\ amount > 0 /\ amount <= session[s].wager \div 2
  /\ burn(amount)
  /\ session' = [session EXCEPT ![s].totalBurned = @ + amount, ![s].deadline = "none"]
  /\ view' = [view EXCEPT ![s].insuranceStake = amount,
                          ![s].insuranceStatus = INSURANCE.TAKEN,
                          ![s].insuranceAvailable = FALSE,
                          ![s].phase = PHASE.AWAITING_PEEK_RESOLUTION]
  /\ UNCHANGED <<settled, payloads, accepted>>

forfeit(hand) ==
  [hand EXCEPT !.status = HAND_STATUS.SURRENDERED, !.allowedActionMask = {},
               !.payoutKind = HAND_PAYOUT.SURRENDER]

surrendered(v) ==
  LET active == v.activeHandIndex + 1 IN
  [v EXCEPT !.hands[active] = forfeit(v.hands[active]),
            !.surrenderAvailable = FALSE, !.surrenderStatus = SURRENDER.TAKEN,
            !.decisionType = DECISION.NONE,
            !.payout = v.hands[active].wager \div 2 + v.insurancePayout,
            !.phase = PHASE.COMPLETED]

surrender(s) ==
  /\ at(s, PHASE.AWAITING_PREPLAY_DECISION) \/ at(s, PHASE.AWAITING_POSTPEEK_DECISION)
  /\ inTime(s)
  /\ view[s].surrenderAvailable /\ ~view[s].dealerHasBlackjack
  /\ view' = [view EXCEPT ![s] = surrendered(view[s])]
  /\ session' = [session EXCEPT ![s].deadline = "none"]
  /\ UNCHANGED <<balance, settled, payloads, accepted>>

-----------------------------------------------------------------------------
(* Decisions not taken: by continuePlay or by the clock                    *)

declined(status, STATUS) == IF status = STATUS.AVAILABLE THEN STATUS.DECLINED ELSE status

\* a window without a decision has no way on: the call reverts
advanceDecisionWindow(s) ==
  \/ /\ at(s, PHASE.AWAITING_PREPLAY_DECISION) /\ view[s].decisionType = DECISION.INSURANCE
     /\ view' = [view EXCEPT ![s].insuranceStatus = declined(@, INSURANCE),
                             ![s].insuranceAvailable = FALSE,
                             ![s].phase = PHASE.AWAITING_PEEK_RESOLUTION]
     /\ session' = [session EXCEPT ![s].deadline = "none"]
  \/ /\ at(s, PHASE.AWAITING_PREPLAY_DECISION)
     /\ view[s].decisionType = DECISION.EARLY_SURRENDER
     /\ view' = [view EXCEPT ![s].surrenderStatus = declined(@, SURRENDER),
                             ![s].surrenderAvailable = FALSE,
                             ![s].phase = PHASE.AWAITING_PEEK_RESOLUTION]
     /\ session' = [session EXCEPT ![s].deadline = "none"]
  \/ /\ at(s, PHASE.AWAITING_POSTPEEK_DECISION)
     /\ view' = [view EXCEPT ![s].surrenderStatus = declined(@, SURRENDER),
                             ![s].surrenderAvailable = FALSE,
                             ![s].decisionType = DECISION.NONE,
                             ![s].phase = PHASE.AWAITING_PLAYER_ACTION]
     /\ session' = [session EXCEPT ![s].deadline = "open"]

continuePlay(s) ==
  /\ inTime(s)
  /\ advanceDecisionWindow(s)
  /\ UNCHANGED <<balance, settled, payloads, accepted>>

\* an expired turn is a stand
claimPlayerTimeout(s) ==
  /\ view[s].phase \in Windows /\ ~inTime(s)
  /\ IF at(s, PHASE.AWAITING_PLAYER_ACTION)
       THEN /\ session[s].pendingAction = None
            /\ session' = [session EXCEPT ![s].pendingAction = "STAND",
                                          ![s].pendingAdditionalBurn = 0,
                                          ![s].deadline = "none"]
            /\ view' = [view EXCEPT ![s].phase = PHASE.AWAITING_COORDINATOR_ACTION]
       ELSE advanceDecisionWindow(s)
  /\ UNCHANGED <<balance, settled, payloads, accepted>>

\* the deadline passes
Tick(s) ==
  /\ inTime(s)
  /\ session' = [session EXCEPT ![s].deadline = "passed"]
  /\ UNCHANGED <<view, balance, settled, payloads, accepted>>

settle(s) ==
  /\ s \notin settled
  /\ at(s, PHASE.COMPLETED)
  /\ settled' = settled \cup {s}
  /\ balance' = balance + view[s].payout
  /\ UNCHANGED <<session, view, payloads, accepted>>

-----------------------------------------------------------------------------
(* The coordinator: what happens at the table, and the witness it makes of *)
(* it.  It reads the session when it proves, states the phase the proof    *)
(* leads to and the wagers, and leaves the rest to the prover, as the      *)
(* smoke fixtures do.                                                      *)

table(s) == Last(accepted[s]).witness

counts(s) == each(LAMBDA i : view[s].hands[i].cardCount)
wagers(s) == each(LAMBDA i : view[s].hands[i].wager)
handsOf(s) == partitionHands(table(s).playerCards, counts(s))

\* a proof of the next step can still be made
mayProve(s) == Cardinality(payloads[s]) <= session[s].proofSequence + SpareProofs

prove(s, phase, witness) ==
  /\ mayProve(s)
  /\ payloads' = [payloads EXCEPT ![s] = @ \cup {generateBlackjackPayload(phase, witness)}]
  /\ UNCHANGED <<session, view, balance, settled, accepted>>

ProveInitialDeal(s) ==
  /\ at(s, PHASE.AWAITING_INITIAL_DEAL)
  /\ \E deal \in Deals :
       prove(s, "initial-deal",
         [sessionId |-> s, baseWager |-> session[s].wager,
          playerCards |-> deal.player, dealerCards |-> deal.dealer,
          oldPlayerCards |-> <<>>, oldHandCardCounts |-> four(0),
          playerKey |-> s, deckCommitment |-> None, proofSequence |-> None,
          pendingAction |-> None, state |-> Unsaid])

\* a witness of a later step in which hands and wagers are these
witness(s, hands, handWagers, phase) ==
  [sessionId |-> s, baseWager |-> session[s].wager,
   playerCards |-> FlattenSeq(hands), dealerCards |-> table(s).dealerCards,
   oldPlayerCards |-> table(s).playerCards, oldHandCardCounts |-> counts(s),
   playerKey |-> s, deckCommitment |-> session[s].deckCommitment,
   proofSequence |-> session[s].proofSequence + 1,
   pendingAction |-> session[s].pendingAction,
   state |-> [Unsaid EXCEPT
     !.phase = phase, !.handWagers = handWagers,
     !.handCardCounts = each(LAMBDA i : Len(hands[i])),
     !.activeHandIndex = view[s].activeHandIndex,
     !.insuranceStake = view[s].insuranceStake,
     !.insuranceStatus = view[s].insuranceStatus]]

\* a dealer's blackjack ends the hand, an ace allows a late surrender
ProvePeek(s) ==
  LET blackjack == isNaturalBlackjack(SubSeq(table(s).dealerCards, 1, 2))
      phase == IF blackjack THEN PHASE.COMPLETED
               ELSE IF cardMeta(upCard(table(s).dealerCards)).isAce
                 THEN PHASE.AWAITING_POSTPEEK_DECISION
                 ELSE PHASE.AWAITING_PLAYER_ACTION
      insured == CASE view[s].insuranceStatus # INSURANCE.TAKEN -> view[s].insuranceStatus
                   [] blackjack -> INSURANCE.WON
                   [] OTHER -> INSURANCE.LOST IN
  /\ at(s, PHASE.AWAITING_PEEK_RESOLUTION)
  /\ \E payout \in (IF blackjack THEN Payouts ELSE {0}) :
       prove(s, "peek",
         [witness(s, handsOf(s), wagers(s), phase) EXCEPT
            !.state.insuranceStatus = insured, !.state.payout = payout])

\* hand a receives a card; hand a is split and both hands receive one
dealTo(hands, a, card) == [hands EXCEPT ![a] = Append(@, card)]

splitHand(hands, a, card1, card2) ==
  each(LAMBDA i :
     CASE i < a     -> hands[i]
       [] i = a     -> <<hands[a][1], card1>>
       [] i = a + 1 -> <<hands[a][2], card2>>
       [] OTHER     -> hands[i - 1])

\* what an action makes of the hands and wagers, and whether the hand is done
resolutions(s, a) ==
  LET hands == handsOf(s)
      hit(card) == dealTo(hands, a, card) IN
  CASE session[s].pendingAction = "HIT" ->
         {[hands |-> hit(card), wagers |-> wagers(s),
           done |-> scoreHand(hit(card)[a]) >= 21] : card \in Draws}
    [] session[s].pendingAction = "STAND" ->
         {[hands |-> hands, wagers |-> wagers(s), done |-> TRUE]}
    [] session[s].pendingAction = "DOUBLE" ->
         {[hands |-> hit(card), wagers |-> [wagers(s) EXCEPT ![a] = 2 * @],
           done |-> TRUE] : card \in Draws}
    [] session[s].pendingAction = "SPLIT" ->
         {[hands |-> splitHand(hands, a, cards[1], cards[2]),
           wagers |-> each(LAMBDA i : wagers(s)[IF i <= a THEN i ELSE i - 1]),
           done |-> FALSE] : cards \in Draws \X Draws}

nextHand(hands, a) == a < 4 /\ hands[a + 1] # <<>>

\* the next hand is played, or the showdown follows
ProveAction(s) ==
  LET a == view[s].activeHandIndex + 1 IN
  /\ at(s, PHASE.AWAITING_COORDINATOR_ACTION) /\ session[s].pendingAction # None
  /\ \E r \in resolutions(s, a) :
       LET over == r.done /\ ~nextHand(r.hands, a)
           phase == IF over THEN PHASE.AWAITING_COORDINATOR_ACTION
                            ELSE PHASE.AWAITING_PLAYER_ACTION IN
       prove(s, "action",
         [witness(s, r.hands, r.wagers, phase) EXCEPT
            !.state.activeHandIndex = IF r.done /\ ~over THEN @ + 1 ELSE @])

ProveShowdown(s) ==
  /\ at(s, PHASE.AWAITING_COORDINATOR_ACTION)
  /\ \/ session[s].pendingAction = None
     \/ /\ session[s].pendingAction = "STAND"
        /\ ~nextHand(handsOf(s), view[s].activeHandIndex + 1)
  /\ \E payout \in Payouts :
       prove(s, "showdown",
         [witness(s, handsOf(s), wagers(s), PHASE.COMPLETED) EXCEPT
            !.state.payout = payout])

Coordinate(s) ==
  \/ ProveInitialDeal(s) \/ ProvePeek(s) \/ ProveAction(s) \/ ProveShowdown(s)
  \/ submitProof(s)

-----------------------------------------------------------------------------
Play(s) ==
  \/ startHand(s)
  \/ \E action \in PlayerActions : declareAction(s, action)
  \/ \E amount \in InsuranceStakes : insurance(s, amount)
  \/ surrender(s) \/ continuePlay(s)

Next ==
  \E s \in Sessions :
    Play(s) \/ Coordinate(s) \/ Tick(s) \/ claimPlayerTimeout(s) \/ settle(s)

\* Coordinate(s) is enabled exactly when the session waits for a proof
awaitsProof(s) == view[s].phase \in {PHASE.AWAITING_INITIAL_DEAL,
  PHASE.AWAITING_PEEK_RESOLUTION, PHASE.AWAITING_COORDINATOR_ACTION}

\* The coordinator serves its sessions (weak fairness of Coordinate(s)), time
\* passes, and someone claims an expired turn and settles; the player may
\* leave.
Fairness ==
  \A s \in Sessions :
    /\ []<>~awaitsProof(s) \/ []<><<Coordinate(s)>>_vars
    /\ WF_vars(Tick(s))
    /\ WF_vars(claimPlayerTimeout(s))
    /\ WF_vars(settle(s))

Spec == Init /\ [][Next]_vars /\ Fairness

-----------------------------------------------------------------------------
(* Properties                                                              *)

\* Every accepted proof is the next in its session's sequence, of the deck
\* the first one committed to, and an action continues from the cards of the
\* proof accepted before it: no proof counts twice or out of turn
\* (BlackjackEngine.sol:707).
ProofChain ==
  \A s \in Sessions :
    /\ session[s].proofSequence = Len(accepted[s])
    /\ \A n \in 2..Len(accepted[s]) :
         /\ accepted[s][n].proof.inputs.proofSequence = n
         /\ accepted[s][n].proof.inputs.deckCommitment = accepted[s][1].deckCommitment
         /\ accepted[s][n].phase = "action" =>
              accepted[s][n].proof.inputs.oldPlayerStateCommitment =
                accepted[s][n - 1].playerStateCommitment

\* The player has paid for exactly what is at stake: what a session has
\* burned are the wagers of its hands, the insurance and what an undecided
\* double or split will add, and the balance has moved by nothing else than
\* that and the payouts settled.
StakesExplained ==
  /\ \A s \in Sessions :
       session[s].totalBurned =
         SumFunction(wagers(s)) + view[s].insuranceStake + session[s].pendingAdditionalBurn
  /\ balance = InitialBalance - SumFunction([s \in Sessions |-> session[s].totalBurned])
                 + SumFunction([s \in settled |-> view[s].payout])

\* The best total of the cards: the highest that is not over 21, the lowest
\* if all are.
totals(cards) ==
  LET hard == SumFunction([i \in DOMAIN cards |->
                IF cardMeta(cards[i]).isAce THEN 1 ELSE cardValue(cards[i])])
      aces == Cardinality({i \in DOMAIN cards : cardMeta(cards[i]).isAce})
  IN {hard + 10 * n : n \in 0..aces}
bestTotal(cards) ==
  LET fair == {t \in totals(cards) : t <= 21} IN
  IF fair = {} THEN Min(totals(cards)) ELSE Max(fair)

\* a 52 among cards up to 52 is taken for the empty card
misread(cards) == \E i \in DOMAIN cards : cards[i] = 52 /\ legacyEmptySentinel(cards)

\* the cards of hand i
held(v, cards, i) ==
  LET start == v.hands[i].cardStartIndex IN
  SubSeq(cards, start + 1, start + v.hands[i].cardCount)

scored(v, w) ==
  /\ \/ misread(w.playerCards)
     \/ \A i \in HandIds : v.hands[i].value = bestTotal(held(v, w.playerCards, i))
  /\ misread(w.dealerCards) \/ v.dealerFinalValue = bestTotal(w.dealerCards)

\* The value reported of each hand is the best total of the cards dealt to
\* it, and the dealer's that of the dealer's cards, unless a 52 among cards
\* up to 52 was taken for the empty card (blackjack-proof.mjs:803).
HandsScored ==
  \A s \in Sessions : accepted[s] # <<>> => scored(view[s], table(s))

\* A session that was opened is settled, whatever the player does or leaves
\* undone: there is no window without a way on.
SessionsComplete ==
  \A s \in Sessions : opened(s) ~> s \in settled
=============================================================================
