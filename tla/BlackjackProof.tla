--------------------------- MODULE BlackjackProof ---------------------------
(***************************************************************************)
(* What the coordinator's prover makes of a witness                        *)
(* (src/zk/scripts/lib/blackjack-proof.mjs): the public state it fills in  *)
(* where the witness says nothing, the commitments, and the payload for    *)
(* the engine.  All operators are pure.                                    *)
(*                                                                         *)
(* A witness is a record whose unsaid fields are None.  Hands are 1..4, a  *)
(* hand index is 0..3 as in the code; bit masks are sets.  A hash is the    *)
(* tuple of what is hashed, so it has no collisions, and the salts, which  *)
(* only hide it, are left out, as are the ciphertext references, which no  *)
(* contract reads.                                                         *)
(***************************************************************************)
EXTENDS Integers, FiniteSets, SequencesExt

CONSTANTS MAX_PLAYER_CARDS, MAX_DEALER_CARDS, None

CARD_EMPTY == 104
Cards == 0..(CARD_EMPTY - 1)   \* two decks
HandIds == 1..4

PHASE == [INACTIVE |-> 0, AWAITING_INITIAL_DEAL |-> 1,
          AWAITING_PREPLAY_DECISION |-> 2, AWAITING_PEEK_RESOLUTION |-> 3,
          AWAITING_POSTPEEK_DECISION |-> 4, AWAITING_PLAYER_ACTION |-> 5,
          AWAITING_COORDINATOR_ACTION |-> 6, COMPLETED |-> 7]
PlayerActions == {"HIT", "STAND", "DOUBLE", "SPLIT"}

HAND_STATUS == [NONE |-> 0, ACTIVE |-> 1, STAND |-> 2, BUST |-> 3, PUSH |-> 4, WIN |-> 5,
                LOSS |-> 6, BLACKJACK |-> 7, SURRENDERED |-> 8]
HAND_PAYOUT == [NONE |-> 0, LOSS |-> 1, PUSH |-> 2, EVEN_MONEY |-> 3,
                BLACKJACK_3_TO_2 |-> 4, SURRENDER |-> 5]
DECISION == [NONE |-> 0, INSURANCE |-> 1, EARLY_SURRENDER |-> 2, LATE_SURRENDER |-> 3]
INSURANCE == [NONE |-> 0, AVAILABLE |-> 1, DECLINED |-> 2, TAKEN |-> 3, LOST |-> 4, WON |-> 5]
SURRENDER == [NONE |-> 0, AVAILABLE |-> 1, DECLINED |-> 2, TAKEN |-> 3, VOID |-> 4]

\* what a witness may leave unsaid of the public state
Unsaid ==
  [phase |-> None, decisionType |-> None, dealerRevealMask |-> None,
   activeHandIndex |-> None, insuranceStatus |-> None, insuranceStake |-> None,
   insurancePayout |-> None, payout |-> None, handWagers |-> None,
   handCardCounts |-> None, dealerCardsVisible |-> None]

orElse(said, default) == IF said = None THEN default ELSE said

-----------------------------------------------------------------------------
(* Cards                                                                   *)

cardMeta(card) ==
  LET rank == card % 13 IN
  IF card = CARD_EMPTY
    THEN [real |-> FALSE, rank |-> CARD_EMPTY, value |-> 0, isAce |-> FALSE,
          isTenValue |-> FALSE]
    ELSE [real |-> TRUE, rank |-> rank,
          value |-> IF rank = 0 THEN 11 ELSE IF rank >= 9 THEN 10 ELSE rank + 1,
          isAce |-> rank = 0, isTenValue |-> rank >= 9]

cardValue(card) == cardMeta(card).value
sameRank(cardA, cardB) == cardMeta(cardA).rank = cardMeta(cardB).rank

each(Of(_)) == <<Of(1), Of(2), Of(3), Of(4)>>

-----------------------------------------------------------------------------
(* Plausible bugs, defined to show that the properties can fail.           *)

\* a hand of 21 with an ace is already counted down
overLimitAt21(total) == total >= 21

\* a nine opens a decision window that has no decision
tenValueFromNine(card) == cardMeta(card).isAce \/ cardMeta(card).rank >= 8

-----------------------------------------------------------------------------
overLimit(total) == total > 21

\* aces are counted down from 11 to 1, one by one, while the hand is over
scoreHand(cards) ==
  LET total == SumFunction([i \in DOMAIN cards |-> cardValue(cards[i])])
      aces == Cardinality({i \in DOMAIN cards : cardMeta(cards[i]).isAce})
      enough == {n \in 0..aces : ~overLimit(total - 10 * n)}
  IN total - 10 * Min(enough \cup {aces})

isNaturalBlackjack(cards) ==
  /\ Len(cards) = 2
  /\ \E i \in 1..2 : cardMeta(cards[i]).isAce /\ cardMeta(cards[3 - i]).isTenValue

peekEligible(card) == cardMeta(card).isAce \/ cardMeta(card).isTenValue

\* cards given as numbers up to 52 are taken for a single deck whose 52 is the
\* empty card
legacyEmptySentinel(cards) == \A i \in DOMAIN cards : cards[i] <= 52
normalizeCards(cards) ==
  IF legacyEmptySentinel(cards) THEN ReplaceAll(cards, 52, CARD_EMPTY) ELSE cards

padArray(cards, length) ==
  SubSeq(cards \o [i \in 1..length |-> CARD_EMPTY], 1, length)

upCard(cards) == IF cards = <<>> THEN CARD_EMPTY ELSE cards[1]

-----------------------------------------------------------------------------
(* Hands                                                                   *)

four(first) == <<first, 0, 0, 0>>

deriveCardStarts(counts) ==
  <<0, counts[1], counts[1] + counts[2], counts[1] + counts[2] + counts[3]>>

\* the cards that are not empty, in their order
realCards(cards) ==
  LET upTo[n \in 0..Len(cards)] ==
        IF n = 0 THEN <<>>
        ELSE IF cards[n] = CARD_EMPTY THEN upTo[n - 1] ELSE Append(upTo[n - 1], cards[n])
  IN upTo[Len(cards)]

partitionHands(cards, counts) ==
  LET start == deriveCardStarts(counts)
      last(i) == Min({start[i] + counts[i], Len(cards)}) IN
  each(LAMBDA i : realCards(SubSeq(cards, start[i] + 1, last(i))))

inferredHandCount(counts) == Max({1, Cardinality({i \in HandIds : counts[i] > 0})})

deriveDefaultHandStatuses(hands, phase) ==
  each(LAMBDA i :
     CASE hands[i] = <<>> -> HAND_STATUS.NONE
       [] phase = PHASE.COMPLETED /\ isNaturalBlackjack(hands[i]) -> HAND_STATUS.BLACKJACK
       [] scoreHand(hands[i]) > 21 -> HAND_STATUS.BUST
       [] OTHER -> IF phase = PHASE.AWAITING_PLAYER_ACTION /\ i = 1
                     THEN HAND_STATUS.ACTIVE ELSE HAND_STATUS.NONE)

\* of the statuses that are derived, the two that pay or lose by themselves
deriveDefaultPayoutKinds(statuses) ==
  each(LAMBDA i :
     CASE statuses[i] = HAND_STATUS.BUST -> HAND_PAYOUT.LOSS
       [] statuses[i] = HAND_STATUS.BLACKJACK -> HAND_PAYOUT.BLACKJACK_3_TO_2
       [] OTHER -> HAND_PAYOUT.NONE)

\* only the active hand may act, and only in the player's phase
deriveDefaultAllowedActionMasks(phase, handCount, activeHandIndex, hands, counts) ==
  LET cards(i) == hands[i]
      allowed(i) ==
        {"HIT", "STAND"}
          \cup (IF counts[i] = 2 THEN {"DOUBLE"} ELSE {})
          \cup (IF /\ counts[i] = 2 /\ Len(cards(i)) = 2
                   /\ sameRank(cards(i)[1], cards(i)[2]) /\ handCount < 4
                  THEN {"SPLIT"} ELSE {})
  IN each(LAMBDA i :
        IF /\ phase = PHASE.AWAITING_PLAYER_ACTION
           /\ i = activeHandIndex + 1 /\ cards(i) # <<>>
          THEN allowed(i) ELSE {})

-----------------------------------------------------------------------------
(* The public state                                                        *)

defaultPhaseForContext(hint, dealerCards) ==
  CASE hint = "showdown" -> PHASE.COMPLETED
    [] hint \in {"peek", "action"} -> PHASE.AWAITING_PLAYER_ACTION
    [] OTHER -> IF peekEligible(upCard(dealerCards))
                  THEN PHASE.AWAITING_PREPLAY_DECISION
                  ELSE PHASE.AWAITING_PLAYER_ACTION

defaultDecisionType(dealerUpCard, phase) ==
  CASE phase = PHASE.AWAITING_POSTPEEK_DECISION -> DECISION.LATE_SURRENDER
    [] phase # PHASE.AWAITING_POSTPEEK_DECISION
         /\ phase # PHASE.AWAITING_PREPLAY_DECISION -> DECISION.NONE
    [] OTHER -> IF cardMeta(dealerUpCard).isAce THEN DECISION.INSURANCE
                ELSE IF cardMeta(dealerUpCard).isTenValue THEN DECISION.EARLY_SURRENDER
                ELSE DECISION.NONE

deriveRevealMask(cards) == {i \in DOMAIN cards : cards[i] # CARD_EMPTY}

defaultVisibleDealerCards(dealerCards, hint, explicitMask) ==
  LET revealMask == orElse(explicitMask,
        IF hint = "showdown" THEN deriveRevealMask(dealerCards) ELSE {1}) IN
  [i \in DOMAIN dealerCards |->
     IF i \in revealMask THEN dealerCards[i] ELSE CARD_EMPTY]

normalizePublicState(source, hint, playerCards, dealerCards) ==
  LET counts == source.handCardCounts
      hands == partitionHands(playerCards, counts)
      phase == orElse(source.phase, defaultPhaseForContext(hint, dealerCards))
      decisionType == orElse(source.decisionType,
                             defaultDecisionType(upCard(dealerCards), phase))
      visible == normalizeCards(orElse(source.dealerCardsVisible,
                   defaultVisibleDealerCards(dealerCards, hint, source.dealerRevealMask)))
      active == orElse(source.activeHandIndex, 0)
      statuses == deriveDefaultHandStatuses(hands, phase)
      masks == deriveDefaultAllowedActionMasks(phase, inferredHandCount(counts), active,
                                               hands, counts)
  IN [phase |-> phase,
      decisionType |-> decisionType,
      dealerRevealMask |-> orElse(source.dealerRevealMask, deriveRevealMask(visible)),
      handCount |-> inferredHandCount(counts),
      activeHandIndex |-> active,
      peekAvailable |-> peekEligible(upCard(dealerCards)),
      peekResolved |-> phase >= PHASE.AWAITING_POSTPEEK_DECISION,
      dealerHasBlackjack |-> isNaturalBlackjack(SubSeq(dealerCards, 1,
                                                       Min({2, Len(dealerCards)}))),
      insuranceAvailable |-> /\ decisionType = DECISION.INSURANCE
                             /\ phase = PHASE.AWAITING_PREPLAY_DECISION,
      insuranceStatus |-> orElse(source.insuranceStatus, INSURANCE.NONE),
      surrenderAvailable |-> decisionType \in {DECISION.EARLY_SURRENDER, DECISION.LATE_SURRENDER},
      surrenderStatus |-> SURRENDER.NONE,
      dealerUpValue |-> cardValue(upCard(dealerCards)),
      dealerFinalValue |-> scoreHand(dealerCards),
      payout |-> orElse(source.payout, 0),
      insuranceStake |-> orElse(source.insuranceStake, 0),
      insurancePayout |-> orElse(source.insurancePayout, 0),
      hands |-> each(LAMBDA i :
        [wager |-> source.handWagers[i], value |-> scoreHand(hands[i]),
         status |-> statuses[i], allowedActionMask |-> masks[i],
         cardCount |-> counts[i], cardStartIndex |-> deriveCardStarts(counts)[i],
         payoutKind |-> deriveDefaultPayoutKinds(statuses)[i]]),
      playerCards |-> playerCards,
      dealerCards |-> visible]

\* the public inputs of the circuits: the public state with its cards padded
flattenPublicStateInputs(state) ==
  [state EXCEPT !.playerCards = padArray(@, MAX_PLAYER_CARDS),
                !.dealerCards = padArray(@, MAX_DEALER_CARDS)]

-----------------------------------------------------------------------------
(* Commitments                                                             *)

hash(values) == values

playerState(sessionId, cards, counts) ==
  hash(<<"player", sessionId, padArray(cards, MAX_PLAYER_CARDS), counts>>)
dealerState(sessionId, cards) ==
  hash(<<"dealer", sessionId, padArray(cards, MAX_DEALER_CARDS)>>)
playerKey(sessionId, key) == hash(<<"key", sessionId, key>>)
deck(w) ==
  hash(<<"deck", w.sessionId, padArray(w.playerCards, MAX_PLAYER_CARDS),
         padArray(w.dealerCards, MAX_DEALER_CARDS)>>)

-----------------------------------------------------------------------------
(* Witnesses: what is unsaid and has a default by phase of the proof       *)

withCards(w) ==
  [w EXCEPT !.playerCards = normalizeCards(@), !.dealerCards = normalizeCards(@),
            !.oldPlayerCards = normalizeCards(@)]

oneHand(w) ==
  [withCards(w) EXCEPT
     !.state.handCardCounts = orElse(@, four(Len(w.playerCards))),
     !.state.handWagers = orElse(@, four(w.baseWager))]

normalizeInitialWitness(w) == oneHand(w)

normalizePeekWitness(w) == oneHand(w)

normalizeActionWitness(w) ==
  [withCards(w) EXCEPT !.state.handWagers = orElse(@, four(w.baseWager))]

normalizeShowdownWitness(w) ==
  [withCards(w) EXCEPT
     !.state.phase = orElse(@, PHASE.COMPLETED),
     !.state.handWagers = orElse(@, four(w.baseWager)),
     !.state.dealerCardsVisible = orElse(@, normalizeCards(w.dealerCards))]

-----------------------------------------------------------------------------
(* Inputs and payloads                                                     *)

publicState(w, hint) ==
  normalizePublicState(w.state, hint, w.playerCards, w.dealerCards)

\* what every phase commits to
common(w, hint) ==
  [sessionId |-> w.sessionId,
   playerStateCommitment |-> playerState(w.sessionId, w.playerCards, w.state.handCardCounts),
   dealerStateCommitment |-> dealerState(w.sessionId, w.dealerCards),
   playerKeyCommitment |-> playerKey(w.sessionId, w.playerKey),
   state |-> publicState(w, hint),
   deckCommitment |-> w.deckCommitment, proofSequence |-> w.proofSequence,
   pendingAction |-> None, oldPlayerStateCommitment |-> None]

deriveBlackjackInitialDeal(witness) ==
  LET w == normalizeInitialWitness(witness) IN
  [common(w, "initial-deal") EXCEPT !.deckCommitment = deck(w), !.proofSequence = None]

deriveBlackjackPeek(witness) == common(normalizePeekWitness(witness), "peek")

deriveBlackjackActionResolve(witness) ==
  LET w == normalizeActionWitness(witness) IN
  [common(w, "action") EXCEPT
     !.pendingAction = w.pendingAction,
     !.oldPlayerStateCommitment =
        playerState(w.sessionId, w.oldPlayerCards, w.oldHandCardCounts)]

deriveBlackjackShowdown(witness) == common(normalizeShowdownWitness(witness), "showdown")

deriveBlackjackInput(phase, witness) ==
  CASE phase = "initial-deal" -> deriveBlackjackInitialDeal(witness)
    [] phase = "peek" -> deriveBlackjackPeek(witness)
    [] phase = "action" -> deriveBlackjackActionResolve(witness)
    [] phase = "showdown" -> deriveBlackjackShowdown(witness)

\* the circuit each phase is proved with
blackjackCircuitForPhase ==
  [phase \in {"initial-deal", "peek", "action", "showdown"} |->
     CASE phase = "initial-deal" -> "blackjack_initial_deal"
       [] phase = "peek"         -> "blackjack_peek_resolve"
       [] phase = "action"       -> "blackjack_action_resolve"
       [] phase = "showdown"     -> "blackjack_showdown"]

\* a proof is of its circuit and the public inputs, which have padded cards
fullProveBlackjack(circuit, input) ==
  [circuit |-> circuit, inputs |-> [input EXCEPT !.state = flattenPublicStateInputs(@)]]

generateBlackjackArtifact(phase, witness) ==
  LET input == deriveBlackjackInput(phase, witness) IN
  [proof |-> fullProveBlackjack(blackjackCircuitForPhase[phase], input),
   input |-> input, witness |-> witness]

\* the arguments repeat the commitments that are new and the public state; the
\* witness does not leave the coordinator
formatBlackjackPayload(phase, artifact) ==
  [phase |-> phase, proof |-> artifact.proof, witness |-> artifact.witness,
   deckCommitment |-> artifact.input.deckCommitment,
   playerStateCommitment |-> artifact.input.playerStateCommitment,
   dealerStateCommitment |-> artifact.input.dealerStateCommitment,
   publicState |-> artifact.input.state]

generateBlackjackPayload(phase, witness) ==
  formatBlackjackPayload(phase, generateBlackjackArtifact(phase, witness))
=============================================================================
