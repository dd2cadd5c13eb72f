----------------------------- MODULE PokerHands -----------------------------
(***************************************************************************)
(* A poker match together with the cards it commits to: the engine's       *)
(* HandStateView beside SingleDraw2To7, the coordinator that makes the     *)
(* proofs, and a transaction of it that may land again, late.              *)
(*                                                                         *)
(* The engine verifies proofs (verifierBundle is set).  The coordinator    *)
(* deals each hand its own cards under its own nonce and makes each proof  *)
(* from the state the engine shows.  Proof jobs are redelivered            *)
(* (ProofJobs), so one proof of the hand before, any that was sent for it, *)
(* may come again in this one; a repetition within its own hand finds its  *)
(* phase or its draw done.  As the proofs around are those of two hands in *)
(* a row, hand numbers and nonces are kept modulo 2.                       *)
(***************************************************************************)
EXTENDS SingleDraw2To7, PokerProof

CONSTANTS Masks,     \* the discard masks a player may declare
          Scores,    \* scores of hands, in the showdown's witness
          None       \* no commitment, no nonce, no late proof

ASSUME MasksAssumption == Masks \subseteq SUBSET Positions

VARIABLES handNumber, handNonce, deckCommitment, handCommitments,
          declaredDrawMasks, proofSequences,
          deal,      \* the coordinator's deal for this hand: its nonce
          late       \* the proof of the hand before that may come again

handVars == <<handNumber, handNonce, deckCommitment, handCommitments,
              declaredDrawMasks, proofSequences>>
proofVars == <<handVars, deal, late>>
pokerVars == <<vars, proofVars>>

noCommitments == [i \in Seats |-> None]
noMasks == [i \in Seats |-> {}]
noProofs == [i \in Seats |-> 0]

PokerInit ==
  /\ Init
  /\ handNumber = 0 /\ handNonce = None /\ deckCommitment = None
  /\ handCommitments = noCommitments
  /\ declaredDrawMasks = noMasks /\ proofSequences = noProofs
  /\ deal = 0 /\ late = None

DealtPhases == ClockPhases \cup {"DrawProofPending", "ShowdownProofPending"}

-----------------------------------------------------------------------------
(* The coordinator.                                                        *)

dealtCards == [i \in Seats |-> [k \in Positions |-> <<"dealt", deal, i, k>>]]
replacements == [i \in Seats |-> [k \in Positions |-> <<"drawn", deal, i, k>>]]

\* The cards a player holds, as the coordinator knows them.
heldCards == [i \in Seats |->
  IF drawResolved[i] THEN drawnHand(dealtCards[i], replacements[i], declaredDrawMasks[i])
                     ELSE dealtCards[i]]

dealProof ==
  derivePokerInitialDeal(
    [handNumber |-> handNumber, handNonce |-> deal, handCards |-> dealtCards])

drawWitness(actor, sequence) ==
  [handNumber |-> handNumber, handNonce |-> deal, playerIndex |-> actor,
   initialCards |-> dealtCards, oldCards |-> dealtCards[actor],
   replacementCards |-> replacements[actor],
   discardMask |-> declaredDrawMasks[actor], proofSequence |-> sequence]

drawProofs(actor, sequence) ==
  {derivePokerDrawResolve(w) :
     w \in {v \in {drawWitness(actor, sequence)} : drawWitnessHolds(v)}}

showdownProof(scores) ==
  derivePokerShowdown(
    [handNumber |-> handNumber, handNonce |-> deal, handCards |-> heldCards,
     handScores |-> scores])

\* What the coordinator has sent in this hand before its showdown.
sent ==
  (IF handPhase \in DealtPhases THEN {dealProof} ELSE {})
    \cup UNION {drawProofs(i, proofSequences[i]) : i \in {j \in Seats : drawResolved[j]}}

\* A late proof that is of the kind asked for.
again(circuit) == {p \in {late} \ {None} : p.circuit = circuit}

-----------------------------------------------------------------------------
(* The engine's public inputs: a proof is accepted when its signals are     *)
(* those the engine builds from its state and the caller's arguments, which *)
(* are the proof's own.                                                    *)

verifyInitialDeal(p) == p.handNumber = handNumber

verifyDraw(p, actor) ==
  /\ p.handNumber = handNumber /\ p.handNonce = handNonce
  /\ p.playerIndex = actor
  /\ p.deckCommitment = deckCommitment
  /\ p.oldCommitment = handCommitments[actor]
  /\ p.discardMask = declaredDrawMasks[actor]
  /\ p.proofSequence = proofSequences[actor] + 1

verifyShowdown(p, winner, tie) ==
  /\ p.handNumber = handNumber /\ p.handNonce = handNonce
  /\ p.handCommitments = handCommitments
  /\ p.winnerIndex = IF tie THEN 2 ELSE winner
  /\ p.isTie = tie

-----------------------------------------------------------------------------
(* The hands.                                                              *)

\* Bug: the next hand has the number of the last.
nextHandNumberKept == handNumber

nextHandNumber == 1 - handNumber

\* What _startNextHand clears.
clearHand ==
  /\ handNumber' = nextHandNumber
  /\ handNonce' = None /\ deckCommitment' = None
  /\ handCommitments' = noCommitments
  /\ declaredDrawMasks' = noMasks /\ proofSequences' = noProofs
  /\ deal' = 1 - deal

\* A hand that is over makes room for the next one, unless the match is over
\* too; the coordinator's proofs of it, shown included, are not forgotten.
handOver(shown) ==
  \/ /\ handPhase' = "AwaitingInitialDeal"
     /\ clearHand
     /\ late' \in {None} \cup sent \cup shown
  \/ /\ handPhase' = "HandComplete"
     /\ UNCHANGED proofVars

Initialize == initializeGame /\ clearHand /\ late' = None

Bet(amount) == bet(amount) /\ UNCHANGED proofVars

Fold == fold /\ handOver({})

ClaimTimeout == claimTimeout /\ handOver({})

DeclareDraw(mask) ==
  /\ declareDraw
  /\ declaredDrawMasks' = [declaredDrawMasks EXCEPT ![currentTurn] = mask]
  /\ UNCHANGED <<handNumber, handNonce, deckCommitment, handCommitments,
                 proofSequences, deal, late>>

SubmitInitialDeal(p) ==
  /\ submitInitialDealProof
  /\ verifyInitialDeal(p)
  /\ handNonce' = p.handNonce /\ deckCommitment' = p.deckCommitment
  /\ handCommitments' = p.handCommitments
  /\ declaredDrawMasks' = noMasks /\ proofSequences' = noProofs
  /\ UNCHANGED <<handNumber, deal, late>>

SubmitDraw(p, actor) ==
  /\ submitDrawProof(actor)
  /\ verifyDraw(p, actor)
  /\ handCommitments' = [handCommitments EXCEPT ![actor] = p.newCommitment]
  /\ proofSequences' = [proofSequences EXCEPT ![actor] = @ + 1]
  /\ UNCHANGED <<handNumber, handNonce, deckCommitment, declaredDrawMasks, deal, late>>

SubmitShowdown(p, winner, tie) ==
  /\ verifyShowdown(p, winner, tie)
  /\ submitShowdownProof(winner, tie)
  /\ handOver({p})

-----------------------------------------------------------------------------
PlayerSteps ==
  \/ \E amount \in 0..(2 * StartingStack) : Bet(amount)
  \/ Fold
  \/ \E mask \in Masks : DeclareDraw(mask)

CoordinatorSteps ==
  \/ /\ handPhase = "AwaitingInitialDeal"
     /\ \E p \in {dealProof} \cup again("poker_initial_deal") : SubmitInitialDeal(p)
  \/ /\ handPhase = "DrawProofPending"
     /\ \E actor \in Seats :
          \E p \in drawProofs(actor, proofSequences[actor] + 1)
                     \cup again("poker_draw_resolve") : SubmitDraw(p, actor)
  \/ /\ handPhase = "ShowdownProofPending"
     /\ \E scores \in [Seats -> Scores], winner \in Seats, tie \in BOOLEAN :
          \E p \in {showdownProof(scores)} \cup again("poker_showdown") :
            SubmitShowdown(p, winner, tie)

WorldSteps ==
  /\ \/ Expire
     \/ Escalate
     \/ \E newStatus \in {"LIVE", "RETIRED", "DISABLED"} : setModuleStatus(newStatus)
  /\ UNCHANGED proofVars

PokerNext ==
  \/ Initialize
  \/ PlayerSteps
  \/ CoordinatorSteps
  \/ ClaimTimeout
  \/ WorldSteps

PokerSpec == PokerInit /\ [][PokerNext]_pokerVars

\* As in SingleDraw2To7, with the coordinator answering by proofs that verify.
PokerFairness ==
  /\ WF_pokerVars(PlayerSteps \/ (Expire /\ UNCHANGED proofVars))
  /\ WF_pokerVars(CoordinatorSteps)
  /\ WF_pokerVars(ClaimTimeout)

FairPokerSpec == PokerSpec /\ PokerFairness

-----------------------------------------------------------------------------
\* From the deal to the showdown the engine commits, for each seat, to the
\* cards the coordinator dealt it for this very hand, with exactly the
\* positions the player declared replaced once its draw is resolved, and
\* counts that one draw: no proof that lands again, of this hand or of the one
\* before, puts other cards under a pot.
HandsAsDealt ==
  handPhase \in DealtPhases =>
    /\ handNonce = deal
    /\ deckCommitment = dealProof.deckCommitment
    /\ \A i \in Seats :
         /\ handCommitments[i] =
              handCommitment([handNumber |-> handNumber, handNonce |-> deal], heldCards[i])
         /\ proofSequences[i] = IF drawResolved[i] THEN 1 ELSE 0
=============================================================================
