----------------------------- MODULE PokerProof -----------------------------
(***************************************************************************)
(* What the coordinator's prover makes of a poker witness                  *)
(* (src/zk/scripts/prove-fixtures.mjs) and what the poker circuits ask of  *)
(* it (src/zk/circuits/poker_*.circom).  All operators are pure.           *)
(*                                                                         *)
(* A proof is the record of its public signals: it exists when the circuit *)
(* accepts the witness.  A hash is the tuple of what is hashed, so it has  *)
(* no collisions.  The game's id is left out (one match), and so are the   *)
(* salts, which only hide what is hashed, and the keys and ciphertexts,    *)
(* which no contract reads.  A discard mask is the set of its positions.   *)
(***************************************************************************)
EXTENDS Naturals

CONSTANT HandSize    \* cards in a hand: 5 in the code

ASSUME HandSizeAssumption == HandSize \in Nat

Positions == 1..HandSize
bothSeats == {0, 1}

hash(values) == values

handCommitment(w, cards) == hash(<<w.handNumber, w.handNonce, cards>>)

deckCommitmentOf(w, hands) == hash(<<w.handNumber, w.handNonce, hands[0], hands[1]>>)

derivePokerInitialDeal(w) ==
  [circuit |-> "poker_initial_deal",
   handNumber |-> w.handNumber, handNonce |-> w.handNonce,
   deckCommitment |-> deckCommitmentOf(w, w.handCards),
   handCommitments |-> [i \in bothSeats |-> handCommitment(w, w.handCards[i])]]

\* The cards after a draw: a bit of the mask takes the replacement.
drawnHand(old, replacement, mask) ==
  [k \in Positions |-> IF k \in mask THEN replacement[k] ELSE old[k]]

\* The circuit's own constraints on a draw; the others are the hashes.
drawWitnessHolds(w) ==
  /\ w.oldCards = w.initialCards[w.playerIndex]
  /\ w.discardMask \subseteq Positions

derivePokerDrawResolve(w) ==
  [circuit |-> "poker_draw_resolve",
   handNumber |-> w.handNumber, handNonce |-> w.handNonce,
   playerIndex |-> w.playerIndex,
   deckCommitment |-> deckCommitmentOf(w, w.initialCards),
   oldCommitment |-> handCommitment(w, w.oldCards),
   newCommitment |->
     handCommitment(w, drawnHand(w.oldCards, w.replacementCards, w.discardMask)),
   discardMask |-> w.discardMask, proofSequence |-> w.proofSequence]

\* The lower score wins; the index of a tie is 2.
winnerOf(scores) ==
  IF scores[0] = scores[1] THEN 2 ELSE IF scores[0] < scores[1] THEN 0 ELSE 1

derivePokerShowdown(w) ==
  [circuit |-> "poker_showdown",
   handNumber |-> w.handNumber, handNonce |-> w.handNonce,
   handCommitments |-> [i \in bothSeats |-> handCommitment(w, w.handCards[i])],
   winnerIndex |-> winnerOf(w.handScores),
   isTie |-> w.handScores[0] = w.handScores[1]]
=============================================================================
