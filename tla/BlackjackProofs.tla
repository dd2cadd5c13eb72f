-------------------------- MODULE BlackjackProofs --------------------------
(***************************************************************************)
(* Proofs about blackjack sessions, for any sessions, deals, draws,        *)
(* payouts and proofs the coordinator keeps.                               *)
(*                                                                         *)
(* ChainInv: the proofs an engine accepts form a chain.  The first may set *)
(* the deck and restart the count, so the argument is that it is accepted  *)
(* once: no proof leads back to the phase that asks for it, whatever the   *)
(* prover fills in (PayloadsLeadOn).                                       *)
(*                                                                         *)
(* StakesInv: what a session burned is what its public state shows at      *)
(* stake and what an undecided action adds, and a public state is a fair   *)
(* reading of the cards its proof was made of.  The prover restates the    *)
(* stakes from its own witness, perhaps long before the engine reads them, *)
(* so every payload that may still be accepted must agree with the session *)
(* as it is now (timely), and the cards must lie in the hands as the       *)
(* counts say (parted).  That a value is the best total is BestScore.      *)
(***************************************************************************)
EXTENDS Blackjack, SumTheorems, SequenceTheorems, TLAPS

\* the phases before a proof is accepted
Unproved == {PHASE.INACTIVE, PHASE.AWAITING_INITIAL_DEAL}

ChainFields == {"proofSequence", "deckCommitment", "playerStateCommitment"}

Kinds == {"initial-deal", "peek", "action", "showdown"}

\* a payload proves with the circuit of its kind, and leads to a later phase
leadsOn(p) ==
  /\ p.phase \in Kinds /\ p.proof.circuit = blackjackCircuitForPhase[p.phase]
  /\ "phase" \in DOMAIN p.publicState /\ p.publicState.phase \notin Unproved

\* what a session has of the proofs it accepted
chained(s) ==
  /\ ChainFields \subseteq DOMAIN session[s]
  /\ "phase" \in DOMAIN view[s]
  /\ accepted[s] \in Seq(payloads[s])
  /\ \A p \in payloads[s] : leadsOn(p)
  /\ accepted[s] = <<>> <=> view[s].phase \in Unproved
  /\ session[s].proofSequence = Len(accepted[s])
  /\ accepted[s] # <<>> =>
       /\ session[s].deckCommitment = accepted[s][1].deckCommitment
       /\ session[s].playerStateCommitment = Last(accepted[s]).playerStateCommitment
  /\ \A n \in 2..Len(accepted[s]) :
       /\ accepted[s][n].proof.inputs.proofSequence = n
       /\ accepted[s][n].proof.inputs.deckCommitment = accepted[s][1].deckCommitment
       /\ accepted[s][n].phase = "action" =>
            accepted[s][n].proof.inputs.oldPlayerStateCommitment =
              accepted[s][n - 1].playerStateCommitment

ChainInv ==
  /\ DOMAIN session = Sessions /\ DOMAIN view = Sessions
  /\ DOMAIN accepted = Sessions /\ DOMAIN payloads = Sessions
  /\ \A s \in Sessions : chained(s)

-----------------------------------------------------------------------------
(* The prover                                                              *)

LEMMA Phases ==
  /\ PHASE.INACTIVE = 0 /\ PHASE.AWAITING_INITIAL_DEAL = 1
  /\ PHASE.AWAITING_PREPLAY_DECISION = 2 /\ PHASE.AWAITING_PEEK_RESOLUTION = 3
  /\ PHASE.AWAITING_POSTPEEK_DECISION = 4 /\ PHASE.AWAITING_PLAYER_ACTION = 5
  /\ PHASE.AWAITING_COORDINATOR_ACTION = 6 /\ PHASE.COMPLETED = 7
  /\ Unproved = {0, 1}
  BY DEF PHASE, Unproved

\* the phase of the public state is the witness's, or the default of its kind
LEMMA PublicPhase ==
  ASSUME NEW source, NEW hint, NEW playerCards, NEW dealerCards
  PROVE  LET state == normalizePublicState(source, hint, playerCards, dealerCards) IN
         /\ "phase" \in DOMAIN state
         /\ state.phase = orElse(source.phase, defaultPhaseForContext(hint, dealerCards))
  BY DEF normalizePublicState

LEMMA DefaultPhase ==
  ASSUME NEW hint, NEW dealerCards
  PROVE  defaultPhaseForContext(hint, dealerCards) \notin Unproved
  BY Phases DEF defaultPhaseForContext

WitnessFields == {"playerCards", "dealerCards", "oldPlayerCards", "state"}
isWitness(w) ==
  /\ WitnessFields \subseteq DOMAIN w
  /\ {"phase", "handCardCounts", "handWagers", "dealerCardsVisible"} \subseteq DOMAIN w.state

LEMMA WithCardsState ==
  ASSUME NEW w, isWitness(w)
  PROVE  withCards(w).state = w.state /\ DOMAIN withCards(w) = DOMAIN w
  BY DEF withCards, isWitness, WitnessFields

LEMMA NormalizedPhase ==
  ASSUME NEW w, isWitness(w)
  PROVE  /\ normalizeInitialWitness(w).state.phase = w.state.phase
         /\ normalizePeekWitness(w).state.phase = w.state.phase
         /\ normalizeActionWitness(w).state.phase = w.state.phase
         /\ normalizeShowdownWitness(w).state.phase = orElse(w.state.phase, PHASE.COMPLETED)
<1> DEFINE v == withCards(w)
<1>1. /\ v.state = w.state /\ "state" \in DOMAIN v
      /\ {"phase", "handCardCounts", "handWagers", "dealerCardsVisible"} \subseteq DOMAIN v.state
  BY WithCardsState DEF isWitness, WitnessFields
<1> HIDE DEF v
<1>2. normalizeInitialWitness(w).state.phase = w.state.phase
  BY <1>1 DEF normalizeInitialWitness, oneHand, v
<1>3. normalizePeekWitness(w).state.phase = w.state.phase
  BY <1>1 DEF normalizePeekWitness, oneHand, v
<1>4. normalizeActionWitness(w).state.phase = w.state.phase
  BY <1>1 DEF normalizeActionWitness, v
<1>5. normalizeShowdownWitness(w).state.phase = orElse(w.state.phase, PHASE.COMPLETED)
  BY <1>1 DEF normalizeShowdownWitness, v
<1> QED
  BY <1>2, <1>3, <1>4, <1>5

LEMMA CircuitsDiffer ==
  ASSUME NEW k \in Kinds, NEW l \in Kinds,
         blackjackCircuitForPhase[k] = blackjackCircuitForPhase[l]
  PROVE  k = l
  BY DEF blackjackCircuitForPhase, Kinds

\* the public state an input of each kind has
LEMMA InputState ==
  ASSUME NEW w, NEW kind \in Kinds
  PROVE  \E v \in {normalizeInitialWitness(w), normalizePeekWitness(w),
                  normalizeActionWitness(w), normalizeShowdownWitness(w)} :
           deriveBlackjackInput(kind, w).state = publicState(v, kind)
<1>1. CASE kind = "initial-deal"
  <2>1. deriveBlackjackInput(kind, w).state = publicState(normalizeInitialWitness(w), kind)
    BY <1>1 DEF deriveBlackjackInput, deriveBlackjackInitialDeal, common
  <2> QED BY <2>1
<1>2. CASE kind = "peek"
  <2>1. deriveBlackjackInput(kind, w).state = publicState(normalizePeekWitness(w), kind)
    BY <1>2 DEF deriveBlackjackInput, deriveBlackjackPeek, common
  <2> QED BY <2>1
<1>3. CASE kind = "action"
  <2>1. deriveBlackjackInput(kind, w).state = publicState(normalizeActionWitness(w), kind)
    BY <1>3 DEF deriveBlackjackInput, deriveBlackjackActionResolve, common
  <2> QED BY <2>1
<1>4. CASE kind = "showdown"
  <2>1. deriveBlackjackInput(kind, w).state = publicState(normalizeShowdownWitness(w), kind)
    BY <1>4 DEF deriveBlackjackInput, deriveBlackjackShowdown, common
  <2> QED BY <2>1
<1> QED
  BY <1>1, <1>2, <1>3, <1>4 DEF Kinds

\* whatever the prover fills in, no proof leads back before the first
LEMMA PayloadsLeadOn ==
  ASSUME NEW w, isWitness(w), NEW kind \in Kinds,
         w.state.phase = None \/ w.state.phase \notin Unproved
  PROVE  leadsOn(generateBlackjackPayload(kind, w))
<1> DEFINE p == generateBlackjackPayload(kind, w)
<1>1. /\ p.phase = kind /\ p.proof.circuit = blackjackCircuitForPhase[kind]
      /\ p.publicState = deriveBlackjackInput(kind, w).state
  BY DEF generateBlackjackPayload, formatBlackjackPayload, generateBlackjackArtifact,
         fullProveBlackjack
<1>2. PICK v \in {normalizeInitialWitness(w), normalizePeekWitness(w),
                 normalizeActionWitness(w), normalizeShowdownWitness(w)} :
        deriveBlackjackInput(kind, w).state = publicState(v, kind)
  BY InputState
<1>3. v.state.phase = None \/ v.state.phase \notin Unproved
  BY <1>2, NormalizedPhase, Phases DEF orElse
<1>4. /\ "phase" \in DOMAIN publicState(v, kind)
      /\ publicState(v, kind).phase =
           orElse(v.state.phase, defaultPhaseForContext(kind, v.dealerCards))
  BY PublicPhase DEF publicState
<1>5. publicState(v, kind).phase \notin Unproved
  BY <1>3, <1>4, DefaultPhase DEF orElse
<1> QED
  BY <1>1, <1>2, <1>4, <1>5 DEF leadsOn

-----------------------------------------------------------------------------
(* The coordinator's witnesses                                             *)

\* proving adds a payload that leads on, and nothing else changes
LEMMA ProveAdds ==
  ASSUME NEW s, NEW kind \in Kinds, NEW w, isWitness(w),
         w.state.phase = None \/ w.state.phase \notin Unproved,
         prove(s, kind, w)
  PROVE  \E p : /\ leadsOn(p)
                /\ payloads' = [payloads EXCEPT ![s] = @ \cup {p}]
                /\ UNCHANGED <<session, view, accepted>>
  BY PayloadsLeadOn DEF prove

LEMMA WitnessType ==
  ASSUME NEW s, NEW hands, NEW handWagers, NEW phase
  PROVE  /\ isWitness(witness(s, hands, handWagers, phase))
         /\ witness(s, hands, handWagers, phase).state.phase = phase
         /\ DOMAIN witness(s, hands, handWagers, phase).state = DOMAIN Unsaid
<1> DEFINE state == [Unsaid EXCEPT
     !.phase = phase, !.handWagers = handWagers,
     !.handCardCounts = each(LAMBDA i : Len(hands[i])),
     !.activeHandIndex = view[s].activeHandIndex,
     !.insuranceStake = view[s].insuranceStake,
     !.insuranceStatus = view[s].insuranceStatus]
<1>1. state.phase = phase /\ DOMAIN state = DOMAIN Unsaid
  BY DEF Unsaid
<1>2. {"phase", "handCardCounts", "handWagers", "dealerCardsVisible"} \subseteq DOMAIN Unsaid
  BY DEF Unsaid
<1> HIDE DEF state
<1>3. /\ witness(s, hands, handWagers, phase).state = state
      /\ WitnessFields \subseteq DOMAIN witness(s, hands, handWagers, phase)
  BY DEF witness, state, WitnessFields
<1> QED
  BY <1>1, <1>2, <1>3 DEF isWitness

LEMMA CoordinatorProves ==
  ASSUME NEW s, ProveInitialDeal(s) \/ ProvePeek(s) \/ ProveAction(s) \/ ProveShowdown(s)
  PROVE  \E p : /\ leadsOn(p)
                /\ payloads' = [payloads EXCEPT ![s] = @ \cup {p}]
                /\ UNCHANGED <<session, view, accepted>>
<1>1. CASE ProveInitialDeal(s)
  <2> DEFINE w(deal) ==
         [sessionId |-> s, baseWager |-> session[s].wager,
          playerCards |-> deal.player, dealerCards |-> deal.dealer,
          oldPlayerCards |-> <<>>, oldHandCardCounts |-> four(0),
          playerKey |-> s, deckCommitment |-> None, proofSequence |-> None,
          pendingAction |-> None, state |-> Unsaid]
  <2>1. PICK deal \in Deals : prove(s, "initial-deal", w(deal))
    BY <1>1 DEF ProveInitialDeal
  <2>2. isWitness(w(deal)) /\ w(deal).state.phase = None
    BY DEF isWitness, WitnessFields, Unsaid
  <2> HIDE DEF w
  <2> QED
    BY <2>1, <2>2, ProveAdds DEF Kinds
<1>2. CASE ProvePeek(s)
  <2> DEFINE phase == IF isNaturalBlackjack(SubSeq(table(s).dealerCards, 1, 2))
                        THEN PHASE.COMPLETED
                        ELSE IF cardMeta(upCard(table(s).dealerCards)).isAce
                          THEN PHASE.AWAITING_POSTPEEK_DECISION
                          ELSE PHASE.AWAITING_PLAYER_ACTION
             w == witness(s, handsOf(s), wagers(s), phase)
  <2>1. PICK insured, payout :
          prove(s, "peek", [w EXCEPT !.state.insuranceStatus = insured,
                                     !.state.payout = payout])
    BY <1>2 DEF ProvePeek
  <2>2. phase \notin Unproved
    BY Phases
  <2>3. isWitness(w) /\ w.state.phase = phase
    BY WitnessType
  <2> HIDE DEF w, phase
  <2> DEFINE v == [w EXCEPT !.state.insuranceStatus = insured, !.state.payout = payout]
  <2>4. isWitness(v) /\ v.state.phase = phase
    BY <2>3 DEF isWitness, WitnessFields
  <2> HIDE DEF v
  <2>5. prove(s, "peek", v)
    BY <2>1 DEF v
  <2> QED
    BY <2>2, <2>4, <2>5, ProveAdds DEF Kinds
<1>3. CASE ProveAction(s)
  <2> DEFINE over(r) == r.done /\ ~nextHand(r.hands, view[s].activeHandIndex + 1)
             phase(r) == IF over(r) THEN PHASE.AWAITING_COORDINATOR_ACTION
                                    ELSE PHASE.AWAITING_PLAYER_ACTION
             w(r) == witness(s, r.hands, r.wagers, phase(r))
             v(r) == [w(r) EXCEPT
                        !.state.activeHandIndex = IF r.done /\ ~over(r) THEN @ + 1 ELSE @]
  <2>1. PICK r \in resolutions(s, view[s].activeHandIndex + 1) : prove(s, "action", v(r))
    BY <1>3, Zenon DEF ProveAction
  <2>2. phase(r) \notin Unproved
    BY Phases
  <2>3. isWitness(w(r)) /\ w(r).state.phase = phase(r)
    BY WitnessType
  <2> HIDE DEF w, phase, over
  <2>4. isWitness(v(r)) /\ v(r).state.phase = phase(r)
    BY <2>3 DEF isWitness, WitnessFields
  <2> HIDE DEF v
  <2> QED
    BY <2>1, <2>2, <2>3, <2>4, ProveAdds DEF Kinds
<1>4. CASE ProveShowdown(s)
  <2> DEFINE w == witness(s, handsOf(s), wagers(s), PHASE.COMPLETED)
  <2>1. PICK payout : prove(s, "showdown", [w EXCEPT !.state.payout = payout])
    BY <1>4 DEF ProveShowdown
  <2>2. isWitness(w) /\ w.state.phase = 7 /\ 7 \notin Unproved
    BY WitnessType, Phases
  <2> HIDE DEF w
  <2> DEFINE v == [w EXCEPT !.state.payout = payout]
  <2>3. isWitness(v) /\ v.state.phase = 7
    BY <2>2 DEF isWitness, WitnessFields
  <2> HIDE DEF v
  <2>4. prove(s, "showdown", v)
    BY <2>1 DEF v
  <2> QED
    BY <2>2, <2>3, <2>4, ProveAdds DEF Kinds
<1> QED
  BY <1>1, <1>2, <1>3, <1>4

-----------------------------------------------------------------------------
(* Steps of a session                                                      *)

\* the player's, the clock's and the controller's steps: the chain is as it
\* was, and no session is opened or brought back before its first proof
Untouched(s) ==
  /\ accepted' = accepted /\ payloads' = payloads
  /\ session' = [session EXCEPT ![s] = session'[s]]
  /\ view' = [view EXCEPT ![s] = view'[s]]
  /\ DOMAIN session'[s] = DOMAIN session[s]
  /\ \A f \in ChainFields : session'[s][f] = session[s][f]
  /\ "phase" \in DOMAIN view'[s]
  /\ view'[s].phase \in Unproved <=> view[s].phase \in Unproved

LEMMA UntouchedChain ==
  ASSUME ChainInv, NEW s \in Sessions, Untouched(s)
  PROVE  ChainInv'
<1>1. \A t \in Sessions : t # s => session'[t] = session[t] /\ view'[t] = view[t]
  BY DEF ChainInv, Untouched
<1>2. /\ session'[s].proofSequence = session[s].proofSequence
      /\ session'[s].deckCommitment = session[s].deckCommitment
      /\ session'[s].playerStateCommitment = session[s].playerStateCommitment
  BY DEF Untouched, ChainFields
<1>3. chained(s)'
  BY <1>2 DEF ChainInv, Untouched, chained
<1>4. ASSUME NEW t \in Sessions, t # s
      PROVE  chained(t)'
  BY <1>1, <1>4 DEF ChainInv, Untouched, chained
<1>5. /\ DOMAIN session' = Sessions /\ DOMAIN view' = Sessions
      /\ DOMAIN accepted' = Sessions /\ DOMAIN payloads' = Sessions
  BY DEF ChainInv, Untouched
<1> QED
  BY <1>3, <1>4, <1>5 DEF ChainInv

\* a proof that is made
LEMMA ProvedChain ==
  ASSUME ChainInv, NEW s \in Sessions, NEW p, leadsOn(p),
         payloads' = [payloads EXCEPT ![s] = @ \cup {p}],
         UNCHANGED <<session, view, accepted>>
  PROVE  ChainInv'
<1>1. \A t \in Sessions : /\ payloads[t] \subseteq payloads'[t]
                          /\ \A q \in payloads'[t] : q \in payloads[t] \/ q = p
  BY DEF ChainInv
<1>2. ASSUME NEW t \in Sessions
      PROVE  chained(t)'
  <2>1. chained(t) /\ accepted'[t] = accepted[t]
    BY DEF ChainInv
  <2>2. accepted'[t] \in Seq(payloads'[t])
    BY <1>1, <2>1 DEF chained
  <2>3. \A q \in payloads'[t] : leadsOn(q)
    BY <1>1, <2>1 DEF chained
  <2>4. (\A q \in payloads[t] : leadsOn(q))'
    BY <2>3 DEF leadsOn
  <2> QED
    BY <2>1, <2>2, <2>4 DEF chained
<1>3. DOMAIN payloads' = Sessions
  BY DEF ChainInv
<1> QED
  BY <1>2, <1>3 DEF ChainInv

-----------------------------------------------------------------------------
(* Proofs the engine accepts                                               *)

\* what a session is after it has accepted a proof, beside its chain
Accepts(s, p, ses) ==
  /\ applyPublicState(s, p, ses)
  /\ ChainFields \subseteq DOMAIN ses
  /\ ses.playerStateCommitment = p.playerStateCommitment

LEMMA AcceptedElsewhere ==
  ASSUME ChainInv, NEW s \in Sessions, NEW p \in payloads[s], NEW ses,
         Accepts(s, p, ses), chained(s)'
  PROVE  ChainInv'
<1>1. \A t \in Sessions : t # s => /\ session'[t] = session[t] /\ view'[t] = view[t]
                                   /\ accepted'[t] = accepted[t] /\ payloads'[t] = payloads[t]
  BY DEF ChainInv, Accepts, applyPublicState
<1>2. ASSUME NEW t \in Sessions, t # s
      PROVE  chained(t)'
  <2>1. /\ session'[t] = session[t] /\ view'[t] = view[t]
        /\ accepted'[t] = accepted[t] /\ payloads'[t] = payloads[t]
    BY <1>1, <1>2
  <2>2. chained(t)
    BY DEF ChainInv
  <2> QED
    BY <2>1, <2>2 DEF chained
<1>3. /\ DOMAIN session' = Sessions /\ DOMAIN view' = Sessions
      /\ DOMAIN accepted' = Sessions /\ DOMAIN payloads' = Sessions
  BY DEF ChainInv, Accepts, applyPublicState
<1> QED
  BY <1>2, <1>3 DEF ChainInv

\* the first proof: nothing was accepted before it
LEMMA FirstAccepted ==
  ASSUME ChainInv, NEW s \in Sessions, NEW p \in payloads[s], NEW ses,
         view[s].phase \in Unproved, Accepts(s, p, ses),
         ses.proofSequence = 1, ses.deckCommitment = p.deckCommitment
  PROVE  ChainInv'
<1>1. /\ session'[s] = ses /\ view'[s] = p.publicState
      /\ accepted'[s] = Append(accepted[s], p) /\ payloads' = payloads
  BY DEF ChainInv, Accepts, applyPublicState
<1>2. accepted[s] = <<>> /\ leadsOn(p)
  BY DEF ChainInv, chained
<1>3. /\ accepted'[s] = <<p>> /\ Len(accepted'[s]) = 1 /\ accepted'[s][1] = p
      /\ Last(accepted'[s]) = p /\ accepted'[s] \in Seq(payloads'[s]) /\ accepted'[s] # <<>>
  <2>1. Append(<<>>, p) = <<p>> /\ Len(<<p>>) = 1 /\ <<p>>[1] = p /\ <<p>> # <<>>
    OBVIOUS
  <2>2. <<p>> \in Seq(payloads[s])
    <3> DEFINE S == payloads[s]
    <3>1. p \in S
      OBVIOUS
    <3> HIDE DEF S
    <3>2. <<p>> \in Seq(S)
      BY <3>1
    <3> QED
      BY <3>2 DEF S
  <2>3. Last(<<p>>) = p
    BY <2>1 DEF Last
  <2>4. accepted'[s] = <<p>> /\ payloads' = payloads
    BY <1>1, <1>2, <2>1
  <2> QED
    BY <2>1, <2>2, <2>3, <2>4, Zenon
<1>4. chained(s)'
  <2>1. (\A q \in payloads[s] : leadsOn(q))'
    BY <1>1 DEF ChainInv, chained, leadsOn
  <2>2. 2..1 = {}
    OBVIOUS
  <2>3. "phase" \in DOMAIN view'[s] /\ view'[s].phase \notin Unproved
    BY <1>1, <1>2 DEF leadsOn
  <2> QED
    BY <1>1, <1>3, <2>1, <2>2, <2>3 DEF Accepts, chained
<1> QED
  BY <1>4, AcceptedElsewhere

\* a later proof: its inputs are built from what the session has of the chain
LEMMA LaterAccepted ==
  ASSUME ChainInv, NEW s \in Sessions, NEW p \in payloads[s], NEW ses,
         view[s].phase \notin Unproved, Accepts(s, p, ses),
         NEW kind \in Kinds, NEW inputs, verifies(p, kind, inputs),
         inputs.proofSequence = session[s].proofSequence + 1,
         inputs.deckCommitment = session[s].deckCommitment,
         kind = "action" =>
           inputs.oldPlayerStateCommitment = session[s].playerStateCommitment,
         ses.proofSequence = session[s].proofSequence + 1,
         ses.deckCommitment = session[s].deckCommitment
  PROVE  ChainInv'
<1> DEFINE old == accepted[s]
           new == accepted'[s]
<1>1. /\ session'[s] = ses /\ view'[s] = p.publicState
      /\ new = Append(old, p) /\ payloads' = payloads
  BY DEF ChainInv, Accepts, applyPublicState
<1>2. chained(s) /\ old \in Seq(payloads[s]) /\ old # <<>> /\ leadsOn(p)
  BY DEF ChainInv, chained
<1>3. /\ Len(old) \in Nat /\ Len(old) > 0
      /\ new \in Seq(payloads[s]) /\ Len(new) = Len(old) + 1 /\ new # <<>>
      /\ \A n \in 1..Len(old) : new[n] = old[n]
      /\ new[Len(old) + 1] = p
  <2>1. old \in Seq(payloads[s]) /\ old # <<>> /\ new = Append(old, p)
    BY <1>1, <1>2
  <2> HIDE DEF old, new
  <2>2. Len(old) \in Nat \ {0}
    BY <2>1, EmptySeq
  <2>3. new \in Seq(payloads[s]) /\ Len(new) = Len(old) + 1 /\ new # <<>>
        /\ (\A n \in 1..Len(old) : new[n] = old[n]) /\ new[Len(old) + 1] = p
    BY <2>1, AppendProperties
  <2> QED
    BY <2>2, <2>3
<1>4. Last(new) = p /\ new[1] = old[1] /\ Last(old) = old[Len(old)]
  BY <1>3 DEF Last
<1>5. /\ session[s].proofSequence = Len(old)
      /\ session[s].deckCommitment = old[1].deckCommitment
      /\ session[s].playerStateCommitment = old[Len(old)].playerStateCommitment
  BY <1>2, <1>4 DEF chained
<1>6. /\ p.proof.inputs.proofSequence = Len(old) + 1
      /\ p.proof.inputs.deckCommitment = old[1].deckCommitment
      /\ p.phase = "action" =>
           p.proof.inputs.oldPlayerStateCommitment = old[Len(old)].playerStateCommitment
  <2>1. p.proof.inputs = inputs /\ p.proof.circuit = blackjackCircuitForPhase[kind]
    BY DEF verifies
  <2>2. p.phase = kind
    BY <1>2, <2>1, CircuitsDiffer DEF leadsOn
  <2> QED
    BY <1>5, <2>1, <2>2
<1> HIDE DEF old, new
<1>7. ASSUME NEW n \in 2..Len(new)
      PROVE  /\ new[n].proof.inputs.proofSequence = n
             /\ new[n].proof.inputs.deckCommitment = new[1].deckCommitment
             /\ new[n].phase = "action" =>
                  new[n].proof.inputs.oldPlayerStateCommitment =
                    new[n - 1].playerStateCommitment
  <2>1. CASE n = Len(old) + 1
    <3>1. n - 1 = Len(old) /\ n - 1 \in 1..Len(old) /\ new[n] = p
      BY <1>3, <2>1
    <3> QED
      BY <1>3, <1>4, <1>6, <2>1, <3>1
  <2>2. CASE n # Len(old) + 1
    <3>1. n \in 2..Len(old) /\ n \in 1..Len(old) /\ n - 1 \in 1..Len(old)
      BY <1>3, <2>2
    <3>2. new[n] = old[n] /\ new[n - 1] = old[n - 1]
      BY <1>3, <3>1
    <3>3. /\ old[n].proof.inputs.proofSequence = n
          /\ old[n].proof.inputs.deckCommitment = old[1].deckCommitment
          /\ old[n].phase = "action" =>
               old[n].proof.inputs.oldPlayerStateCommitment = old[n - 1].playerStateCommitment
      BY <1>2, <3>1 DEF chained, old
    <3> QED
      BY <1>4, <3>2, <3>3
  <2> QED
    BY <2>1, <2>2
<1>8. "phase" \in DOMAIN view'[s] /\ view'[s].phase \notin Unproved
  BY <1>1, <1>2 DEF leadsOn
<1>9. /\ session'[s].proofSequence = Len(new)
      /\ session'[s].deckCommitment = new[1].deckCommitment
      /\ session'[s].playerStateCommitment = Last(new).playerStateCommitment
      /\ ChainFields \subseteq DOMAIN session'[s]
  BY <1>1, <1>3, <1>4, <1>5 DEF Accepts
<1>10. chained(s)'
  <2>1. (\A q \in payloads[s] : leadsOn(q))'
    BY <1>1, <1>2 DEF chained, leadsOn
  <2>2. accepted'[s] \in Seq(payloads'[s])
    BY <1>1, <1>3 DEF new
  <2> QED
    BY <1>3, <1>7, <1>8, <1>9, <2>1, <2>2 DEF chained, new
<1> QED
  BY <1>10, AcceptedElsewhere

-----------------------------------------------------------------------------
(* The steps of the other parties                                          *)

LEMMA SameChain ==
  ASSUME ChainInv, NEW s \in Sessions, NEW ses, NEW seen,
         session' = [session EXCEPT ![s] = ses], view' = [view EXCEPT ![s] = seen],
         UNCHANGED <<payloads, accepted>>,
         DOMAIN ses = DOMAIN session[s], \A f \in ChainFields : ses[f] = session[s][f],
         "phase" \in DOMAIN seen, seen.phase \in Unproved <=> view[s].phase \in Unproved
  PROVE  ChainInv'
<1>1. session'[s] = ses /\ view'[s] = seen
  BY DEF ChainInv
<1> QED
  BY <1>1, UntouchedChain DEF Untouched

\* decisions of the player
LEMMA DeclareChain ==
  ASSUME ChainInv, NEW s \in Sessions, NEW action, declareAction(s, action)
  PROVE  ChainInv'
<1> DEFINE paid == requiredAdditionalBurn(s, action)
           ses == [session[s] EXCEPT !.totalBurned = @ + paid, !.pendingAction = action,
                                     !.pendingAdditionalBurn = paid, !.deadline = "none"]
           seen == [view[s] EXCEPT !.phase = PHASE.AWAITING_COORDINATOR_ACTION]
<1> HIDE DEF paid
<1>1. session' = [session EXCEPT ![s] = ses]
  BY DEF declareAction, declared, ChainInv, paid
<1>2. view' = [view EXCEPT ![s] = seen]
  BY DEF declareAction, ChainInv
<1>3. DOMAIN ses = DOMAIN session[s] /\ \A f \in ChainFields : ses[f] = session[s][f]
  BY DEF ChainFields
<1>4. /\ "phase" \in DOMAIN seen /\ seen.phase = 6 /\ view[s].phase = 5
      /\ 5 \notin Unproved /\ 6 \notin Unproved
  BY Phases DEF ChainInv, chained, declareAction, at
<1>5. UNCHANGED <<payloads, accepted>>
  BY DEF declareAction
<1> HIDE DEF ses, seen
<1> QED
  BY <1>1, <1>2, <1>3, <1>4, <1>5, SameChain

LEMMA InsuranceChain ==
  ASSUME ChainInv, NEW s \in Sessions, NEW amount, insurance(s, amount)
  PROVE  ChainInv'
<1> DEFINE ses == [session[s] EXCEPT !.totalBurned = @ + amount, !.deadline = "none"]
           seen == [view[s] EXCEPT !.insuranceStake = amount,
                                   !.insuranceStatus = INSURANCE.TAKEN,
                                   !.insuranceAvailable = FALSE,
                                   !.phase = PHASE.AWAITING_PEEK_RESOLUTION]
<1>1. session' = [session EXCEPT ![s] = ses]
  BY DEF insurance, ChainInv
<1>2. view' = [view EXCEPT ![s] = seen]
  BY DEF insurance, ChainInv
<1>3. DOMAIN ses = DOMAIN session[s] /\ \A f \in ChainFields : ses[f] = session[s][f]
  BY DEF ChainFields
<1>4. /\ "phase" \in DOMAIN seen /\ seen.phase = 3 /\ view[s].phase = 2
      /\ 2 \notin Unproved /\ 3 \notin Unproved
  BY Phases DEF ChainInv, chained, insurance, at
<1>5. UNCHANGED <<payloads, accepted>>
  BY DEF insurance
<1> HIDE DEF ses, seen
<1> QED
  BY <1>1, <1>2, <1>3, <1>4, <1>5, SameChain

LEMMA SurrenderChain ==
  ASSUME ChainInv, NEW s \in Sessions, surrender(s)
  PROVE  ChainInv'
<1> DEFINE ses == [session[s] EXCEPT !.deadline = "none"]
           seen == surrendered(view[s])
<1>1. session' = [session EXCEPT ![s] = ses]
  BY DEF surrender, ChainInv
<1>2. view' = [view EXCEPT ![s] = seen]
  BY DEF surrender
<1>3. DOMAIN ses = DOMAIN session[s] /\ \A f \in ChainFields : ses[f] = session[s][f]
  BY DEF ChainFields
<1>4. /\ "phase" \in DOMAIN seen /\ seen.phase = 7 /\ view[s].phase \in {2, 4}
      /\ 2 \notin Unproved /\ 4 \notin Unproved /\ 7 \notin Unproved
  BY Phases DEF ChainInv, chained, surrender, surrendered, at
<1>5. UNCHANGED <<payloads, accepted>>
  BY DEF surrender
<1> HIDE DEF ses, seen
<1> QED
  BY <1>1, <1>2, <1>3, <1>4, <1>5, SameChain

\* windows that close, by the player or by the clock
LEMMA AdvanceChain ==
  ASSUME ChainInv, NEW s \in Sessions, advanceDecisionWindow(s),
         UNCHANGED <<payloads, accepted>>
  PROVE  ChainInv'
<1> DEFINE closed(deadline) == [session[s] EXCEPT !.deadline = deadline]
<1>1. /\ DOMAIN closed("none") = DOMAIN session[s]
      /\ \A f \in ChainFields : closed("none")[f] = session[s][f]
      /\ DOMAIN closed("open") = DOMAIN session[s]
      /\ \A f \in ChainFields : closed("open")[f] = session[s][f]
  BY DEF ChainFields
<1>2. "phase" \in DOMAIN view[s] /\ {2, 3, 4, 5} \cap Unproved = {}
  BY Phases DEF ChainInv, chained
<1>3. CASE /\ at(s, PHASE.AWAITING_PREPLAY_DECISION)
           /\ view' = [view EXCEPT ![s].insuranceStatus = declined(@, INSURANCE),
                                   ![s].insuranceAvailable = FALSE,
                                   ![s].phase = PHASE.AWAITING_PEEK_RESOLUTION]
           /\ session' = [session EXCEPT ![s].deadline = "none"]
  <2> DEFINE seen == [view[s] EXCEPT !.insuranceStatus = declined(@, INSURANCE),
                                     !.insuranceAvailable = FALSE,
                                     !.phase = PHASE.AWAITING_PEEK_RESOLUTION]
  <2>1. session' = [session EXCEPT ![s] = closed("none")] /\ view' = [view EXCEPT ![s] = seen]
    BY <1>3 DEF ChainInv
  <2>2. /\ "phase" \in DOMAIN seen
        /\ seen.phase \in Unproved <=> view[s].phase \in Unproved
    BY <1>2, <1>3, Phases DEF at
  <2> HIDE DEF seen, closed
  <2> QED
    BY <1>1, <2>1, <2>2, SameChain
<1>4. CASE /\ at(s, PHASE.AWAITING_PREPLAY_DECISION)
           /\ view' = [view EXCEPT ![s].surrenderStatus = declined(@, SURRENDER),
                                   ![s].surrenderAvailable = FALSE,
                                   ![s].phase = PHASE.AWAITING_PEEK_RESOLUTION]
           /\ session' = [session EXCEPT ![s].deadline = "none"]
  <2> DEFINE seen == [view[s] EXCEPT !.surrenderStatus = declined(@, SURRENDER),
                                     !.surrenderAvailable = FALSE,
                                     !.phase = PHASE.AWAITING_PEEK_RESOLUTION]
  <2>1. session' = [session EXCEPT ![s] = closed("none")] /\ view' = [view EXCEPT ![s] = seen]
    BY <1>4 DEF ChainInv
  <2>2. /\ "phase" \in DOMAIN seen
        /\ seen.phase \in Unproved <=> view[s].phase \in Unproved
    BY <1>2, <1>4, Phases DEF at
  <2> HIDE DEF seen, closed
  <2> QED
    BY <1>1, <2>1, <2>2, SameChain
<1>5. CASE /\ at(s, PHASE.AWAITING_POSTPEEK_DECISION)
           /\ view' = [view EXCEPT ![s].surrenderStatus = declined(@, SURRENDER),
                                   ![s].surrenderAvailable = FALSE,
                                   ![s].decisionType = DECISION.NONE,
                                   ![s].phase = PHASE.AWAITING_PLAYER_ACTION]
           /\ session' = [session EXCEPT ![s].deadline = "open"]
  <2> DEFINE seen == [view[s] EXCEPT !.surrenderStatus = declined(@, SURRENDER),
                                     !.surrenderAvailable = FALSE,
                                     !.decisionType = DECISION.NONE,
                                     !.phase = PHASE.AWAITING_PLAYER_ACTION]
  <2>1. session' = [session EXCEPT ![s] = closed("open")] /\ view' = [view EXCEPT ![s] = seen]
    BY <1>5 DEF ChainInv
  <2>2. /\ "phase" \in DOMAIN seen
        /\ seen.phase \in Unproved <=> view[s].phase \in Unproved
    BY <1>2, <1>5, Phases DEF at
  <2> HIDE DEF seen, closed
  <2> QED
    BY <1>1, <2>1, <2>2, SameChain
<1> QED
  BY <1>3, <1>4, <1>5, Zenon DEF advanceDecisionWindow

LEMMA TimeoutChain ==
  ASSUME ChainInv, NEW s \in Sessions, claimPlayerTimeout(s)
  PROVE  ChainInv'
<1>1. UNCHANGED <<payloads, accepted>>
  BY DEF claimPlayerTimeout
<1>2. CASE at(s, PHASE.AWAITING_PLAYER_ACTION)
  <2> DEFINE ses == [session[s] EXCEPT !.pendingAction = "STAND",
                                       !.pendingAdditionalBurn = 0, !.deadline = "none"]
             seen == [view[s] EXCEPT !.phase = PHASE.AWAITING_COORDINATOR_ACTION]
  <2>1. session' = [session EXCEPT ![s] = ses] /\ view' = [view EXCEPT ![s] = seen]
    BY <1>2 DEF claimPlayerTimeout, ChainInv
  <2>2. DOMAIN ses = DOMAIN session[s] /\ \A f \in ChainFields : ses[f] = session[s][f]
    BY DEF ChainFields
  <2>3. /\ "phase" \in DOMAIN seen
        /\ seen.phase \in Unproved <=> view[s].phase \in Unproved
    BY <1>2, Phases DEF at, ChainInv, chained
  <2> HIDE DEF ses, seen
  <2> QED
    BY <1>1, <2>1, <2>2, <2>3, SameChain
<1>3. CASE ~at(s, PHASE.AWAITING_PLAYER_ACTION)
  BY <1>1, <1>3, AdvanceChain DEF claimPlayerTimeout
<1> QED
  BY <1>2, <1>3

LEMMA TickChain ==
  ASSUME ChainInv, NEW s \in Sessions, Tick(s)
  PROVE  ChainInv'
<1>1. /\ UNCHANGED <<view, payloads, accepted>>
      /\ session' = [session EXCEPT ![s].deadline = "passed"]
  BY DEF Tick
<1>2. ASSUME NEW t \in Sessions
      PROVE  chained(t)'
  <2>1. /\ DOMAIN session'[t] = DOMAIN session[t]
        /\ \A f \in ChainFields : session'[t][f] = session[t][f]
    BY <1>1 DEF ChainInv, ChainFields
  <2>2. chained(t)
    BY DEF ChainInv
  <2>3. /\ session'[t].proofSequence = session[t].proofSequence
        /\ session'[t].deckCommitment = session[t].deckCommitment
        /\ session'[t].playerStateCommitment = session[t].playerStateCommitment
    BY <2>1 DEF ChainFields
  <2> QED
    BY <1>1, <2>1, <2>2, <2>3 DEF chained
<1> QED
  BY <1>1, <1>2 DEF ChainInv

LEMMA SettleChain ==
  ASSUME ChainInv, UNCHANGED <<session, view, payloads, accepted>>
  PROVE  ChainInv'
  BY DEF ChainInv, chained

\* a session that is opened is as it was but for its wager and phase
LEMMA StartChain ==
  ASSUME ChainInv, NEW s \in Sessions, startHand(s)
  PROVE  ChainInv'
<1> DEFINE ses == [NoSession EXCEPT !.wager = Wager, !.totalBurned = Wager,
                                    !.playerKeyCommitment = playerKey(s, s)]
           seen == [NoView EXCEPT !.phase = PHASE.AWAITING_INITIAL_DEAL, !.handCount = 1,
                                  !.hands[1].wager = Wager]
<1>1. /\ session' = [session EXCEPT ![s] = ses] /\ view' = [view EXCEPT ![s] = seen]
      /\ UNCHANGED <<payloads, accepted>>
  BY DEF startHand
<1>2. ChainFields \subseteq DOMAIN ses /\ ses.proofSequence = 0
  BY DEF NoSession, ChainFields
<1>3. "phase" \in DOMAIN seen /\ seen.phase = 1 /\ 1 \in Unproved
  BY Phases DEF NoView
<1>4. accepted[s] = <<>> /\ chained(s)
  BY Phases DEF startHand, opened, at, ChainInv, chained
<1> HIDE DEF ses, seen
<1>5. session'[s] = ses /\ view'[s] = seen
  BY <1>1 DEF ChainInv
<1>6. chained(s)'
  <2>1. Len(<<>>) = 0 /\ 2..0 = {}
    OBVIOUS
  <2> QED
    BY <1>1, <1>2, <1>3, <1>4, <1>5, <2>1 DEF chained
<1>7. ASSUME NEW t \in Sessions, t # s
      PROVE  chained(t)'
  <2>1. /\ session'[t] = session[t] /\ view'[t] = view[t]
        /\ UNCHANGED <<payloads, accepted>> /\ chained(t)
    BY <1>1, <1>7 DEF ChainInv
  <2> QED
    BY <2>1 DEF chained
<1>8. /\ DOMAIN session' = Sessions /\ DOMAIN view' = Sessions
      /\ DOMAIN accepted' = Sessions /\ DOMAIN payloads' = Sessions
  BY <1>1 DEF ChainInv
<1> QED
  BY <1>6, <1>7, <1>8 DEF ChainInv

\* the sessions after the four kinds of proof
LEMMA Committed ==
  ASSUME NEW ses, NEW p, ChainFields \subseteq DOMAIN ses
  PROVE  /\ ChainFields \subseteq DOMAIN committed(ses, p)
         /\ committed(ses, p).playerStateCommitment = p.playerStateCommitment
         /\ committed(ses, p).proofSequence = ses.proofSequence
         /\ committed(ses, p).deckCommitment = ses.deckCommitment
  BY DEF committed, ChainFields

LEMMA Acted ==
  ASSUME NEW ses
  PROVE  /\ DOMAIN acted(ses) = DOMAIN ses
         /\ \A f \in ChainFields : acted(ses)[f] = ses[f]
  BY DEF acted, ChainFields

LEMMA NextCommitted ==
  ASSUME NEW ses, NEW p, ChainFields \subseteq DOMAIN ses
  PROVE  LET next == [committed(ses, p) EXCEPT !.proofSequence = @ + 1] IN
         /\ ChainFields \subseteq DOMAIN next
         /\ next.playerStateCommitment = p.playerStateCommitment
         /\ next.proofSequence = ses.proofSequence + 1
         /\ next.deckCommitment = ses.deckCommitment
<1> DEFINE c == committed(ses, p)
<1>1. /\ ChainFields \subseteq DOMAIN c
      /\ c.playerStateCommitment = p.playerStateCommitment
      /\ c.proofSequence = ses.proofSequence
      /\ c.deckCommitment = ses.deckCommitment
  BY Committed
<1> HIDE DEF c
<1> DEFINE next == [c EXCEPT !.proofSequence = @ + 1]
<1>2. /\ ChainFields \subseteq DOMAIN next
      /\ next.playerStateCommitment = p.playerStateCommitment
      /\ next.proofSequence = ses.proofSequence + 1
      /\ next.deckCommitment = ses.deckCommitment
  BY <1>1 DEF ChainFields
<1> QED
  BY <1>2 DEF c

\* the inputs the engine builds for the later proofs
LEMMA LaterInputs ==
  ASSUME NEW s, NEW p
  PROVE  /\ buildPeekInputs(s, p).proofSequence = session[s].proofSequence + 1
         /\ buildPeekInputs(s, p).deckCommitment = session[s].deckCommitment
         /\ buildActionInputs(s, p).proofSequence = session[s].proofSequence + 1
         /\ buildActionInputs(s, p).deckCommitment = session[s].deckCommitment
         /\ buildActionInputs(s, p).oldPlayerStateCommitment =
              session[s].playerStateCommitment
<1> DEFINE later == buildPeekInputs(s, p)
<1>1. /\ {"pendingAction", "oldPlayerStateCommitment"} \subseteq DOMAIN later
      /\ later.proofSequence = session[s].proofSequence + 1
      /\ later.deckCommitment = session[s].deckCommitment
  BY DEF buildPeekInputs, sharedInputs
<1> HIDE DEF later
<1> DEFINE ofAction == [later EXCEPT
             !.pendingAction = session[s].pendingAction,
             !.oldPlayerStateCommitment = session[s].playerStateCommitment]
<1>2. /\ ofAction.proofSequence = session[s].proofSequence + 1
      /\ ofAction.deckCommitment = session[s].deckCommitment
      /\ ofAction.oldPlayerStateCommitment = session[s].playerStateCommitment
  BY <1>1
<1>3. buildActionInputs(s, p) = ofAction
  BY DEF buildActionInputs, later
<1> QED
  BY <1>1, <1>2, <1>3 DEF later

LEMMA SubmitChain ==
  ASSUME ChainInv, NEW s \in Sessions, submitProof(s)
  PROVE  ChainInv'
<1>1. PICK p \in payloads[s] :
        \/ submitInitialDealProof(s, p) \/ submitPeekProof(s, p)
        \/ submitActionProof(s, p) \/ submitShowdownProof(s, p)
  BY DEF submitProof
<1> DEFINE next == [committed(session[s], p) EXCEPT !.proofSequence = @ + 1]
<1>2. ChainFields \subseteq DOMAIN session[s]
  BY DEF ChainInv, chained
<1>3. /\ ChainFields \subseteq DOMAIN next
      /\ next.playerStateCommitment = p.playerStateCommitment
      /\ next.proofSequence = session[s].proofSequence + 1
      /\ next.deckCommitment = session[s].deckCommitment
  BY <1>2, NextCommitted
<1> HIDE DEF next
<1>4. /\ ChainFields \subseteq DOMAIN acted(next)
      /\ acted(next).playerStateCommitment = p.playerStateCommitment
      /\ acted(next).proofSequence = session[s].proofSequence + 1
      /\ acted(next).deckCommitment = session[s].deckCommitment
  BY <1>3, Acted DEF ChainFields
<1>5. CASE submitInitialDealProof(s, p)
  <2> DEFINE c == committed(session[s], p)
             first == [c EXCEPT !.proofSequence = 1, !.deckCommitment = p.deckCommitment]
  <2>1. ChainFields \subseteq DOMAIN c /\ c.playerStateCommitment = p.playerStateCommitment
    BY <1>2, Committed
  <2>2. applyPublicState(s, p, first) /\ view[s].phase \in Unproved
    BY <1>5, Phases DEF submitInitialDealProof, at
  <2> HIDE DEF c
  <2>3. /\ ChainFields \subseteq DOMAIN first
        /\ first.playerStateCommitment = p.playerStateCommitment
        /\ first.proofSequence = 1 /\ first.deckCommitment = p.deckCommitment
    BY <2>1 DEF ChainFields
  <2> HIDE DEF first
  <2> QED
    BY <2>2, <2>3, FirstAccepted DEF Accepts
<1>6. CASE submitPeekProof(s, p)
  <2>1. Accepts(s, p, next) /\ verifies(p, "peek", buildPeekInputs(s, p))
    BY <1>3, <1>6 DEF submitPeekProof, Accepts, next
  <2>2. view[s].phase \notin Unproved
    BY <1>6, Phases DEF submitPeekProof, at
  <2> QED
    BY <1>3, <2>1, <2>2, LaterInputs, LaterAccepted DEF Kinds
<1>7. CASE submitActionProof(s, p)
  <2>1. Accepts(s, p, acted(next)) /\ verifies(p, "action", buildActionInputs(s, p))
    BY <1>4, <1>7 DEF submitActionProof, Accepts, next
  <2>2. view[s].phase \notin Unproved
    BY <1>7, Phases DEF submitActionProof, at
  <2> QED
    BY <1>4, <2>1, <2>2, LaterInputs, LaterAccepted DEF Kinds
<1>8. CASE submitShowdownProof(s, p)
  <2>1. Accepts(s, p, acted(next)) /\ verifies(p, "showdown", buildPeekInputs(s, p))
    BY <1>4, <1>8 DEF submitShowdownProof, buildShowdownInputs, Accepts, next
  <2>2. view[s].phase \notin Unproved
    BY <1>8, Phases DEF submitShowdownProof, at
  <2> QED
    BY <1>4, <2>1, <2>2, LaterInputs, LaterAccepted DEF Kinds
<1> QED
  BY <1>1, <1>5, <1>6, <1>7, <1>8

-----------------------------------------------------------------------------
(* The theorem                                                             *)

LEMMA InitChain == Init => ChainInv
<1> SUFFICES ASSUME Init PROVE ChainInv
  OBVIOUS
<1>1. Len(<<>>) = 0 /\ 2..0 = {}
  OBVIOUS
<1>2. ASSUME NEW s \in Sessions
      PROVE  chained(s)
  <2>1. ChainFields \subseteq DOMAIN session[s] /\ session[s].proofSequence = 0
    BY DEF Init, NoSession, ChainFields
  <2>2. "phase" \in DOMAIN view[s] /\ view[s].phase = 0 /\ 0 \in Unproved
    BY Phases DEF Init, NoView
  <2>3. accepted[s] = <<>> /\ payloads[s] = {} /\ <<>> \in Seq({})
    BY DEF Init
  <2> QED
    BY <1>1, <2>1, <2>2, <2>3 DEF chained
<1> QED
  BY <1>2 DEF Init, ChainInv

LEMMA NextChain == ChainInv /\ [Next]_vars => ChainInv'
<1> SUFFICES ASSUME ChainInv, [Next]_vars PROVE ChainInv'
  OBVIOUS
<1>1. CASE UNCHANGED vars
  BY <1>1, SettleChain DEF vars
<1>2. ASSUME NEW s \in Sessions, Play(s) PROVE ChainInv'
  <2>1. CASE startHand(s)
    BY <2>1, StartChain
  <2>2. CASE \E action \in PlayerActions : declareAction(s, action)
    BY <2>2, DeclareChain
  <2>3. CASE \E amount \in InsuranceStakes : insurance(s, amount)
    BY <2>3, InsuranceChain
  <2>4. CASE surrender(s)
    BY <2>4, SurrenderChain
  <2>5. CASE continuePlay(s)
    BY <2>5, AdvanceChain DEF continuePlay
  <2> QED
    BY <1>2, <2>1, <2>2, <2>3, <2>4, <2>5 DEF Play
<1>3. ASSUME NEW s \in Sessions, Coordinate(s) PROVE ChainInv'
  <2>1. CASE ProveInitialDeal(s) \/ ProvePeek(s) \/ ProveAction(s) \/ ProveShowdown(s)
    BY <2>1, CoordinatorProves, ProvedChain
  <2>2. CASE submitProof(s)
    BY <2>2, SubmitChain
  <2> QED
    BY <1>3, <2>1, <2>2 DEF Coordinate
<1>4. ASSUME NEW s \in Sessions, Tick(s) PROVE ChainInv'
  BY <1>4, TickChain
<1>5. ASSUME NEW s \in Sessions, claimPlayerTimeout(s) PROVE ChainInv'
  BY <1>5, TimeoutChain
<1>6. ASSUME NEW s \in Sessions, settle(s) PROVE ChainInv'
  BY <1>6, SettleChain DEF settle
<1> QED
  BY <1>1, <1>2, <1>3, <1>4, <1>5, <1>6 DEF Next

\* The proofs a session's engine accepts are numbered without a gap or a
\* repetition, are of the deck the first one committed to, and each action
\* continues from the cards of the proof before it, whatever is dealt and
\* drawn and however many proofs the coordinator keeps and sends again
\* (BlackjackEngine.sol:707).
THEOREM ProofsAlwaysChain == Spec => []ProofChain
<1>1. ChainInv => ProofChain
  BY DEF ChainInv, chained, ProofChain
<1> QED
  BY <1>1, InitChain, NextChain, PTL DEF Spec

-----------------------------------------------------------------------------
(* Lists and sums                                                          *)

LEMMA SumOfFour ==
  ASSUME NEW f, DOMAIN f = HandIds, \A i \in HandIds : f[i] \in Int
  PROVE  SumFunction(f) = f[1] + f[2] + f[3] + f[4]
<1>1. /\ HandIds \ {1} = {2, 3, 4} /\ {2, 3, 4} \ {2} = {3, 4}
      /\ {3, 4} \ {3} = {4} /\ {4} \ {4} = {}
  BY DEF HandIds
<1>2. /\ IsFiniteSet(HandIds) /\ IsFiniteSet({2, 3, 4})
      /\ IsFiniteSet({3, 4}) /\ IsFiniteSet({4})
  <2>1. IsFiniteSet(HandIds)
    <3>1. 1 \in Int /\ 4 \in Int
      OBVIOUS
    <3> QED
      BY <3>1, FS_Interval, Zenon DEF HandIds
  <2>2. IsFiniteSet({2, 3, 4})
    BY <1>1, <2>1, FS_Subset
  <2>3. IsFiniteSet({3, 4}) /\ IsFiniteSet({4})
    BY <2>2, FS_Subset
  <2> QED
    BY <2>1, <2>2, <2>3
<1>3. SumFunctionOnSet(f, HandIds) = f[1] + SumFunctionOnSet(f, {2, 3, 4})
  BY <1>1, <1>2, SumTakeOut DEF HandIds
<1>4. SumFunctionOnSet(f, {2, 3, 4}) = f[2] + SumFunctionOnSet(f, {3, 4})
  BY <1>1, <1>2, SumTakeOut DEF HandIds
<1>5. SumFunctionOnSet(f, {3, 4}) = f[3] + SumFunctionOnSet(f, {4})
  BY <1>1, <1>2, SumTakeOut DEF HandIds
<1>6. SumFunctionOnSet(f, {4}) = f[4] + 0
  BY <1>1, <1>2, SumTakeOut, SumOfNothing DEF HandIds
<1>7. f[1] \in Int /\ f[2] \in Int /\ f[3] \in Int /\ f[4] \in Int
  BY DEF HandIds
<1> QED
  BY <1>3, <1>4, <1>5, <1>6, <1>7 DEF SumFunction

LEMMA LesserOfTwo ==
  ASSUME NEW a \in Int, NEW b \in Int, a <= b
  PROVE  Min({a, b}) = a
  BY DEF Min

\* a list is its first part with the next element appended
LEMMA FirstPart ==
  ASSUME NEW S, NEW s \in Seq(S), NEW n \in 1..Len(s)
  PROVE  /\ SubSeq(s, 1, n - 1) \in Seq(S)
         /\ Append(SubSeq(s, 1, n - 1), s[n]) = SubSeq(s, 1, n)
<1> DEFINE t == SubSeq(s, 1, n - 1)
           u == SubSeq(s, 1, n)
<1>1. Len(s) \in Nat /\ n \in Int /\ 1 <= n /\ n <= Len(s) /\ s[n] \in S
  BY ElementOfSeq, LenProperties
<1>2. /\ t \in Seq(S) /\ Len(t) = n - 1
      /\ \A i \in 1..(n - 1) : t[i] = s[i]
  BY <1>1, SubSeqProperties
<1>3. /\ u \in Seq(S) /\ Len(u) = n /\ \A i \in 1..n : u[i] = s[i]
  BY <1>1, SubSeqProperties
<1> HIDE DEF t, u
<1>4. /\ Append(t, s[n]) \in Seq(S) /\ Len(Append(t, s[n])) = n
      /\ \A i \in 1..n : Append(t, s[n])[i] = s[i]
  BY <1>1, <1>2, AppendProperties
<1>5. Append(t, s[n]) = u
  BY <1>3, <1>4, SeqEqual
<1> QED
  BY <1>2, <1>5 DEF t, u

LEMMA RealCards ==
  ASSUME NEW cards \in Seq(Cards)
  PROVE  realCards(cards) = cards
<1> DEFINE N == Len(cards)
           S == Cards
           filter(f, n) == IF n = 0 THEN <<>>
             ELSE IF cards[n] = CARD_EMPTY THEN f[n - 1] ELSE Append(f[n - 1], cards[n])
           isFilter(f) == f = [n \in 0..N |-> filter(f, n)]
           first == [n \in 0..N |-> SubSeq(cards, 1, n)]
           upTo == CHOOSE f : isFilter(f)
<1>1. realCards(cards) = upTo[N]
  BY DEF realCards
<1>2. cards \in Seq(S) /\ N \in Nat /\ N = Len(cards) /\ \A n \in 1..N : cards[n] # CARD_EMPTY
  <2>1. \A n \in 1..Len(cards) : cards[n] \in Cards
    BY ElementOfSeq
  <2>2. Len(cards) \in Nat
    BY LenProperties
  <2>3. CARD_EMPTY \notin Cards
    BY DEF Cards, CARD_EMPTY
  <2> QED
    BY <2>1, <2>2, <2>3
<1> HIDE DEF N, S
<1>3. SubSeq(cards, 1, 0) = <<>> /\ SubSeq(cards, 1, N) = cards
  <2>1. SubSeq(cards, 1, 0) \in Seq(S) /\ Len(SubSeq(cards, 1, 0)) = 0
    BY <1>2, SubSeqProperties
  <2>2. /\ SubSeq(cards, 1, N) \in Seq(S) /\ Len(SubSeq(cards, 1, N)) = N
        /\ \A i \in 1..N : SubSeq(cards, 1, N)[i] = cards[i]
    BY <1>2, SubSeqProperties
  <2> QED
    BY <1>2, <2>1, <2>2, SeqEqual, EmptySeq
<1>4. \A n \in 1..N : Append(SubSeq(cards, 1, n - 1), cards[n]) = SubSeq(cards, 1, n)
  BY <1>2, FirstPart
<1>5. isFilter(first)
  <2>1. ASSUME NEW n \in 0..N PROVE first[n] = filter(first, n)
    <3>1. CASE n = 0
      BY <1>3, <3>1
    <3>2. CASE n # 0
      <4>1. n \in 1..N /\ n - 1 \in 0..N
        BY <1>2, <3>2
      <4>2. filter(first, n) = Append(first[n - 1], cards[n])
        BY <1>2, <4>1
      <4>3. first[n - 1] = SubSeq(cards, 1, n - 1) /\ first[n] = SubSeq(cards, 1, n)
        BY <4>1
      <4> QED BY <1>4, <4>1, <4>2, <4>3
    <3> QED BY <3>1, <3>2
  <2> QED
    BY <2>1
<1>6. isFilter(upTo)
  BY <1>5
<1> HIDE DEF upTo
<1>7. /\ \A n \in 0..N : upTo[n] = filter(upTo, n)
  <2> HIDE DEF filter
  <2> QED BY <1>6
<1> DEFINE Bad == {n \in 0..N : upTo[n] # SubSeq(cards, 1, n)}
<1>8. Bad = {}
  <2> SUFFICES ASSUME Bad # {} PROVE FALSE
    OBVIOUS
  <2>1. PICK k \in Bad : \A j \in Bad : k <= j
    <3> Bad \in SUBSET (0..N)
      OBVIOUS
    <3> HIDE DEF Bad
    <3> QED BY <1>2, LeastNumber
  <2>2. k # 0
    BY <1>3, <1>7, <2>1
  <2>3. k \in 1..N /\ k - 1 \in 0..N
    BY <1>2, <2>1, <2>2
  <2>4. k - 1 \notin Bad
    <3> HIDE DEF Bad
    <3> QED BY <2>1, <2>3
  <2>5. upTo[k - 1] = SubSeq(cards, 1, k - 1)
    BY <2>3, <2>4
  <2>6. upTo[k] = Append(upTo[k - 1], cards[k])
    <3>1. k \in 0..N /\ k # 0 /\ cards[k] # CARD_EMPTY
      BY <1>2, <2>3
    <3>2. upTo[k] = filter(upTo, k)
      <4> HIDE DEF filter
      <4> QED BY <1>7, <3>1
    <3> QED
      BY <3>1, <3>2
  <2> QED
    BY <1>4, <2>1, <2>3, <2>5, <2>6
<1> QED
  BY <1>1, <1>2, <1>3, <1>8

LEMMA NoCards ==
  realCards(<<>>) = <<>>
<1>1. <<>> \in Seq(Cards)
  BY EmptySeq
<1> QED
  BY <1>1, RealCards

LEMMA FourJoined ==
  ASSUME NEW S, NEW hands \in Seq(Seq(S)), Len(hands) = 4
  PROVE  /\ FlattenSeq(hands) \in Seq(S)
         /\ Len(FlattenSeq(hands)) =
              Len(hands[1]) + Len(hands[2]) + Len(hands[3]) + Len(hands[4])
<1> DEFINE step(f, i) == IF i = 1 THEN hands[i] ELSE f[i - 1] \o hands[i]
           isJoin(f) == f = [i \in 1..Len(hands) |-> step(f, i)]
           flatten == CHOOSE f : isJoin(f)
<1>1. FlattenSeq(hands) = flatten[4]
  BY DEF FlattenSeq
<1> DEFINE two == hands[1] \o hands[2]
           three == two \o hands[3]
           four4 == three \o hands[4]
           join == [i \in 1..Len(hands) |-> IF i = 1 THEN hands[1] ELSE IF i = 2 THEN two
                                  ELSE IF i = 3 THEN three ELSE four4]
<1>2. isJoin(join)
  <2>1. ASSUME NEW i \in 1..Len(hands) PROVE join[i] = step(join, i)
    <3>0. i \in Int /\ (i = 1 \/ i = 2 \/ i = 3 \/ i = 4)
      OBVIOUS
    <3> HIDE DEF two, three, four4
    <3>1. join[1] = hands[1] /\ join[2] = two /\ join[3] = three /\ join[4] = four4
      OBVIOUS
    <3> HIDE DEF join
    <3>2. CASE i = 1
      BY <3>1, <3>2
    <3>3. CASE i = 2
      <4>1. i - 1 = 1 /\ i # 1
        BY <3>3
      <4>2. step(join, i) = join[1] \o hands[2]
        BY <3>3, <4>1
      <4> QED BY <3>1, <3>3, <4>2 DEF two
    <3>4. CASE i = 3
      <4>1. i - 1 = 2 /\ i # 1
        BY <3>4
      <4>2. step(join, i) = join[2] \o hands[3]
        BY <3>4, <4>1
      <4> QED BY <3>1, <3>4, <4>2 DEF three
    <3>5. CASE i = 4
      <4>1. i - 1 = 3 /\ i # 1
        BY <3>5
      <4>2. step(join, i) = join[3] \o hands[4]
        BY <3>5, <4>1
      <4> QED BY <3>1, <3>5, <4>2 DEF four4
    <3> QED BY <3>0, <3>2, <3>3, <3>4, <3>5
  <2> HIDE DEF step
  <2> QED
    BY <2>1
<1>3. isJoin(flatten)
  BY <1>2
<1> HIDE DEF flatten, join
<1>4. \A i \in 1..4 : flatten[i] = step(flatten, i)
  <2> HIDE DEF step
  <2> QED BY <1>3
<1>5. /\ flatten[1] = hands[1] /\ flatten[2] = flatten[1] \o hands[2]
      /\ flatten[3] = flatten[2] \o hands[3] /\ flatten[4] = flatten[3] \o hands[4]
  BY <1>4
<1>6. /\ hands[1] \in Seq(S) /\ hands[2] \in Seq(S) /\ hands[3] \in Seq(S)
      /\ hands[4] \in Seq(S)
  <2>1. \A i \in 1..Len(hands) : hands[i] \in Seq(S)
    BY ElementOfSeq
  <2> QED
    BY <2>1
<1>7. flatten[2] \in Seq(S) /\ Len(flatten[2]) = Len(hands[1]) + Len(hands[2])
  BY <1>5, <1>6, ConcatProperties
<1>8. /\ flatten[3] \in Seq(S)
      /\ Len(flatten[3]) = Len(hands[1]) + Len(hands[2]) + Len(hands[3])
  BY <1>5, <1>6, <1>7, ConcatProperties
<1>9. /\ flatten[4] \in Seq(S)
      /\ Len(flatten[4]) = Len(hands[1]) + Len(hands[2]) + Len(hands[3]) + Len(hands[4])
  BY <1>5, <1>6, <1>8, ConcatProperties
<1> QED
  BY <1>1, <1>9

-----------------------------------------------------------------------------
(* The cards of the hands                                                  *)

\* how many cards, or what stake, each hand has
Sizes == [HandIds -> Nat]

\* hands of these sizes lie in the cards one after the other, the first is
\* not empty and none follows an empty one
parted(sizes, cards) ==
  /\ cards \in Seq(Cards) /\ sizes \in Sizes
  /\ sizes[1] + sizes[2] + sizes[3] + sizes[4] = Len(cards)
  /\ sizes[1] > 0 /\ \A i \in 1..3 : sizes[i] = 0 => sizes[i + 1] = 0

\* what the prover reads from a witness
ReadCards == Cards \cup {CARD_EMPTY}

LEMMA Starts ==
  ASSUME NEW sizes \in Sizes, NEW i \in HandIds
  PROVE  /\ deriveCardStarts(sizes)[i] \in Nat
         /\ deriveCardStarts(sizes)[i] + sizes[i] \in Nat
         /\ deriveCardStarts(sizes)[i] + sizes[i] <= sizes[1] + sizes[2] + sizes[3] + sizes[4]
<1>1. sizes[1] \in Nat /\ sizes[2] \in Nat /\ sizes[3] \in Nat /\ sizes[4] \in Nat
  BY DEF Sizes, HandIds
<1>2. i = 1 \/ i = 2 \/ i = 3 \/ i = 4
  BY DEF HandIds
<1> DEFINE start == deriveCardStarts(sizes)
<1>3. /\ start[1] = 0 /\ start[2] = sizes[1] /\ start[3] = sizes[1] + sizes[2]
      /\ start[4] = sizes[1] + sizes[2] + sizes[3]
  BY DEF deriveCardStarts
<1> HIDE DEF start
<1>4. start[i] \in Nat /\ start[i] + sizes[i] \in Nat
      /\ start[i] + sizes[i] <= sizes[1] + sizes[2] + sizes[3] + sizes[4]
  BY <1>1, <1>2, <1>3
<1> QED
  BY <1>4 DEF start

\* what each hand of a partition is
LEMMA PartOf ==
  ASSUME NEW cards, NEW sizes, NEW i \in HandIds
  PROVE  partitionHands(cards, sizes)[i] =
           realCards(SubSeq(cards, deriveCardStarts(sizes)[i] + 1,
                            Min({deriveCardStarts(sizes)[i] + sizes[i], Len(cards)})))
<1>1. i = 1 \/ i = 2 \/ i = 3 \/ i = 4
  BY DEF HandIds
<1> DEFINE part(k) == realCards(SubSeq(cards, deriveCardStarts(sizes)[k] + 1,
                            Min({deriveCardStarts(sizes)[k] + sizes[k], Len(cards)})))
<1>2. partitionHands(cards, sizes) = <<part(1), part(2), part(3), part(4)>>
  BY DEF partitionHands, each
<1> HIDE DEF part
<1>3. partitionHands(cards, sizes)[i] = part(i)
  BY <1>1, <1>2
<1> QED
  BY <1>3 DEF part

\* dealt cards are parted into the hands as they lie
LEMMA Parts ==
  ASSUME NEW sizes, NEW cards, parted(sizes, cards), NEW i \in HandIds
  PROVE  LET start == deriveCardStarts(sizes)[i]
             hand == partitionHands(cards, sizes)[i] IN
         /\ hand = SubSeq(cards, start + 1, start + sizes[i])
         /\ hand \in Seq(Cards) /\ Len(hand) = sizes[i]
<1> DEFINE start == deriveCardStarts(sizes)[i]
           last == start + sizes[i]
<1>1. /\ cards \in Seq(Cards) /\ sizes \in Sizes /\ sizes[i] \in Nat
      /\ sizes[1] + sizes[2] + sizes[3] + sizes[4] = Len(cards)
  BY DEF parted, Sizes
<1>2. start \in Nat /\ last \in Nat /\ last <= Len(cards) /\ Len(cards) \in Nat
  BY <1>1, Starts, LenProperties
<1>3. Min({last, Len(cards)}) = last
  BY <1>2, LesserOfTwo
<1> DEFINE part == SubSeq(cards, start + 1, last)
<1>4. partitionHands(cards, sizes)[i] = realCards(part)
  BY <1>3, PartOf
<1> HIDE DEF start
<1>5. part \in Seq(Cards) /\ Len(part) = sizes[i]
  <2>1. CASE sizes[i] = 0
    <3>1. start + 1 > last
      BY <1>2, <2>1
    <3>2. part = <<>>
      BY <1>1, <1>2, <3>1, SubSeqProperties, EmptySeq
    <3> QED
      BY <2>1, <3>2, EmptySeq
  <2>2. CASE sizes[i] # 0
    <3>1. start + 1 \in 1..Len(cards) /\ last \in 1..Len(cards) /\ last - (start + 1) + 1 = sizes[i]
      BY <1>1, <1>2, <2>2
    <3> QED
      BY <1>1, <3>1, SubSeqProperties
  <2> QED
    BY <2>1, <2>2
<1> HIDE DEF last
<1>6. realCards(part) = part
  BY <1>5, RealCards
<1> QED
  BY <1>4, <1>5, <1>6 DEF start, last

\* an empty hand stays empty however the cards are read
LEMMA EmptyPart ==
  ASSUME NEW sizes \in Sizes, NEW cards \in Seq(ReadCards), NEW i \in HandIds, sizes[i] = 0
  PROVE  partitionHands(cards, sizes)[i] = <<>>
<1> DEFINE start == deriveCardStarts(sizes)[i]
           last == Min({start + sizes[i], Len(cards)})
<1>1. start \in Nat /\ start + sizes[i] = start /\ Len(cards) \in Nat
  BY Starts, LenProperties
<1>2. last \in Int /\ last < start + 1
  <2> HIDE DEF start
  <2>1. Min({start, Len(cards)}) \in Int /\ Min({start, Len(cards)}) <= start
    BY <1>1 DEF Min
  <2> QED
    BY <1>1, <2>1
<1>3. partitionHands(cards, sizes)[i] = realCards(SubSeq(cards, start + 1, last))
  BY PartOf
<1> HIDE DEF start, last
<1>4. SubSeq(cards, start + 1, last) = <<>>
  BY <1>1, <1>2, SubSeqProperties, EmptySeq
<1> QED
  BY <1>3, <1>4, NoCards

\* reading the cards changes them only where 52 is taken for the empty card
LEMMA Normalized ==
  ASSUME NEW cards \in Seq(Cards)
  PROVE  /\ normalizeCards(cards) \in Seq(ReadCards)
         /\ Len(normalizeCards(cards)) = Len(cards)
         /\ ~misread(cards) => normalizeCards(cards) = cards
<1> DEFINE S == ReadCards
           read == ReplaceAll(cards, 52, CARD_EMPTY)
<1>1. /\ Len(cards) \in Nat /\ DOMAIN cards = 1..Len(cards) /\ cards \in Seq(S)
      /\ \A i \in 1..Len(cards) : cards[i] \in S
      /\ CARD_EMPTY \in S
  <2>1. Cards \subseteq S
    BY DEF ReadCards
  <2>2. cards \in Seq(S)
    <3> HIDE DEF S
    <3> QED BY <2>1, SeqMonotonic
  <2>3. /\ Len(cards) \in Nat /\ DOMAIN cards = 1..Len(cards)
        /\ \A i \in 1..Len(cards) : cards[i] \in Cards
    BY ElementOfSeq, LenProperties
  <2> QED
    BY <2>1, <2>2, <2>3 DEF ReadCards
<1> HIDE DEF S
<1>2. read = [i \in 1..Len(cards) |-> IF cards[i] = 52 THEN CARD_EMPTY ELSE cards[i]]
  BY DEF ReplaceAll
<1>3. read \in [1..Len(cards) -> S]
  BY <1>1, <1>2
<1>4. read \in Seq(S) /\ Len(read) = Len(cards)
  BY <1>1, <1>3
<1>5. ASSUME \A i \in DOMAIN cards : cards[i] # 52
      PROVE  read = cards
  <2>1. \A i \in 1..Len(cards) : read[i] = cards[i]
    BY <1>1, <1>2, <1>5
  <2> HIDE DEF read
  <2> QED
    BY <1>1, <1>4, <2>1, SeqEqual
<1>6. /\ legacyEmptySentinel(cards) => normalizeCards(cards) = read
      /\ ~legacyEmptySentinel(cards) => normalizeCards(cards) = cards
  BY DEF normalizeCards
<1>7. ~misread(cards) => ~legacyEmptySentinel(cards) \/ \A i \in DOMAIN cards : cards[i] # 52
  BY DEF misread
<1> HIDE DEF read
<1> QED
  BY <1>1, <1>4, <1>5, <1>6, <1>7 DEF S

-----------------------------------------------------------------------------
(* The best score                                                          *)

LEMMA LeastIs ==
  ASSUME NEW S \in SUBSET Int, NEW m \in S, \A x \in S : m <= x
  PROVE  Min(S) = m
<1>1. Min(S) \in S /\ \A x \in S : Min(S) <= x
  BY DEF Min
<1>2. Min(S) <= m /\ m <= Min(S) /\ m \in Int /\ Min(S) \in Int
  BY <1>1
<1> QED
  BY <1>2

LEMMA GreatestIs ==
  ASSUME NEW S \in SUBSET Int, NEW m \in S, \A x \in S : x <= m
  PROVE  Max(S) = m
<1>1. Max(S) \in S /\ \A x \in S : x <= Max(S)
  <2>1. m \in S /\ \A x \in S : m >= x
    OBVIOUS
  <2> QED
    BY <2>1 DEF Max
<1>2. Max(S) <= m /\ m <= Max(S) /\ m \in Int /\ Max(S) \in Int
  BY <1>1
<1> QED
  BY <1>2

\* counting aces down until the hand is not over finds the best total
LEMMA CountedDown ==
  ASSUME NEW hard \in Int, NEW aces \in Nat
  PROVE  LET total == hard + 10 * aces
             enough == {n \in 0..aces : ~overLimit(total - 10 * n)}
             all == {hard + 10 * n : n \in 0..aces}
             fair == {t \in all : t <= 21} IN
         total - 10 * Min(enough \cup {aces})
           = IF fair = {} THEN Min(all) ELSE Max(fair)
<1> DEFINE total == hard + 10 * aces
           enough == {n \in 0..aces : ~overLimit(total - 10 * n)}
           all == {hard + 10 * n : n \in 0..aces}
           fair == {t \in all : t <= 21}
           m == Min(enough \cup {aces})
<1>1. \A n \in 0..aces : n \in enough <=> hard + 10 * (aces - n) <= 21
  BY DEF overLimit
<1>2. /\ m \in enough \cup {aces} /\ m \in 0..aces
      /\ \A n \in enough \cup {aces} : m <= n
  <2>1. enough \cup {aces} \in SUBSET (0..aces) /\ enough \cup {aces} # {}
    OBVIOUS
  <2> HIDE DEF enough
  <2>2. PICK k \in enough \cup {aces} : \A n \in enough \cup {aces} : k <= n
    BY <2>1, LeastNumber
  <2>3. m = k
    BY <2>1, <2>2, LeastIs
  <2> QED
    BY <2>1, <2>2, <2>3
<1>3. total - 10 * m = hard + 10 * (aces - m)
  BY <1>2
<1>4. hard \in all /\ \A t \in all : t \in Int /\ hard <= t
  <2>1. 0 \in 0..aces /\ hard = hard + 10 * 0
    OBVIOUS
  <2> QED
    BY <2>1
<1> HIDE DEF m, total
<1>5. CASE fair = {}
  <2>1. enough = {}
    <3> SUFFICES ASSUME NEW n \in enough PROVE FALSE
      OBVIOUS
    <3>1. n \in 0..aces /\ aces - n \in 0..aces /\ hard + 10 * (aces - n) <= 21
      BY <1>1
    <3>2. hard + 10 * (aces - n) \in fair
      BY <3>1
    <3> QED
      BY <1>5, <3>2
  <2>2. m = aces
    BY <1>2, <2>1
  <2>3. Min(all) = hard
    <3> HIDE DEF all
    <3> QED BY <1>4, LeastIs
  <2> HIDE DEF enough, all, fair
  <2>4. total - 10 * m = hard
    BY <1>3, <2>2
  <2> QED
    BY <1>5, <2>3, <2>4 DEF total, enough, all, fair, m
<1>6. CASE fair # {}
  <2>1. PICK k \in 0..aces : hard + 10 * k <= 21
    BY <1>6
  <2>2. aces - k \in enough
    <3>1. aces - k \in 0..aces /\ aces - (aces - k) = k
      BY <2>1
    <3> HIDE DEF enough
    <3> QED BY <1>1, <2>1, <3>1
  <2>3. m \in enough
    <3>1. CASE m = aces
      <4>1. aces <= aces - k
        BY <1>2, <2>2, <3>1
      <4>2. k = 0
        BY <4>1
      <4> QED BY <2>2, <3>1, <4>2
    <3> QED BY <1>2, <3>1
  <2>4. hard + 10 * (aces - m) \in fair
    <3>1. aces - m \in 0..aces /\ hard + 10 * (aces - m) <= 21
      BY <1>1, <1>2, <2>3
    <3> QED BY <3>1
  <2>5. ASSUME NEW t \in fair PROVE t <= hard + 10 * (aces - m)
    <3>1. PICK n \in 0..aces : t = hard + 10 * n
      OBVIOUS
    <3>2. aces - n \in enough
      <4>1. aces - n \in 0..aces /\ aces - (aces - n) = n /\ t <= 21
        BY <3>1
      <4> QED BY <1>1, <3>1, <4>1
    <3>3. m <= aces - n
      BY <1>2, <3>2
    <3> QED BY <1>2, <3>1, <3>3
  <2>6. Max(fair) = hard + 10 * (aces - m)
    <3>1. fair \in SUBSET Int
      BY <1>4
    <3> HIDE DEF fair
    <3> QED BY <2>4, <2>5, <3>1, GreatestIs
  <2> HIDE DEF enough, all, fair
  <2>7. total - 10 * m = Max(fair)
    BY <1>3, <2>6
  <2> QED
    BY <1>6, <2>7 DEF total, enough, all, fair, m
<1> QED
  BY <1>5, <1>6

LEMMA CardValues ==
  ASSUME NEW card \in Cards
  PROVE  /\ cardValue(card) \in Nat
         /\ cardMeta(card).isAce => cardValue(card) = 11
<1>1. card \in Int /\ card # CARD_EMPTY
  BY DEF Cards, CARD_EMPTY
<1>2. card % 13 \in 0..12
  BY <1>1
<1> DEFINE r == card % 13
<1>3. /\ cardValue(card) = IF r = 0 THEN 11 ELSE IF r >= 9 THEN 10 ELSE r + 1
      /\ cardMeta(card).isAce <=> r = 0
  BY <1>1 DEF cardValue, cardMeta
<1> HIDE DEF r
<1>4. r \in 0..12
  BY <1>2 DEF r
<1> QED
  BY <1>3, <1>4

\* The prover's score of cards is their best total.
LEMMA BestScore ==
  ASSUME NEW cards \in Seq(Cards)
  PROVE  scoreHand(cards) = bestTotal(cards)
<1> DEFINE D == DOMAIN cards
           A == {i \in D : cardMeta(cards[i]).isAce}
           values == [i \in D |-> cardValue(cards[i])]
           low == [i \in D |-> IF cardMeta(cards[i]).isAce THEN 1 ELSE cardValue(cards[i])]
           high == [i \in D |-> IF cardMeta(cards[i]).isAce THEN 10 ELSE 0]
<1>1. IsFiniteSet(D) /\ \A i \in D : cards[i] \in Cards
  <2>1. D = 1..Len(cards) /\ Len(cards) \in Nat /\ \A i \in 1..Len(cards) : cards[i] \in Cards
    BY LenProperties, ElementOfSeq
  <2>2. IsFiniteSet(1..Len(cards))
    BY <2>1, FS_Interval
  <2> QED
    BY <2>1, <2>2
<1> HIDE DEF D
<1>2. /\ DOMAIN values = D /\ DOMAIN low = D /\ DOMAIN high = D
      /\ \A i \in D : low[i] \in Nat /\ high[i] \in Nat /\ values[i] = low[i] + high[i]
  BY <1>1, CardValues
<1>3. /\ A \subseteq D /\ \A i \in A : high[i] = 10
      /\ \A i \in D \ A : high[i] = 0
  OBVIOUS
<1>4. IsFiniteSet(A) /\ Cardinality(A) \in Nat
  BY <1>1, <1>3, FS_Subset, FS_CardinalityType
<1> DEFINE hard == SumFunction(low)
           aces == Cardinality(A)
           total == SumFunction(values)
<1> HIDE DEF A, values, low, high
<1>5. Summable(low) /\ Summable(high) /\ hard \in Int
  BY <1>1, <1>2, SumOfNats
<1>6. SumFunction(high) = 10 * aces
  BY <1>1, <1>2, <1>3, SumOfEqualParts
<1>7. total = hard + 10 * aces
  BY <1>2, <1>5, <1>6, SumAdded
<1>8. /\ scoreHand(cards) = total - 10 * Min({n \in 0..aces : ~overLimit(total - 10 * n)} \cup {aces})
      /\ totals(cards) = {hard + 10 * n : n \in 0..aces}
  BY DEF scoreHand, totals, values, low, A, D
<1> HIDE DEF hard, aces, total
<1>9. aces \in Nat
  BY <1>4 DEF aces
<1> DEFINE all == {hard + 10 * n : n \in 0..aces}
           fair == {t \in all : t <= 21}
           sum == hard + 10 * aces
<1>10. bestTotal(cards) = IF fair = {} THEN Min(all) ELSE Max(fair)
  BY <1>8 DEF bestTotal
<1>11. sum - 10 * Min({n \in 0..aces : ~overLimit(sum - 10 * n)} \cup {aces})
        = IF fair = {} THEN Min(all) ELSE Max(fair)
  BY <1>5, <1>9, CountedDown
<1> HIDE DEF all, fair
<1> QED
  BY <1>7, <1>8, <1>10, <1>11

-----------------------------------------------------------------------------
(* What a public state shows                                               *)

\* the fields that every public state has
HandFields == {"wager", "value", "status", "allowedActionMask", "cardCount",
               "cardStartIndex", "payoutKind"}
ViewFields == {"phase", "handCount", "activeHandIndex", "insuranceStake", "payout",
               "insurancePayout", "hands", "dealerFinalValue"}

sizesOf(v) == [i \in HandIds |-> v.hands[i].cardCount]

isView(v) ==
  /\ ViewFields \subseteq DOMAIN v
  /\ DOMAIN v.hands = HandIds
  /\ \A i \in HandIds : HandFields \subseteq DOMAIN v.hands[i] /\ v.hands[i].wager \in Nat
  /\ v.activeHandIndex \in 0..3
  /\ v.insuranceStake \in Nat /\ v.payout \in Nat /\ v.insurancePayout \in Nat

\* what a public state says of a hand
fairHand(v, i) ==
  LET h == v.hands[i] IN
  /\ h.cardCount = 0 => h.wager = 0
  /\ h.allowedActionMask # {} => h.cardCount > 0
  /\ "SPLIT" \in h.allowedActionMask =>
       h.cardCount = 2 /\ v.handCount < 4 /\ v.hands[4].cardCount = 0

\* a public state of the cards of a witness
dealt(v, w) ==
  /\ isView(v)
  /\ parted(sizesOf(v), w.playerCards) /\ w.dealerCards \in Seq(Cards)
  /\ \A i \in HandIds : fairHand(v, i)
  /\ scored(v, w)

\* all that is at stake, in the wagers of the hands and the insurance
staked(v) ==
  v.hands[1].wager + v.hands[2].wager + v.hands[3].wager + v.hands[4].wager
    + v.insuranceStake

-----------------------------------------------------------------------------
\* fewer than four hands leave the fourth empty
LEMMA FourthEmpty ==
  ASSUME NEW sizes, NEW cards, parted(sizes, cards), inferredHandCount(sizes) < 4
  PROVE  sizes[4] = 0
<1> SUFFICES ASSUME sizes[4] # 0 PROVE FALSE
  OBVIOUS
<1>1. \A i \in HandIds : sizes[i] \in Nat
  BY DEF parted, Sizes
<1>2. sizes[1] > 0 /\ sizes[2] > 0 /\ sizes[3] > 0 /\ sizes[4] > 0
  BY <1>1 DEF parted, HandIds
<1>3. {i \in HandIds : sizes[i] > 0} = 1..4
  BY <1>2 DEF HandIds
<1>4. Cardinality(1..4) = 4
  <2>1. \A n \in Nat \ {0} : Cardinality(1..n) = n
    BY FS_Interval
  <2>2. 4 \in Nat \ {0}
    OBVIOUS
  <2> QED
    BY <2>1, <2>2, Zenon
<1>5. Max({1, 4}) = 4
  BY GreatestIs
<1> QED
  BY <1>3, <1>4, <1>5 DEF inferredHandCount

\* the masks and values of the hands
LEMMA PublicHands ==
  ASSUME NEW source, NEW hint, NEW playerCards, NEW dealerCards, NEW i \in HandIds
  PROVE  LET v == normalizePublicState(source, hint, playerCards, dealerCards)
             sizes == source.handCardCounts
             hands == partitionHands(playerCards, sizes) IN
         /\ DOMAIN v.hands = HandIds
         /\ HandFields \subseteq DOMAIN v.hands[i]
         /\ v.hands[i].wager = source.handWagers[i]
         /\ v.hands[i].value = scoreHand(hands[i])
         /\ v.hands[i].cardCount = sizes[i]
         /\ v.hands[i].cardStartIndex = deriveCardStarts(sizes)[i]
         /\ v.hands[i].allowedActionMask =
              deriveDefaultAllowedActionMasks(v.phase, inferredHandCount(sizes),
                                              v.activeHandIndex, hands, sizes)[i]
<1> DEFINE v == normalizePublicState(source, hint, playerCards, dealerCards)
           sizes == source.handCardCounts
           hands == partitionHands(playerCards, sizes)
           phase == orElse(source.phase, defaultPhaseForContext(hint, dealerCards))
           active == orElse(source.activeHandIndex, 0)
           statuses == deriveDefaultHandStatuses(hands, phase)
           masks == deriveDefaultAllowedActionMasks(phase, inferredHandCount(sizes),
                                                    active, hands, sizes)
           hand(k) == [wager |-> source.handWagers[k], value |-> scoreHand(hands[k]),
                       status |-> statuses[k], allowedActionMask |-> masks[k],
                       cardCount |-> sizes[k],
                       cardStartIndex |-> deriveCardStarts(sizes)[k],
                       payoutKind |-> deriveDefaultPayoutKinds(statuses)[k]]
<1>1. v.phase = phase /\ v.activeHandIndex = active
  BY DEF normalizePublicState
<1>2. v.hands = each(hand)
  BY DEF normalizePublicState
<1> HIDE DEF v, sizes, hands, phase, active, statuses, masks
<1>4. v.hands = <<hand(1), hand(2), hand(3), hand(4)>>
  BY <1>2 DEF each
<1>5. v.hands[i] = hand(i) /\ DOMAIN v.hands = HandIds
  <2> HIDE DEF hand
  <2> QED BY <1>4 DEF HandIds
<1>6. /\ HandFields \subseteq DOMAIN v.hands[i]
      /\ v.hands[i].wager = source.handWagers[i]
      /\ v.hands[i].value = scoreHand(hands[i])
      /\ v.hands[i].cardCount = sizes[i]
      /\ v.hands[i].cardStartIndex = deriveCardStarts(sizes)[i]
      /\ v.hands[i].allowedActionMask = masks[i]
  BY <1>5 DEF HandFields
<1> QED
  BY <1>1, <1>5, <1>6 DEF v, sizes, hands, masks

LEMMA PublicFields ==
  ASSUME NEW source, NEW hint, NEW playerCards, NEW dealerCards
  PROVE  LET v == normalizePublicState(source, hint, playerCards, dealerCards) IN
         /\ ViewFields \subseteq DOMAIN v
         /\ v.handCount = inferredHandCount(source.handCardCounts)
         /\ v.activeHandIndex = orElse(source.activeHandIndex, 0)
         /\ v.insuranceStake = orElse(source.insuranceStake, 0)
         /\ v.payout = orElse(source.payout, 0)
         /\ v.insurancePayout = orElse(source.insurancePayout, 0)
         /\ v.dealerFinalValue = scoreHand(dealerCards)
  BY DEF normalizePublicState, ViewFields

LEMMA Masks ==
  ASSUME NEW phase, NEW handCount, NEW active, NEW hands, NEW sizes, NEW i \in HandIds
  PROVE  LET mask == deriveDefaultAllowedActionMasks(phase, handCount, active, hands, sizes)[i] IN
         /\ mask # {} => hands[i] # <<>>
         /\ "SPLIT" \in mask => sizes[i] = 2 /\ handCount < 4
<1> DEFINE allowed(k) ==
        {"HIT", "STAND"}
          \cup (IF sizes[k] = 2 THEN {"DOUBLE"} ELSE {})
          \cup (IF /\ sizes[k] = 2 /\ Len(hands[k]) = 2
                   /\ sameRank(hands[k][1], hands[k][2]) /\ handCount < 4
                  THEN {"SPLIT"} ELSE {})
           mask(k) == IF /\ phase = PHASE.AWAITING_PLAYER_ACTION
                         /\ k = active + 1 /\ hands[k] # <<>>
                        THEN allowed(k) ELSE {}
<1>1. deriveDefaultAllowedActionMasks(phase, handCount, active, hands, sizes)
        = <<mask(1), mask(2), mask(3), mask(4)>>
  BY DEF deriveDefaultAllowedActionMasks, each
<1>2. deriveDefaultAllowedActionMasks(phase, handCount, active, hands, sizes)[i] = mask(i)
  <2> HIDE DEF mask
  <2> QED BY <1>1 DEF HandIds
<1>3. "SPLIT" \in mask(i) => sizes[i] = 2 /\ handCount < 4
  <2>1. "SPLIT" \notin {"HIT", "STAND"} /\ "SPLIT" \notin {"DOUBLE"} /\ "SPLIT" \notin {}
    OBVIOUS
  <2> QED
    BY <2>1
<1> QED
  BY <1>2, <1>3

\* a source of a public state of the cards of a witness
fitsCards(source, w) ==
  LET sizes == source.handCardCounts
      stakes == source.handWagers IN
  /\ parted(sizes, w.playerCards) /\ w.dealerCards \in Seq(Cards)
  /\ stakes \in Sizes /\ \A i \in HandIds : sizes[i] = 0 => stakes[i] = 0
  /\ source.activeHandIndex \in 0..3 \cup {None}
  /\ source.insuranceStake \in Nat \cup {None} /\ source.payout \in Nat \cup {None}
  /\ source.insurancePayout \in Nat \cup {None}

shown(source, hint, w) ==
  normalizePublicState(source, hint, normalizeCards(w.playerCards),
                       normalizeCards(w.dealerCards))

\* The public state the prover makes of dealt cards, for any phase.
LEMMA PublicDealt ==
  ASSUME NEW source, NEW hint, NEW w, fitsCards(source, w)
  PROVE  /\ dealt(shown(source, hint, w), w)
         /\ \A i \in HandIds :
              shown(source, hint, w).hands[i].wager = source.handWagers[i]
         /\ shown(source, hint, w).insuranceStake = orElse(source.insuranceStake, 0)
<1> DEFINE sizes == source.handCardCounts
           stakes == source.handWagers
           player == normalizeCards(w.playerCards)
           dealer == normalizeCards(w.dealerCards)
           v == normalizePublicState(source, hint, player, dealer)
           hands == partitionHands(player, sizes)
<1>0. /\ parted(sizes, w.playerCards) /\ w.dealerCards \in Seq(Cards)
      /\ stakes \in Sizes /\ \A i \in HandIds : sizes[i] = 0 => stakes[i] = 0
      /\ source.activeHandIndex \in 0..3 \cup {None}
      /\ source.insuranceStake \in Nat \cup {None} /\ source.payout \in Nat \cup {None}
      /\ source.insurancePayout \in Nat \cup {None}
  BY DEF fitsCards
<1>1. /\ player \in Seq(ReadCards)
      /\ ~misread(w.playerCards) => player = w.playerCards
      /\ ~misread(w.dealerCards) => dealer = w.dealerCards
      /\ w.playerCards \in Seq(Cards) /\ sizes \in Sizes
  BY <1>0, Normalized DEF parted
<1>2. /\ ViewFields \subseteq DOMAIN v
      /\ v.handCount = inferredHandCount(sizes)
      /\ v.activeHandIndex = orElse(source.activeHandIndex, 0)
      /\ v.insuranceStake = orElse(source.insuranceStake, 0)
      /\ v.payout = orElse(source.payout, 0)
      /\ v.insurancePayout = orElse(source.insurancePayout, 0)
      /\ v.dealerFinalValue = scoreHand(dealer)
  BY PublicFields
<1>3. ASSUME NEW i \in HandIds
      PROVE  /\ DOMAIN v.hands = HandIds /\ HandFields \subseteq DOMAIN v.hands[i]
             /\ v.hands[i].wager = stakes[i]
             /\ v.hands[i].value = scoreHand(hands[i])
             /\ v.hands[i].cardCount = sizes[i]
             /\ v.hands[i].cardStartIndex = deriveCardStarts(sizes)[i]
             /\ v.hands[i].allowedActionMask =
                  deriveDefaultAllowedActionMasks(v.phase, inferredHandCount(sizes),
                                                  v.activeHandIndex, hands, sizes)[i]
  BY PublicHands
<1> HIDE DEF player, dealer, v, sizes, stakes
<1>4. DOMAIN v.hands = HandIds
  <2>1. 1 \in HandIds
    BY DEF HandIds
  <2> QED BY <1>3, <2>1
<1>5. isView(v)
  <2>1. \A i \in HandIds : HandFields \subseteq DOMAIN v.hands[i] /\ v.hands[i].wager \in Nat
    BY <1>0, <1>3 DEF Sizes
  <2>2. /\ v.activeHandIndex \in 0..3 /\ v.insuranceStake \in Nat
        /\ v.payout \in Nat /\ v.insurancePayout \in Nat
    BY <1>0, <1>2 DEF orElse
  <2> QED
    BY <1>2, <1>4, <2>1, <2>2 DEF isView
<1>6. sizesOf(v) = sizes
  <2>1. \A i \in HandIds : v.hands[i].cardCount = sizes[i]
    BY <1>3
  <2> QED
    BY <1>1, <2>1 DEF sizesOf, Sizes
<1>7. ASSUME NEW i \in HandIds
      PROVE  fairHand(v, i)
  <2> DEFINE mask == v.hands[i].allowedActionMask
  <2>1. /\ mask # {} => hands[i] # <<>>
        /\ "SPLIT" \in mask => sizes[i] = 2 /\ inferredHandCount(sizes) < 4
    BY <1>3, Masks
  <2>2. ASSUME sizes[i] = 0 PROVE hands[i] = <<>>
    <3>1. player \in Seq(ReadCards) /\ sizes \in Sizes
      BY <1>1
    <3> QED
      BY <2>2, <3>1, EmptyPart
  <2>3. sizes[i] \in Nat
    BY <1>1 DEF Sizes
  <2>4. inferredHandCount(sizes) < 4 => v.hands[4].cardCount = 0
    BY <1>0, <1>3, FourthEmpty DEF HandIds
  <2> HIDE DEF hands
  <2> QED
    BY <1>0, <1>2, <1>3, <2>1, <2>2, <2>3, <2>4 DEF fairHand
<1>8. scored(v, w)
  <2>1. ASSUME NEW i \in HandIds, ~misread(w.playerCards)
        PROVE  v.hands[i].value = bestTotal(held(v, w.playerCards, i))
    <3> DEFINE cards == w.playerCards
               start == deriveCardStarts(sizes)[i]
    <3>0. parted(sizes, cards) /\ player = cards
      BY <1>0, <1>1, <2>1
    <3> HIDE DEF cards
    <3>2. /\ partitionHands(cards, sizes)[i] = SubSeq(cards, start + 1, start + sizes[i])
          /\ partitionHands(cards, sizes)[i] \in Seq(Cards)
      BY <3>0, Parts
    <3>3. held(v, cards, i) = SubSeq(cards, start + 1, start + sizes[i])
      BY <1>3 DEF held
    <3>1. /\ hands[i] = held(v, w.playerCards, i) /\ hands[i] \in Seq(Cards)
      BY <3>0, <3>2, <3>3 DEF cards
    <3> QED
      BY <1>3, <3>1, BestScore
  <2>2. ~misread(w.dealerCards) => v.dealerFinalValue = bestTotal(w.dealerCards)
    BY <1>0, <1>1, <1>2, BestScore
  <2> QED
    BY <2>1, <2>2 DEF scored
<1>9. dealt(v, w)
  BY <1>0, <1>5, <1>6, <1>7, <1>8 DEF dealt
<1> QED
  BY <1>2, <1>3, <1>9 DEF v, player, dealer, stakes, shown

-----------------------------------------------------------------------------
(* Payloads of the prover                                                  *)

\* the fields of a witness the stakes come from
SourceFields == {"phase", "handCardCounts", "handWagers", "dealerCardsVisible",
                 "activeHandIndex", "insuranceStake", "payout", "insurancePayout"}
KeptFields == {"activeHandIndex", "insuranceStake", "payout", "insurancePayout"}

isFullWitness(w) ==
  /\ {"playerCards", "dealerCards", "oldPlayerCards", "proofSequence", "state"} \subseteq DOMAIN w
  /\ SourceFields \subseteq DOMAIN w.state

sizesFor(w) == orElse(w.state.handCardCounts, four(Len(w.playerCards)))
stakesFor(w) == orElse(w.state.handWagers, four(w.baseWager))

\* what the prover reads where the witness says it, and where it does not
Filled(w, v, kind) ==
  /\ v.playerCards = normalizeCards(w.playerCards)
  /\ v.dealerCards = normalizeCards(w.dealerCards)
  /\ v.proofSequence = w.proofSequence
  /\ v.state.handCardCounts = sizesFor(w) /\ v.state.handWagers = stakesFor(w)
  /\ \A f \in KeptFields : v.state[f] = w.state[f]
  /\ w.state.phase # None => v.state.phase = w.state.phase
  /\ kind = "initial-deal" => v.state.phase = w.state.phase

LEMMA WitnessFilled ==
  ASSUME NEW w, isFullWitness(w)
  PROVE  /\ Filled(w, normalizeInitialWitness(w), "initial-deal")
         /\ Filled(w, normalizePeekWitness(w), "peek")
         /\ w.state.handCardCounts # None =>
              /\ Filled(w, normalizeActionWitness(w), "action")
              /\ Filled(w, normalizeShowdownWitness(w), "showdown")
<1> DEFINE c == withCards(w)
<1>1. /\ {"playerCards", "dealerCards", "oldPlayerCards", "proofSequence", "state"} \subseteq DOMAIN c
      /\ SourceFields \subseteq DOMAIN c.state /\ c.state = w.state
      /\ c.playerCards = normalizeCards(w.playerCards)
      /\ c.dealerCards = normalizeCards(w.dealerCards)
      /\ c.proofSequence = w.proofSequence
  BY DEF isFullWitness, withCards
<1> HIDE DEF c
<1> DEFINE one == [c EXCEPT !.state.handCardCounts = orElse(@, four(Len(w.playerCards))),
                            !.state.handWagers = orElse(@, four(w.baseWager))]
<1>2. \A kind \in {"initial-deal", "peek"} : Filled(w, one, kind)
  BY <1>1 DEF Filled, SourceFields, KeptFields, sizesFor, stakesFor
<1>3. normalizeInitialWitness(w) = one /\ normalizePeekWitness(w) = one
  BY DEF normalizeInitialWitness, normalizePeekWitness, oneHand, c
<1> HIDE DEF one
<1>4. ASSUME w.state.handCardCounts # None
      PROVE  Filled(w, normalizeActionWitness(w), "action")
  <2> DEFINE v == [c EXCEPT !.state.handWagers = orElse(@, four(w.baseWager))]
  <2>1. Filled(w, v, "action")
    <3>1. w.state.handCardCounts = sizesFor(w)
      BY <1>4 DEF sizesFor, orElse
    <3> QED
      BY <1>1, <3>1 DEF Filled, SourceFields, KeptFields, stakesFor
  <2> QED
    BY <2>1 DEF normalizeActionWitness, c
<1>5. ASSUME w.state.handCardCounts # None
      PROVE  Filled(w, normalizeShowdownWitness(w), "showdown")
  <2> DEFINE v == [c EXCEPT
         !.state.phase = orElse(@, PHASE.COMPLETED),
         !.state.handWagers = orElse(@, four(w.baseWager)),
         !.state.dealerCardsVisible = orElse(@, normalizeCards(w.dealerCards))]
  <2>1. Filled(w, v, "showdown")
    <3>1. w.state.handCardCounts = sizesFor(w)
      BY <1>5 DEF sizesFor, orElse
    <3>2. w.state.phase # None => orElse(w.state.phase, PHASE.COMPLETED) = w.state.phase
      BY DEF orElse
    <3> QED
      BY <1>1, <3>1, <3>2 DEF Filled, SourceFields, KeptFields, stakesFor
  <2> QED
    BY <2>1 DEF normalizeShowdownWitness, c
<1> QED
  BY <1>2, <1>3, <1>4, <1>5

\* the input of each kind is of the filled witness
LEMMA FilledInput ==
  ASSUME NEW w, isFullWitness(w), NEW kind \in Kinds,
         kind \in {"action", "showdown"} => w.state.handCardCounts # None
  PROVE  \E v : /\ Filled(w, v, kind)
                /\ deriveBlackjackInput(kind, w).state = publicState(v, kind)
                /\ kind # "initial-deal" =>
                     deriveBlackjackInput(kind, w).proofSequence = w.proofSequence
<1>1. CASE kind = "initial-deal"
  <2>1. deriveBlackjackInput(kind, w).state = publicState(normalizeInitialWitness(w), kind)
    BY <1>1 DEF deriveBlackjackInput, deriveBlackjackInitialDeal, common
  <2> QED BY <1>1, <2>1, WitnessFilled
<1>2. CASE kind = "peek"
  <2> DEFINE v == normalizePeekWitness(w)
  <2>1. Filled(w, v, kind)
    BY <1>2, WitnessFilled
  <2>2. /\ deriveBlackjackInput(kind, w).state = publicState(v, kind)
        /\ deriveBlackjackInput(kind, w).proofSequence = v.proofSequence
    BY <1>2 DEF deriveBlackjackInput, deriveBlackjackPeek, common
  <2> QED BY <2>1, <2>2 DEF Filled
<1>3. CASE kind = "action"
  <2> DEFINE v == normalizeActionWitness(w)
  <2>1. Filled(w, v, kind)
    BY <1>3, WitnessFilled
  <2>2. /\ deriveBlackjackInput(kind, w).state = publicState(v, kind)
        /\ deriveBlackjackInput(kind, w).proofSequence = v.proofSequence
    BY <1>3 DEF deriveBlackjackInput, deriveBlackjackActionResolve, common
  <2> QED BY <2>1, <2>2 DEF Filled
<1>4. CASE kind = "showdown"
  <2> DEFINE v == normalizeShowdownWitness(w)
  <2>1. Filled(w, v, kind)
    BY <1>4, WitnessFilled
  <2>2. /\ deriveBlackjackInput(kind, w).state = publicState(v, kind)
        /\ deriveBlackjackInput(kind, w).proofSequence = v.proofSequence
    BY <1>4 DEF deriveBlackjackInput, deriveBlackjackShowdown, common
  <2> QED BY <2>1, <2>2 DEF Filled
<1> QED
  BY <1>1, <1>2, <1>3, <1>4 DEF Kinds

LEMMA PayloadParts ==
  ASSUME NEW kind, NEW w
  PROVE  LET p == generateBlackjackPayload(kind, w) IN
         /\ p.phase = kind /\ p.witness = w
         /\ p.publicState = deriveBlackjackInput(kind, w).state
         /\ p.proof.circuit = blackjackCircuitForPhase[kind]
         /\ p.proof.inputs = [deriveBlackjackInput(kind, w)
                                EXCEPT !.state = flattenPublicStateInputs(@)]
  BY DEF generateBlackjackPayload, formatBlackjackPayload, generateBlackjackArtifact,
         fullProveBlackjack

LEMMA DefaultInitialPhase ==
  ASSUME NEW cards
  PROVE  defaultPhaseForContext("initial-deal", cards) \in {2, 5}
  BY Phases DEF defaultPhaseForContext

\* A payload of a witness whose cards are parted shows the cards as they
\* lie and the wagers the witness states.
LEMMA PayloadDealt ==
  ASSUME NEW w, isFullWitness(w), NEW kind \in Kinds,
         kind \in {"action", "showdown"} => w.state.handCardCounts # None,
         parted(sizesFor(w), w.playerCards), w.dealerCards \in Seq(Cards),
         stakesFor(w) \in Sizes,
         \A i \in HandIds : sizesFor(w)[i] = 0 => stakesFor(w)[i] = 0,
         w.state.activeHandIndex \in 0..3 \cup {None},
         w.state.insuranceStake \in Nat \cup {None}, w.state.payout \in Nat \cup {None},
         w.state.insurancePayout \in Nat \cup {None}
  PROVE  LET p == generateBlackjackPayload(kind, w) IN
         /\ p.phase = kind /\ p.proof.circuit = blackjackCircuitForPhase[kind]
         /\ dealt(p.publicState, p.witness)
         /\ \A i \in HandIds : p.publicState.hands[i].wager = stakesFor(w)[i]
         /\ p.publicState.insuranceStake = orElse(w.state.insuranceStake, 0)
         /\ w.state.phase # None => p.publicState.phase = w.state.phase
         /\ kind = "initial-deal" /\ w.state.phase = None => p.publicState.phase \in {2, 5}
         /\ kind # "initial-deal" => p.proof.inputs.proofSequence = w.proofSequence
<1> DEFINE p == generateBlackjackPayload(kind, w)
           input == deriveBlackjackInput(kind, w)
<1>1. /\ p.phase = kind /\ p.witness = w /\ p.publicState = input.state
      /\ p.proof.circuit = blackjackCircuitForPhase[kind]
      /\ p.proof.inputs = [input EXCEPT !.state = flattenPublicStateInputs(@)]
  BY PayloadParts
<1>2. PICK v : /\ Filled(w, v, kind)
               /\ input.state = publicState(v, kind)
               /\ kind # "initial-deal" => input.proofSequence = w.proofSequence
  BY FilledInput
<1>3. kind # "initial-deal" => p.proof.inputs.proofSequence = w.proofSequence
  <2> HIDE DEF input, p
  <2> QED BY <1>1, <1>2
<1> DEFINE state == shown(v.state, kind, w)
<1>4. p.publicState = state
  <2> HIDE DEF p, input
  <2> QED BY <1>1, <1>2 DEF publicState, Filled, shown
<1>5. /\ v.state.activeHandIndex = w.state.activeHandIndex
      /\ v.state.insuranceStake = w.state.insuranceStake
      /\ v.state.payout = w.state.payout
      /\ v.state.insurancePayout = w.state.insurancePayout
      /\ v.state.handCardCounts = sizesFor(w) /\ v.state.handWagers = stakesFor(w)
  BY <1>2 DEF Filled, KeptFields
<1>6. /\ dealt(state, w)
      /\ \A i \in HandIds : state.hands[i].wager = stakesFor(w)[i]
      /\ state.insuranceStake = orElse(w.state.insuranceStake, 0)
  <2>1. fitsCards(v.state, w)
    BY <1>5 DEF fitsCards
  <2> QED
    BY <1>5, <2>1, PublicDealt
<1>7. state.phase = orElse(v.state.phase, defaultPhaseForContext(kind, normalizeCards(w.dealerCards)))
  BY PublicPhase DEF shown
<1> HIDE DEF state, p, input
<1>8. w.state.phase # None => state.phase = w.state.phase
  BY <1>2, <1>7 DEF orElse, Filled
<1>9. kind = "initial-deal" /\ w.state.phase = None => state.phase \in {2, 5}
  BY <1>2, <1>7, DefaultInitialPhase DEF orElse, Filled
<1> QED
  BY <1>1, <1>3, <1>4, <1>6, <1>8, <1>9 DEF p

-----------------------------------------------------------------------------
(* What a session must keep, and what a payload may be accepted for        *)

SessionFields == {"wager", "totalBurned", "proofSequence", "pendingAction",
                  "pendingAdditionalBurn", "deadline"}

\* A payload shows the cards of its witness; the first one states the wager
\* the session was opened with and no insurance.
sound(p) ==
  /\ p.phase \in Kinds /\ p.proof.circuit = blackjackCircuitForPhase[p.phase]
  /\ dealt(p.publicState, p.witness)
  /\ p.phase = "initial-deal" =>
       /\ p.publicState.phase \in {2, 5}
       /\ p.publicState.insuranceStake = 0 /\ staked(p.publicState) = Wager
  /\ p.phase # "initial-deal" =>
       p.publicState.phase \in {4, 5, 6, 7} /\ p.proof.inputs.proofSequence \in Nat

\* A later payload that may still be accepted was made of the stakes the
\* session waits with.
timely(p, ses, v) ==
  p.phase # "initial-deal" =>
    /\ p.proof.inputs.proofSequence <= ses.proofSequence + 1
    /\ p.proof.inputs.proofSequence = ses.proofSequence + 1 =>
         /\ \/ v.phase = 3 /\ p.phase = "peek"
            \/ v.phase = 6 /\ p.phase \in {"action", "showdown"}
         /\ staked(p.publicState) = ses.totalBurned

\* the action a session waits with fits the hand it is for
pendingFits(ses, v) ==
  LET action == ses.pendingAction
      more == ses.pendingAdditionalBurn
      hand == v.hands[v.activeHandIndex + 1] IN
  /\ action \in PlayerActions \cup {None} /\ more \in Nat
  /\ v.phase # 6 => action = None /\ more = 0
  /\ action \in {None, "STAND", "HIT"} => more = 0
  /\ action = "HIT" => hand.cardCount > 0
  /\ action = "DOUBLE" => more = hand.wager /\ hand.cardCount > 0
  /\ action = "SPLIT" =>
       more = hand.wager /\ hand.cardCount = 2 /\ v.hands[4].cardCount = 0

\* what a session has burned is at stake
funded(ses, v) ==
  /\ SessionFields \subseteq DOMAIN ses /\ isView(v) /\ v.phase \in 0..7
  /\ pendingFits(ses, v)
  /\ ses.totalBurned = staked(v) + ses.pendingAdditionalBurn
  /\ v.phase = 0 => ses.totalBurned = 0
  /\ v.phase = 1 => ses.totalBurned = Wager
  /\ v.phase # 0 => ses.wager = Wager
  /\ v.phase \in {0, 1, 2} => v.insuranceStake = 0

consistent(s) ==
  /\ funded(session[s], view[s])
  /\ accepted[s] # <<>> => dealt(view[s], table(s))
  /\ \A p \in payloads[s] : sound(p) /\ timely(p, session[s], view[s])

-----------------------------------------------------------------------------
\* hands that lie one after another, and their stakes
laid(hands, stakes) ==
  /\ hands \in Seq(Seq(Cards)) /\ Len(hands) = 4 /\ Len(hands[1]) > 0
  /\ \A i \in 1..3 : Len(hands[i]) = 0 => Len(hands[i + 1]) = 0
  /\ stakes \in Sizes /\ \A i \in HandIds : Len(hands[i]) = 0 => stakes[i] = 0

sizesIn(hands) == each(LAMBDA i : Len(hands[i]))

LEMMA LaidParted ==
  ASSUME NEW hands, NEW stakes, laid(hands, stakes)
  PROVE  /\ parted(sizesIn(hands), FlattenSeq(hands))
         /\ \A i \in HandIds : sizesIn(hands)[i] = 0 => stakes[i] = 0
<1> DEFINE sizes == sizesIn(hands)
<1>1. \A i \in HandIds : hands[i] \in Seq(Cards) /\ Len(hands[i]) \in Nat
  <2>1. \A i \in 1..4 : hands[i] \in Seq(Cards)
    BY ElementOfSeq DEF laid
  <2> QED
    BY <2>1, LenProperties DEF HandIds
<1>2. sizes = <<Len(hands[1]), Len(hands[2]), Len(hands[3]), Len(hands[4])>>
  BY DEF each, sizesIn
<1> HIDE DEF sizes
<1>3. /\ sizes[1] = Len(hands[1]) /\ sizes[2] = Len(hands[2])
      /\ sizes[3] = Len(hands[3]) /\ sizes[4] = Len(hands[4]) /\ DOMAIN sizes = HandIds
  BY <1>2 DEF HandIds
<1>4. \A i \in HandIds : sizes[i] = Len(hands[i])
  BY <1>3 DEF HandIds
<1>5. sizes \in Sizes
  <2>1. sizes \in [DOMAIN sizes -> Nat]
    BY <1>1, <1>2 DEF HandIds
  <2> QED
    BY <1>3, <2>1 DEF Sizes
<1>6. /\ FlattenSeq(hands) \in Seq(Cards)
      /\ Len(FlattenSeq(hands)) = sizes[1] + sizes[2] + sizes[3] + sizes[4]
  BY <1>3, FourJoined DEF laid
<1>7. \A i \in 1..3 : sizes[i] = 0 => sizes[i + 1] = 0
  <2>1. ASSUME NEW i \in 1..3 PROVE i \in HandIds /\ i + 1 \in HandIds
    BY DEF HandIds
  <2> QED BY <1>4, <2>1 DEF laid
<1>8. parted(sizes, FlattenSeq(hands))
  BY <1>3, <1>5, <1>6, <1>7 DEF parted, laid
<1> QED
  BY <1>4, <1>8 DEF sizes, laid

\* what a witness says is not None
LEMMA NoneElse ==
  /\ None \notin Sizes /\ None \notin Int /\ None \notin PlayerActions
  BY BlackjackAssumption DEF Sizes

\* a witness of a later step in which hands and stakes are these
isLater(s, w, hands, stakes, phase) ==
  /\ isFullWitness(w)
  /\ w.playerCards = FlattenSeq(hands) /\ w.dealerCards = table(s).dealerCards
  /\ w.proofSequence = session[s].proofSequence + 1
  /\ w.state.phase = phase /\ w.state.handWagers = stakes
  /\ w.state.handCardCounts = sizesIn(hands)
  /\ w.state.insuranceStake = view[s].insuranceStake
  /\ w.state.insurancePayout = None

LEMMA LaterWitness ==
  ASSUME NEW s, NEW hands, NEW stakes, NEW phase
  PROVE  LET w == witness(s, hands, stakes, phase) IN
         /\ isLater(s, w, hands, stakes, phase)
         /\ {"insuranceStatus", "payout", "activeHandIndex"} \subseteq DOMAIN w.state
         /\ w.state.payout = None
         /\ w.state.activeHandIndex = view[s].activeHandIndex
<1> DEFINE state == [Unsaid EXCEPT
     !.phase = phase, !.handWagers = stakes,
     !.handCardCounts = sizesIn(hands),
     !.activeHandIndex = view[s].activeHandIndex,
     !.insuranceStake = view[s].insuranceStake,
     !.insuranceStatus = view[s].insuranceStatus]
           w == witness(s, hands, stakes, phase)
<1>1. /\ state.phase = phase /\ state.handWagers = stakes
      /\ state.handCardCounts = sizesIn(hands)
      /\ state.insuranceStake = view[s].insuranceStake
      /\ state.insurancePayout = None /\ state.payout = None
      /\ state.activeHandIndex = view[s].activeHandIndex
      /\ SourceFields \subseteq DOMAIN state
      /\ {"insuranceStatus", "payout", "activeHandIndex"} \subseteq DOMAIN state
  BY DEF Unsaid, SourceFields
<1> HIDE DEF state
<1>2. /\ w.state = state /\ w.playerCards = FlattenSeq(hands)
      /\ w.dealerCards = table(s).dealerCards
      /\ w.proofSequence = session[s].proofSequence + 1
      /\ {"playerCards", "dealerCards", "oldPlayerCards", "proofSequence", "state"}
           \subseteq DOMAIN w
  BY DEF witness, state, sizesIn
<1> HIDE DEF w
<1> QED
  BY <1>1, <1>2 DEF isLater, isFullWitness, w

\* A payload of a later witness is sound, and of the stakes of the session.
LEMMA LaterPayload ==
  ASSUME NEW s, NEW kind \in {"peek", "action", "showdown"},
         NEW w, NEW hands, NEW stakes, NEW phase \in {4, 5, 6, 7},
         isLater(s, w, hands, stakes, phase), laid(hands, stakes),
         w.state.activeHandIndex \in 0..3, w.state.payout \in Nat \cup {None},
         view[s].insuranceStake \in Nat, table(s).dealerCards \in Seq(Cards),
         session[s].proofSequence \in Nat,
         \/ view[s].phase = 3 /\ kind = "peek"
         \/ view[s].phase = 6 /\ kind # "peek",
         session[s].totalBurned = stakes[1] + stakes[2] + stakes[3] + stakes[4]
                                    + view[s].insuranceStake
  PROVE  LET p == generateBlackjackPayload(kind, w) IN
         sound(p) /\ timely(p, session[s], view[s])
<1> DEFINE p == generateBlackjackPayload(kind, w)
           sizes == sizesIn(hands)
<1>1. parted(sizes, FlattenSeq(hands)) /\ \A i \in HandIds : sizes[i] = 0 => stakes[i] = 0
  BY LaidParted
<1>2. /\ isFullWitness(w) /\ w.playerCards = FlattenSeq(hands)
      /\ w.dealerCards \in Seq(Cards)
      /\ w.proofSequence = session[s].proofSequence + 1
      /\ w.state.phase = phase /\ w.state.handWagers = stakes
      /\ w.state.handCardCounts = sizes
      /\ w.state.insuranceStake = view[s].insuranceStake
      /\ w.state.insurancePayout = None
  BY DEF isLater
<1> HIDE DEF sizes
<1>3. sizes # None /\ stakes # None /\ phase # None /\ view[s].insuranceStake # None
  <2>1. sizes \in Sizes /\ stakes \in Sizes
    BY <1>1 DEF parted, laid
  <2> QED
    BY <2>1, NoneElse
<1>4. /\ sizesFor(w) = sizes /\ stakesFor(w) = stakes
      /\ orElse(w.state.insuranceStake, 0) = view[s].insuranceStake
  BY <1>2, <1>3 DEF sizesFor, stakesFor, orElse
<1>5. stakes \in Sizes
  BY DEF laid
<1>6. kind \in Kinds /\ kind # "initial-deal"
  BY DEF Kinds
<1>7. /\ p.phase = kind /\ p.proof.circuit = blackjackCircuitForPhase[kind]
      /\ dealt(p.publicState, p.witness)
      /\ \A i \in HandIds : p.publicState.hands[i].wager = stakes[i]
      /\ p.publicState.insuranceStake = view[s].insuranceStake
      /\ p.publicState.phase = phase
      /\ p.proof.inputs.proofSequence = session[s].proofSequence + 1
  <2>1. /\ parted(sizesFor(w), w.playerCards) /\ stakesFor(w) \in Sizes
        /\ \A i \in HandIds : sizesFor(w)[i] = 0 => stakesFor(w)[i] = 0
        /\ w.state.handCardCounts # None
        /\ w.state.insuranceStake \in Nat \cup {None}
        /\ w.state.insurancePayout \in Nat \cup {None}
        /\ w.state.activeHandIndex \in 0..3 \cup {None}
    BY <1>1, <1>2, <1>3, <1>4, <1>5
  <2> HIDE DEF p
  <2>2. /\ p.phase = kind /\ p.proof.circuit = blackjackCircuitForPhase[kind]
        /\ dealt(p.publicState, p.witness)
        /\ \A i \in HandIds : p.publicState.hands[i].wager = stakesFor(w)[i]
        /\ p.publicState.insuranceStake = orElse(w.state.insuranceStake, 0)
        /\ w.state.phase # None => p.publicState.phase = w.state.phase
        /\ kind # "initial-deal" => p.proof.inputs.proofSequence = w.proofSequence
    BY <1>2, <1>6, <2>1, PayloadDealt DEF p
  <2>3. p.publicState.phase = phase
    BY <1>2, <1>3, <2>2
  <2>4. p.proof.inputs.proofSequence = session[s].proofSequence + 1
    BY <1>2, <1>6, <2>2
  <2> QED
    BY <1>4, <2>2, <2>3, <2>4
<1> HIDE DEF p
<1>8. staked(p.publicState) = session[s].totalBurned
  BY <1>7 DEF staked, HandIds
<1>9. sound(p)
  BY <1>6, <1>7 DEF sound
<1>10. timely(p, session[s], view[s])
  BY <1>6, <1>7, <1>8 DEF timely
<1> QED
  BY <1>9, <1>10 DEF p

-----------------------------------------------------------------------------
(* Wagers, counts and splits                                               *)

LEMMA Wagers ==
  ASSUME NEW s, isView(view[s])
  PROVE  /\ wagers(s) \in Sizes
         /\ \A i \in HandIds : wagers(s)[i] = view[s].hands[i].wager
         /\ SumFunction(wagers(s)) + view[s].insuranceStake = staked(view[s])
<1> DEFINE wager(i) == view[s].hands[i].wager
<1>1. /\ wager(1) \in Nat /\ wager(2) \in Nat /\ wager(3) \in Nat /\ wager(4) \in Nat
  BY DEF isView, HandIds
<1>2. staked(view[s]) = wager(1) + wager(2) + wager(3) + wager(4) + view[s].insuranceStake
  BY DEF staked
<1>3. wagers(s) = <<wager(1), wager(2), wager(3), wager(4)>>
  BY DEF wagers, each
<1> HIDE DEF wager
<1> DEFINE f == <<wager(1), wager(2), wager(3), wager(4)>>
<1>4. /\ DOMAIN f = HandIds /\ f[1] = wager(1) /\ f[2] = wager(2)
      /\ f[3] = wager(3) /\ f[4] = wager(4) /\ f \in [HandIds -> Nat]
  BY <1>1 DEF HandIds
<1> HIDE DEF f
<1>5. \A i \in HandIds : f[i] = wager(i) /\ f[i] \in Int
  BY <1>1, <1>4 DEF HandIds
<1>6. SumFunction(f) = wager(1) + wager(2) + wager(3) + wager(4)
  BY <1>4, <1>5, SumOfFour
<1>7. wagers(s) = f
  BY <1>3 DEF f
<1> QED
  BY <1>2, <1>4, <1>5, <1>6, <1>7 DEF Sizes, wager

LEMMA Counts ==
  ASSUME NEW s
  PROVE  counts(s) = sizesOf(view[s])
<1> DEFINE size(i) == view[s].hands[i].cardCount
<1>1. counts(s) = <<size(1), size(2), size(3), size(4)>>
  BY DEF counts, each
<1>2. sizesOf(view[s]) = [i \in HandIds |-> size(i)]
  BY DEF sizesOf
<1> HIDE DEF size
<1>3. <<size(1), size(2), size(3), size(4)>> = [i \in HandIds |-> size(i)]
  BY DEF HandIds
<1> QED
  BY <1>1, <1>2, <1>3

\* the hands at the table lie as the public state says
LEMMA TableLaid ==
  ASSUME NEW s, dealt(view[s], table(s))
  PROVE  /\ laid(handsOf(s), wagers(s))
         /\ \A i \in HandIds : Len(handsOf(s)[i]) = view[s].hands[i].cardCount
<1> DEFINE hands == handsOf(s)
           cards == table(s).playerCards
           sizes == sizesOf(view[s])
           stakes == wagers(s)
<1>1. parted(sizes, cards) /\ isView(view[s])
  BY DEF dealt
<1>2. hands = partitionHands(cards, sizes)
  BY Counts DEF handsOf
<1>3. \A i \in HandIds : sizes[i] = view[s].hands[i].cardCount
  BY DEF sizesOf
<1>4. /\ stakes \in Sizes /\ \A i \in HandIds : stakes[i] = view[s].hands[i].wager
  BY <1>1, Wagers
<1>5. \A i \in HandIds : sizes[i] = 0 => stakes[i] = 0
  BY <1>3, <1>4 DEF dealt, fairHand
<1> HIDE DEF cards, sizes, stakes
<1>6. \A i \in HandIds : hands[i] \in Seq(Cards) /\ Len(hands[i]) = sizes[i]
  BY <1>1, <1>2, Parts
<1>7. \E h1, h2, h3, h4 : hands = <<h1, h2, h3, h4>>
  BY <1>2 DEF partitionHands, each
<1> HIDE DEF hands
<1>8. hands \in Seq(Seq(Cards)) /\ Len(hands) = 4
  <2>1. PICK h1, h2, h3, h4 : hands = <<h1, h2, h3, h4>>
    BY <1>7
  <2>2. hands[1] = h1 /\ hands[2] = h2 /\ hands[3] = h3 /\ hands[4] = h4
    BY <2>1
  <2> DEFINE S == Seq(Cards)
  <2>3. h1 \in S /\ h2 \in S /\ h3 \in S /\ h4 \in S
    BY <1>6, <2>2 DEF HandIds
  <2> HIDE DEF S
  <2>4. <<h1, h2, h3, h4>> \in Seq(S) /\ Len(<<h1, h2, h3, h4>>) = 4
    BY <2>3
  <2> QED
    BY <2>1, <2>4 DEF S
<1>9. Len(hands[1]) > 0 /\ \A i \in 1..3 : Len(hands[i]) = 0 => Len(hands[i + 1]) = 0
  <2>1. 1 \in HandIds /\ \A i \in 1..3 : i \in HandIds /\ i + 1 \in HandIds
    BY DEF HandIds
  <2>2. sizes[1] > 0 /\ \A i \in 1..3 : sizes[i] = 0 => sizes[i + 1] = 0
    BY <1>1 DEF parted
  <2> QED
    BY <1>6, <2>1, <2>2
<1>10. \A i \in HandIds : Len(hands[i]) = 0 => stakes[i] = 0
  BY <1>5, <1>6
<1> QED
  BY <1>3, <1>4, <1>6, <1>8, <1>9, <1>10 DEF laid, hands, sizes, stakes

\* a hand that has cards receives one
LEMMA DealtLaid ==
  ASSUME NEW hands, NEW stakes, laid(hands, stakes), NEW a \in HandIds,
         Len(hands[a]) > 0, NEW card \in Cards
  PROVE  /\ laid(dealTo(hands, a, card), stakes)
         /\ laid(dealTo(hands, a, card), [stakes EXCEPT ![a] = 2 * @])
<1> DEFINE S == Seq(Cards)
           new == [hands EXCEPT ![a] = Append(hands[a], card)]
           doubled == [stakes EXCEPT ![a] = 2 * stakes[a]]
<1>1. hands \in Seq(S) /\ Len(hands) = 4 /\ stakes \in [HandIds -> Nat]
  BY DEF laid, Sizes
<1>2. hands[a] \in S
  BY <1>1, ElementOfSeq DEF HandIds
<1>3. /\ Append(hands[a], card) \in S /\ Len(Append(hands[a], card)) = Len(hands[a]) + 1
      /\ Len(hands[a]) \in Nat
  BY <1>2, AppendProperties, LenProperties
<1> DEFINE hand == Append(hands[a], card)
<1> HIDE DEF S, hand
<1>4. new \in Seq(S) /\ Len(new) = 4 /\ \A i \in HandIds : new[i] = IF i = a THEN hand ELSE hands[i]
  <2>1. DOMAIN hands = 1..4 /\ a \in 1..4 /\ hand \in S
    BY <1>1, <1>3, LenProperties DEF HandIds, hand
  <2> DEFINE upd == [hands EXCEPT ![a] = hand]
  <2>2. /\ \A i \in 1..4 : upd[i] = IF i = a THEN hand ELSE hands[i]
        /\ upd \in Seq(S) /\ Len(upd) = 4
    BY <1>1, <2>1, ExceptSeq
  <2> QED
    BY <2>2 DEF HandIds, hand
<1>5. \A i \in HandIds : Len(new[i]) = 0 <=> Len(hands[i]) = 0
  BY <1>3, <1>4 DEF hand
<1>6. /\ Len(new[1]) > 0 /\ \A i \in 1..3 : Len(new[i]) = 0 => Len(new[i + 1]) = 0
  <2>1. Len(new[1]) > 0
    <3>1. CASE a = 1
      BY <1>3, <1>4, <3>1 DEF HandIds, hand
    <3>2. CASE a # 1
      BY <1>4, <3>2 DEF HandIds, laid
    <3> QED BY <3>1, <3>2
  <2>2. \A i \in 1..3 : i \in HandIds /\ i + 1 \in HandIds
    BY DEF HandIds
  <2> HIDE DEF new
  <2> QED
    BY <1>5, <2>1, <2>2 DEF laid
<1>7. doubled \in [HandIds -> Nat] /\ \A i \in HandIds : stakes[i] = 0 => doubled[i] = 0
  BY <1>1
<1>8. dealTo(hands, a, card) = new
  BY DEF dealTo
<1> HIDE DEF new
<1>9. laid(new, stakes) /\ laid(new, doubled)
  BY <1>1, <1>4, <1>5, <1>6, <1>7 DEF laid, Sizes, S
<1> QED
  BY <1>8, <1>9

\* the stake of a split hand is put up again
splitStakes(stakes, a) == each(LAMBDA i : stakes[IF i <= a THEN i ELSE i - 1])

\* hand a is split: the hands behind it move on by one
LEMMA SplitLaid ==
  ASSUME NEW hands, NEW stakes, laid(hands, stakes), NEW a \in HandIds,
         Len(hands[a]) = 2, Len(hands[4]) = 0, NEW card1 \in Cards, NEW card2 \in Cards
  PROVE  LET new == splitHand(hands, a, card1, card2)
             paid == splitStakes(stakes, a) IN
         /\ laid(new, paid)
         /\ paid[1] + paid[2] + paid[3] + paid[4] =
              stakes[1] + stakes[2] + stakes[3] + stakes[4] + stakes[a]
<1> DEFINE S == Seq(Cards)
           left == <<hands[a][1], card1>>
           right == <<hands[a][2], card2>>
           part(i) == CASE i < a     -> hands[i]
                        [] i = a     -> left
                        [] i = a + 1 -> right
                        [] OTHER     -> hands[i - 1]
           paid(i) == stakes[IF i <= a THEN i ELSE i - 1]
           new == <<part(1), part(2), part(3), part(4)>>
           stake == <<paid(1), paid(2), paid(3), paid(4)>>
<1>1. /\ \A i \in 1..4 : hands[i] \in S
      /\ stakes[1] \in Nat /\ stakes[2] \in Nat /\ stakes[3] \in Nat /\ stakes[4] \in Nat
      /\ a \in {1, 2, 3}
  <2>1. hands \in Seq(S) /\ Len(hands) = 4
    BY DEF laid
  <2>2. \A i \in 1..4 : hands[i] \in S
    <3> HIDE DEF S
    <3> QED BY <2>1, ElementOfSeq
  <2>3. stakes[1] \in Nat /\ stakes[2] \in Nat /\ stakes[3] \in Nat /\ stakes[4] \in Nat
    BY DEF laid, Sizes, HandIds
  <2>4. a \in {1, 2, 3}
    BY DEF HandIds
  <2> QED
    BY <2>2, <2>3, <2>4
<1>2. left \in S /\ right \in S /\ Len(left) = 2 /\ Len(right) = 2
  <2>1. hands[a] \in Seq(Cards) /\ 1 \in 1..Len(hands[a]) /\ 2 \in 1..Len(hands[a])
    BY <1>1
  <2>2. hands[a][1] \in Cards /\ hands[a][2] \in Cards
    BY <2>1, ElementOfSeq
  <2> DEFINE T == Cards
             x == hands[a][1]
             y == hands[a][2]
  <2>3. x \in T /\ y \in T /\ card1 \in T /\ card2 \in T
    BY <2>2
  <2> HIDE DEF T, x, y
  <2>4. /\ <<x, card1>> \in Seq(T) /\ <<y, card2>> \in Seq(T)
        /\ Len(<<x, card1>>) = 2 /\ Len(<<y, card2>>) = 2
    BY <2>3
  <2> QED
    BY <2>4 DEF T, x, y
<1> HIDE DEF left, right, S
<1>13. ASSUME NEW i \in 1..4
       PROVE  /\ i < a => part(i) = hands[i]
              /\ i = a => part(i) = left
              /\ i = a + 1 => part(i) = right
              /\ i > a + 1 => part(i) = hands[i - 1] /\ i - 1 \in 1..4
  <2>1. a \in Int /\ i \in Int
    BY <1>1
  <2>2. ASSUME i < a PROVE part(i) = hands[i]
    BY <2>1, <2>2
  <2>3. ASSUME i = a PROVE part(i) = left
    BY <2>1, <2>3
  <2>4. ASSUME i = a + 1 PROVE part(i) = right
    BY <2>1, <2>4
  <2>5. ASSUME i > a + 1 PROVE part(i) = hands[i - 1] /\ i - 1 \in 1..4
    BY <1>1, <2>1, <2>5
  <2> HIDE DEF part
  <2> QED
    BY <2>2, <2>3, <2>4, <2>5
<1> HIDE DEF part
<1>14. ASSUME NEW i \in 1..4, Len(part(i)) = 0
       PROVE  i < a \/ i > a + 1
  <2>1. i # a
    BY <1>2, <1>13, <1>14
  <2>2. i # a + 1
    BY <1>2, <1>13, <1>14
  <2> QED
    BY <1>1, <2>1, <2>2
<1>3. ASSUME NEW i \in 1..4 PROVE part(i) \in S
  BY <1>1, <1>2, <1>13
<1>4. stakes[4] = 0
  BY DEF laid, HandIds
<1>5. \A i \in 1..4 : Len(part(i)) = 0 => paid(i) = 0
  <2>1. \A i \in 1..4 : Len(hands[i]) = 0 => stakes[i] = 0
    BY DEF laid, HandIds
  <2>2. ASSUME NEW i \in 1..4, Len(part(i)) = 0 PROVE paid(i) = 0
    <3>1. i < a \/ i > a + 1
      BY <1>14, <2>2
    <3> QED
      BY <1>1, <1>13, <2>1, <2>2, <3>1
  <2> QED
    BY <2>2
<1>6. Len(part(1)) > 0 /\ \A i \in 1..3 : Len(part(i)) = 0 => Len(part(i + 1)) = 0
  <2>1. Len(hands[1]) > 0 /\ \A i \in 1..3 : Len(hands[i]) = 0 => Len(hands[i + 1]) = 0
    BY DEF laid
  <2>2. Len(part(1)) > 0
    BY <1>1, <1>2, <1>13, <2>1
  <2>3. ASSUME NEW i \in 1..3, Len(part(i)) = 0 PROVE Len(part(i + 1)) = 0
    <3>1. i < a \/ i > a + 1
      BY <1>14, <2>3
    <3>2. CASE i < a
      <4>1. Len(hands[i]) = 0
        BY <1>13, <2>3, <3>2
      <4>2. Len(hands[a]) = 0
        <5>1. i # 1
          BY <2>1, <4>1
        <5>2. i = 2 /\ a = 3
          BY <1>1, <3>2, <5>1
        <5> QED
          <6>1. 2 \in 1..3 /\ 2 + 1 = 3
            OBVIOUS
          <6>2. Len(hands[2]) = 0 => Len(hands[3]) = 0
            BY <2>1, <6>1
          <6> QED
            BY <4>1, <5>2, <6>2
      <4> QED
        BY <4>2
    <3>3. CASE i > a + 1
      <4>1. Len(hands[i - 1]) = 0 /\ i - 1 \in 1..3
        BY <1>1, <1>13, <2>3, <3>3
      <4>2. Len(hands[i]) = 0
        BY <2>1, <4>1
      <4>3. part(i + 1) = hands[i]
        BY <1>1, <1>13, <3>3
      <4> QED
        BY <4>2, <4>3
    <3> QED
      BY <1>1, <3>1, <3>2, <3>3
  <2> QED
    BY <2>2, <2>3
<1>7. paid(1) + paid(2) + paid(3) + paid(4) =
        stakes[1] + stakes[2] + stakes[3] + stakes[4] + stakes[a]
  BY <1>1, <1>4
<1>8. \A i \in 1..4 : paid(i) \in Nat
  BY <1>1
<1>9. /\ splitHand(hands, a, card1, card2) = new
      /\ splitStakes(stakes, a) = stake
  BY DEF splitHand, splitStakes, each, left, right, part
<1> HIDE DEF paid
<1>10. /\ new \in Seq(S) /\ Len(new) = 4 /\ new[1] = part(1) /\ new[2] = part(2)
       /\ new[3] = part(3) /\ new[4] = part(4)
       /\ stake[1] = paid(1) /\ stake[2] = paid(2) /\ stake[3] = paid(3)
       /\ stake[4] = paid(4) /\ stake \in [HandIds -> Nat]
  <2>1. /\ part(1) \in S /\ part(2) \in S /\ part(3) \in S /\ part(4) \in S
        /\ paid(1) \in Nat /\ paid(2) \in Nat /\ paid(3) \in Nat /\ paid(4) \in Nat
    BY <1>3, <1>8
  <2> QED
    BY <2>1 DEF HandIds
<1> HIDE DEF new, stake
<1>11. \A i \in 1..4 : new[i] = part(i) /\ stake[i] = paid(i)
  BY <1>10
<1>12. laid(new, stake)
  <2>1. \A i \in 1..3 : i \in 1..4 /\ i + 1 \in 1..4
    OBVIOUS
  <2> QED
    BY <1>5, <1>6, <1>10, <1>11, <2>1 DEF laid, Sizes, HandIds, S
<1> QED
  BY <1>7, <1>9, <1>10, <1>12

-----------------------------------------------------------------------------
(* The coordinator's payloads                                              *)

\* a payload that the coordinator may have
made(s, p) == sound(p) /\ timely(p, session[s], view[s])

LEMMA InitialPayload ==
  ASSUME NEW s \in Sessions, consistent(s), ProveInitialDeal(s)
  PROVE  \E p : /\ made(s, p)
                /\ payloads' = [payloads EXCEPT ![s] = @ \cup {p}]
                /\ UNCHANGED <<session, view, balance, settled, accepted>>
<1> DEFINE w(deal) ==
       [sessionId |-> s, baseWager |-> session[s].wager,
        playerCards |-> deal.player, dealerCards |-> deal.dealer,
        oldPlayerCards |-> <<>>, oldHandCardCounts |-> four(0),
        playerKey |-> s, deckCommitment |-> None, proofSequence |-> None,
        pendingAction |-> None, state |-> Unsaid]
<1>1. PICK deal \in Deals : prove(s, "initial-deal", w(deal))
  BY DEF ProveInitialDeal
<1>2. deal.player \in Cards \X Cards /\ deal.dealer \in Seq(Cards) /\ Wager \in Nat
  BY BlackjackAssumption
<1>3. session[s].wager = Wager
  BY Phases DEF ProveInitialDeal, at, consistent, funded
<1> DEFINE v == w(deal)
           p == generateBlackjackPayload("initial-deal", v)
<1>4. /\ isFullWitness(v) /\ v.playerCards = deal.player /\ v.dealerCards = deal.dealer
      /\ v.baseWager = Wager /\ v.state = Unsaid
  BY <1>3 DEF isFullWitness, Unsaid, SourceFields
<1>5. /\ v.state.phase = None /\ v.state.handCardCounts = None /\ v.state.handWagers = None
      /\ v.state.activeHandIndex = None /\ v.state.insuranceStake = None
      /\ v.state.payout = None /\ v.state.insurancePayout = None
  BY DEF Unsaid
<1> HIDE DEF w
<1>6. deal.player \in Seq(Cards) /\ Len(deal.player) = 2
  <2> DEFINE T == Cards
  <2>1. PICK x \in T, y \in T : deal.player = <<x, y>>
    BY <1>2
  <2> HIDE DEF T
  <2>2. <<x, y>> \in Seq(T) /\ Len(<<x, y>>) = 2
    OBVIOUS
  <2> QED
    BY <2>1, <2>2 DEF T
<1>7. sizesFor(v) = four(2) /\ stakesFor(v) = four(Wager)
  BY <1>4, <1>5, <1>6 DEF sizesFor, stakesFor, orElse
<1>8. \A n \in Nat : /\ four(n) \in Sizes /\ four(n)[1] = n /\ four(n)[2] = 0
                     /\ four(n)[3] = 0 /\ four(n)[4] = 0
  BY DEF four, Sizes, HandIds
<1>9. four(2) \in Sizes /\ four(2)[1] = 2 /\ four(2)[2] = 0 /\ four(2)[3] = 0 /\ four(2)[4] = 0
  BY <1>8
<1>10. /\ four(Wager) \in Sizes /\ four(Wager)[1] = Wager /\ four(Wager)[2] = 0
       /\ four(Wager)[3] = 0 /\ four(Wager)[4] = 0
  BY <1>2, <1>8
<1>11. /\ parted(sizesFor(v), v.playerCards) /\ stakesFor(v) \in Sizes
       /\ \A i \in HandIds : sizesFor(v)[i] = 0 => stakesFor(v)[i] = 0
       /\ v.dealerCards \in Seq(Cards)
  <2>1. parted(four(2), deal.player)
    BY <1>6, <1>9 DEF parted
  <2>2. \A i \in HandIds : four(2)[i] = 0 => four(Wager)[i] = 0
    BY <1>9, <1>10 DEF HandIds
  <2> QED
    BY <1>2, <1>4, <1>7, <1>10, <2>1, <2>2
<1> HIDE DEF v
<1>12. /\ p.phase = "initial-deal" /\ p.proof.circuit = blackjackCircuitForPhase["initial-deal"]
       /\ dealt(p.publicState, p.witness)
       /\ \A i \in HandIds : p.publicState.hands[i].wager = stakesFor(v)[i]
       /\ p.publicState.insuranceStake = 0
       /\ p.publicState.phase \in {2, 5}
  <2> HIDE DEF p
  <2>1. "initial-deal" \in Kinds /\ orElse(v.state.insuranceStake, 0) = 0
    BY <1>5 DEF Kinds, orElse
  <2> QED
    BY <1>4, <1>5, <1>11, <2>1, PayloadDealt DEF p
<1> HIDE DEF p
<1>13. staked(p.publicState) = Wager
  BY <1>2, <1>7, <1>10, <1>12 DEF staked, HandIds
<1>14. made(s, p)
  BY <1>12, <1>13 DEF made, sound, timely, Kinds
<1>15. /\ payloads' = [payloads EXCEPT ![s] = @ \cup {p}]
       /\ UNCHANGED <<session, view, balance, settled, accepted>>
  BY <1>1 DEF prove, p, v
<1> QED
  BY <1>14, <1>15

\* what the coordinator knows in the phases it proves later steps in
LEMMA AtTable ==
  ASSUME ChainInv, NEW s \in Sessions, consistent(s), view[s].phase \in {3, 6}
  PROVE  /\ dealt(view[s], table(s)) /\ laid(handsOf(s), wagers(s))
         /\ \A i \in HandIds : Len(handsOf(s)[i]) = view[s].hands[i].cardCount
         /\ \A i \in HandIds : wagers(s)[i] = view[s].hands[i].wager
         /\ view[s].insuranceStake \in Nat /\ view[s].activeHandIndex \in 0..3
         /\ table(s).dealerCards \in Seq(Cards) /\ session[s].proofSequence \in Nat
         /\ session[s].totalBurned =
              wagers(s)[1] + wagers(s)[2] + wagers(s)[3] + wagers(s)[4]
                + view[s].insuranceStake + session[s].pendingAdditionalBurn
         /\ wagers(s) \in Sizes
<1>1. accepted[s] # <<>> /\ session[s].proofSequence = Len(accepted[s])
      /\ accepted[s] \in Seq(payloads[s])
  BY Phases DEF ChainInv, chained
<1>2. session[s].proofSequence \in Nat
  BY <1>1, LenProperties
<1>3. dealt(view[s], table(s))
  BY <1>1 DEF consistent
<1>4. isView(view[s]) /\ table(s).dealerCards \in Seq(Cards)
  BY <1>3 DEF dealt
<1>5. view[s].insuranceStake \in Nat /\ view[s].activeHandIndex \in 0..3
  BY <1>4 DEF isView
<1>6. /\ wagers(s) \in Sizes
      /\ \A i \in HandIds : wagers(s)[i] = view[s].hands[i].wager
  BY <1>4, Wagers
<1>7. staked(view[s]) = wagers(s)[1] + wagers(s)[2] + wagers(s)[3] + wagers(s)[4]
                          + view[s].insuranceStake
  BY <1>6 DEF staked, HandIds
<1>8. session[s].totalBurned = staked(view[s]) + session[s].pendingAdditionalBurn
  BY DEF consistent, funded
<1> QED
  BY <1>2, <1>3, <1>4, <1>5, <1>6, <1>7, <1>8, TableLaid

LEMMA PeekPayload ==
  ASSUME ChainInv, NEW s \in Sessions, consistent(s), ProvePeek(s)
  PROVE  \E p : /\ made(s, p)
                /\ payloads' = [payloads EXCEPT ![s] = @ \cup {p}]
                /\ UNCHANGED <<session, view, balance, settled, accepted>>
<1> DEFINE blackjack == isNaturalBlackjack(SubSeq(table(s).dealerCards, 1, 2))
           phase == IF blackjack THEN PHASE.COMPLETED
                    ELSE IF cardMeta(upCard(table(s).dealerCards)).isAce
                      THEN PHASE.AWAITING_POSTPEEK_DECISION
                      ELSE PHASE.AWAITING_PLAYER_ACTION
           w == witness(s, handsOf(s), wagers(s), phase)
<1>1. view[s].phase = 3
  BY Phases DEF ProvePeek, at
<1>2. PICK insured, payout :
        /\ payout \in (IF blackjack THEN Payouts ELSE {0})
        /\ prove(s, "peek", [w EXCEPT !.state.insuranceStatus = insured,
                                      !.state.payout = payout])
  BY DEF ProvePeek
<1>3. payout \in Nat
  BY <1>2, BlackjackAssumption
<1>4. phase \in {4, 5, 6, 7}
  BY Phases
<1>5. /\ isLater(s, w, handsOf(s), wagers(s), phase)
      /\ {"insuranceStatus", "payout", "activeHandIndex"} \subseteq DOMAIN w.state
      /\ w.state.activeHandIndex = view[s].activeHandIndex
  BY LaterWitness
<1> HIDE DEF w, phase, blackjack
<1> DEFINE v == [w EXCEPT !.state.insuranceStatus = insured, !.state.payout = payout]
<1>6. /\ isLater(s, v, handsOf(s), wagers(s), phase)
      /\ v.state.activeHandIndex = view[s].activeHandIndex /\ v.state.payout = payout
  BY <1>5 DEF isLater, isFullWitness, SourceFields
<1> HIDE DEF v
<1>7. /\ laid(handsOf(s), wagers(s)) /\ view[s].activeHandIndex \in 0..3
      /\ view[s].insuranceStake \in Nat /\ table(s).dealerCards \in Seq(Cards)
      /\ session[s].proofSequence \in Nat
  BY <1>1, AtTable
<1>8. session[s].totalBurned = wagers(s)[1] + wagers(s)[2] + wagers(s)[3] + wagers(s)[4]
                                 + view[s].insuranceStake
  <2>1. session[s].pendingAdditionalBurn = 0
    BY <1>1 DEF consistent, funded, pendingFits
  <2>2. /\ session[s].totalBurned =
              wagers(s)[1] + wagers(s)[2] + wagers(s)[3] + wagers(s)[4]
                + view[s].insuranceStake + session[s].pendingAdditionalBurn
        /\ wagers(s) \in Sizes
    BY <1>1, AtTable
  <2> QED
    BY <1>7, <2>1, <2>2 DEF Sizes, HandIds
<1> DEFINE p == generateBlackjackPayload("peek", v)
<1>9. made(s, p)
  <2>1. v.state.activeHandIndex \in 0..3 /\ v.state.payout \in Nat \cup {None}
    BY <1>3, <1>6, <1>7
  <2> QED
    BY <1>1, <1>4, <1>6, <1>7, <1>8, <2>1, LaterPayload DEF made
<1>10. /\ payloads' = [payloads EXCEPT ![s] = @ \cup {p}]
       /\ UNCHANGED <<session, view, balance, settled, accepted>>
  BY <1>2 DEF prove, v
<1> QED
  BY <1>9, <1>10

LEMMA ShowdownPayload ==
  ASSUME ChainInv, NEW s \in Sessions, consistent(s), ProveShowdown(s)
  PROVE  \E p : /\ made(s, p)
                /\ payloads' = [payloads EXCEPT ![s] = @ \cup {p}]
                /\ UNCHANGED <<session, view, balance, settled, accepted>>
<1> DEFINE w == witness(s, handsOf(s), wagers(s), PHASE.COMPLETED)
<1>1. view[s].phase = 6 /\ session[s].pendingAction \in {None, "STAND"}
  BY Phases DEF ProveShowdown, at
<1>2. PICK payout \in Payouts : prove(s, "showdown", [w EXCEPT !.state.payout = payout])
  BY DEF ProveShowdown
<1>3. payout \in Nat
  BY BlackjackAssumption
<1>4. PHASE.COMPLETED \in {4, 5, 6, 7}
  BY Phases
<1>5. /\ isLater(s, w, handsOf(s), wagers(s), PHASE.COMPLETED)
      /\ {"insuranceStatus", "payout", "activeHandIndex"} \subseteq DOMAIN w.state
      /\ w.state.activeHandIndex = view[s].activeHandIndex
  BY LaterWitness
<1> HIDE DEF w
<1> DEFINE v == [w EXCEPT !.state.payout = payout]
<1>6. /\ isLater(s, v, handsOf(s), wagers(s), PHASE.COMPLETED)
      /\ v.state.activeHandIndex = view[s].activeHandIndex /\ v.state.payout = payout
  BY <1>5 DEF isLater, isFullWitness, SourceFields
<1> HIDE DEF v
<1>7. /\ laid(handsOf(s), wagers(s)) /\ view[s].activeHandIndex \in 0..3
      /\ view[s].insuranceStake \in Nat /\ table(s).dealerCards \in Seq(Cards)
      /\ session[s].proofSequence \in Nat
  BY <1>1, AtTable
<1>8. session[s].totalBurned = wagers(s)[1] + wagers(s)[2] + wagers(s)[3] + wagers(s)[4]
                                 + view[s].insuranceStake
  <2>1. session[s].pendingAdditionalBurn = 0
    BY <1>1 DEF consistent, funded, pendingFits
  <2>2. /\ session[s].totalBurned =
              wagers(s)[1] + wagers(s)[2] + wagers(s)[3] + wagers(s)[4]
                + view[s].insuranceStake + session[s].pendingAdditionalBurn
        /\ wagers(s) \in Sizes
    BY <1>1, AtTable
  <2> QED
    BY <1>7, <2>1, <2>2 DEF Sizes, HandIds
<1> DEFINE p == generateBlackjackPayload("showdown", v)
<1>9. made(s, p)
  <2>1. v.state.activeHandIndex \in 0..3 /\ v.state.payout \in Nat \cup {None}
    BY <1>3, <1>6, <1>7
  <2> QED
    BY <1>1, <1>4, <1>6, <1>7, <1>8, <2>1, LaterPayload DEF made
<1>10. /\ payloads' = [payloads EXCEPT ![s] = @ \cup {p}]
       /\ UNCHANGED <<session, view, balance, settled, accepted>>
  BY <1>2 DEF prove, v
<1> QED
  BY <1>9, <1>10

\* what an action makes of the hands and stakes: both lie as before, and the
\* stakes are what the session has burned
LEMMA Resolved ==
  ASSUME ChainInv, NEW s \in Sessions, consistent(s), view[s].phase = 6,
         session[s].pendingAction # None,
         NEW r \in resolutions(s, view[s].activeHandIndex + 1)
  PROVE  /\ laid(r.hands, r.wagers)
         /\ session[s].totalBurned = r.wagers[1] + r.wagers[2] + r.wagers[3] + r.wagers[4]
                                       + view[s].insuranceStake
<1> DEFINE a == view[s].activeHandIndex + 1
           hands == handsOf(s)
           stakes == wagers(s)
           hit(card) == dealTo(hands, a, card)
           more == session[s].pendingAdditionalBurn
           doubled == [stakes EXCEPT ![a] = 2 * @]
           hand == view[s].hands[a]
           paid == splitStakes(stakes, a)
<1>1. /\ laid(hands, stakes) /\ view[s].activeHandIndex \in 0..3
      /\ \A i \in HandIds : Len(hands[i]) = view[s].hands[i].cardCount
      /\ \A i \in HandIds : stakes[i] = view[s].hands[i].wager
      /\ session[s].totalBurned = stakes[1] + stakes[2] + stakes[3] + stakes[4]
                                    + view[s].insuranceStake + more
      /\ view[s].insuranceStake \in Nat /\ stakes \in Sizes
  BY AtTable
<1>2. a \in HandIds /\ 4 \in HandIds
  BY <1>1 DEF HandIds
<1>3. /\ stakes[1] \in Nat /\ stakes[2] \in Nat /\ stakes[3] \in Nat /\ stakes[4] \in Nat
      /\ stakes[a] \in Nat
  <2> HIDE DEF stakes, a
  <2>1. stakes \in [HandIds -> Nat] /\ a \in HandIds
    BY <1>1, <1>2 DEF Sizes
  <2> QED
    BY <2>1 DEF HandIds
<1>4. pendingFits(session[s], view[s])
  BY DEF consistent, funded
<1>5. Draws \subseteq Cards
  BY BlackjackAssumption
<1>6. session[s].pendingAction \in PlayerActions
  BY <1>4 DEF pendingFits
<1>7. CASE session[s].pendingAction = "HIT"
  <2>1. PICK card \in Draws : r.hands = hit(card) /\ r.wagers = stakes
    BY <1>7 DEF resolutions
  <2>2. more = 0 /\ hand.cardCount > 0
    BY <1>4, <1>7 DEF pendingFits
  <2> HIDE DEF a, hands, stakes, more
  <2>3. laid(hit(card), stakes)
    BY <1>1, <1>2, <1>5, <2>2, DealtLaid
  <2> QED
    BY <1>1, <1>3, <2>1, <2>2, <2>3
<1>8. CASE session[s].pendingAction = "STAND"
  <2>1. r.hands = hands /\ r.wagers = stakes
    BY <1>8 DEF resolutions
  <2>2. more = 0
    BY <1>4, <1>8 DEF pendingFits
  <2> HIDE DEF a, hands, stakes, more
  <2> QED
    BY <1>1, <1>3, <2>1, <2>2
<1>9. CASE session[s].pendingAction = "DOUBLE"
  <2>1. PICK card \in Draws : r.hands = hit(card) /\ r.wagers = doubled
    BY <1>9 DEF resolutions
  <2>2. more = hand.wager /\ hand.cardCount > 0
    BY <1>4, <1>9 DEF pendingFits
  <2> HIDE DEF a, hands, stakes, more
  <2>3. laid(hit(card), doubled)
    BY <1>1, <1>2, <1>5, <2>2, DealtLaid
  <2>4. doubled[1] + doubled[2] + doubled[3] + doubled[4] =
          stakes[1] + stakes[2] + stakes[3] + stakes[4] + stakes[a]
    <3>1. \A i \in HandIds : doubled[i] = IF i = a THEN stakes[a] + stakes[a] ELSE stakes[i]
      BY <1>1, <1>3 DEF Sizes
    <3> HIDE DEF doubled
    <3>2. /\ doubled[1] = IF 1 = a THEN stakes[a] + stakes[a] ELSE stakes[1]
          /\ doubled[2] = IF 2 = a THEN stakes[a] + stakes[a] ELSE stakes[2]
          /\ doubled[3] = IF 3 = a THEN stakes[a] + stakes[a] ELSE stakes[3]
          /\ doubled[4] = IF 4 = a THEN stakes[a] + stakes[a] ELSE stakes[4]
      BY <3>1 DEF HandIds
    <3>3. a = 1 \/ a = 2 \/ a = 3 \/ a = 4
      BY <1>2 DEF HandIds
    <3>4. CASE a = 1
      BY <1>3, <3>2, <3>4
    <3>5. CASE a = 2
      BY <1>3, <3>2, <3>5
    <3>6. CASE a = 3
      BY <1>3, <3>2, <3>6
    <3>7. CASE a = 4
      BY <1>3, <3>2, <3>7
    <3> QED
      BY <3>3, <3>4, <3>5, <3>6, <3>7
  <2>5. more = stakes[a]
    BY <1>1, <1>2, <2>2
  <2> HIDE DEF doubled
  <2> QED
    BY <1>1, <1>3, <2>1, <2>3, <2>4, <2>5
<1>10. CASE session[s].pendingAction = "SPLIT"
  <2>1. PICK card1 \in Draws, card2 \in Draws :
          r.hands = splitHand(hands, a, card1, card2) /\ r.wagers = paid
    <3>1. PICK cards \in Draws \X Draws :
            r = [hands |-> splitHand(hands, a, cards[1], cards[2]),
                 wagers |-> paid, done |-> FALSE]
      BY <1>10 DEF resolutions, splitStakes
    <3>2. cards[1] \in Draws /\ cards[2] \in Draws
      OBVIOUS
    <3>3. r.hands = splitHand(hands, a, cards[1], cards[2]) /\ r.wagers = paid
      BY <3>1
    <3> QED
      BY <3>2, <3>3
  <2>2. more = hand.wager /\ hand.cardCount = 2 /\ view[s].hands[4].cardCount = 0
    BY <1>4, <1>10 DEF pendingFits
  <2>3. more = stakes[a] /\ Len(hands[a]) = 2 /\ Len(hands[4]) = 0
    BY <1>1, <1>2, <2>2
  <2> HIDE DEF a, hands, stakes, more
  <2>4. /\ laid(splitHand(hands, a, card1, card2), paid)
        /\ paid[1] + paid[2] + paid[3] + paid[4] =
             stakes[1] + stakes[2] + stakes[3] + stakes[4] + stakes[a]
    BY <1>1, <1>2, <1>5, <2>3, SplitLaid
  <2> HIDE DEF paid
  <2> QED
    BY <1>1, <1>3, <2>1, <2>3, <2>4
<1> QED
  BY <1>6, <1>7, <1>8, <1>9, <1>10 DEF PlayerActions

LEMMA ActionPayload ==
  ASSUME ChainInv, NEW s \in Sessions, consistent(s), ProveAction(s)
  PROVE  \E p : /\ made(s, p)
                /\ payloads' = [payloads EXCEPT ![s] = @ \cup {p}]
                /\ UNCHANGED <<session, view, balance, settled, accepted>>
<1> DEFINE a == view[s].activeHandIndex + 1
           over(r) == r.done /\ ~nextHand(r.hands, a)
           phase(r) == IF over(r) THEN PHASE.AWAITING_COORDINATOR_ACTION
                                  ELSE PHASE.AWAITING_PLAYER_ACTION
           w(r) == witness(s, r.hands, r.wagers, phase(r))
           v(r) == [w(r) EXCEPT
                      !.state.activeHandIndex = IF r.done /\ ~over(r) THEN @ + 1 ELSE @]
<1>1. view[s].phase = 6 /\ session[s].pendingAction # None
  BY Phases DEF ProveAction, at
<1>2. PICK r \in resolutions(s, a) : prove(s, "action", v(r))
  BY Zenon DEF ProveAction
<1>3. phase(r) \in {4, 5, 6, 7}
  BY Phases
<1>4. /\ isLater(s, w(r), r.hands, r.wagers, phase(r))
      /\ "activeHandIndex" \in DOMAIN w(r).state
      /\ w(r).state.activeHandIndex = view[s].activeHandIndex /\ w(r).state.payout = None
  BY LaterWitness
<1>5. /\ laid(r.hands, r.wagers)
      /\ session[s].totalBurned = r.wagers[1] + r.wagers[2] + r.wagers[3] + r.wagers[4]
                                    + view[s].insuranceStake
  BY <1>1, <1>2, Resolved
<1>6. /\ view[s].activeHandIndex \in 0..3
      /\ view[s].insuranceStake \in Nat /\ table(s).dealerCards \in Seq(Cards)
      /\ session[s].proofSequence \in Nat
  BY <1>1, AtTable
<1>7. r.done /\ ~over(r) => view[s].activeHandIndex + 1 \in 0..3
  BY <1>6 DEF nextHand
<1> HIDE DEF w, phase, over
<1>8. /\ isLater(s, v(r), r.hands, r.wagers, phase(r))
      /\ v(r).state.activeHandIndex = IF r.done /\ ~over(r) THEN view[s].activeHandIndex + 1
                                      ELSE view[s].activeHandIndex
      /\ v(r).state.payout = None
  BY <1>4 DEF isLater, isFullWitness, SourceFields
<1> DEFINE u == v(r)
           p == generateBlackjackPayload("action", u)
           to == phase(r)
<1>9. u.state.activeHandIndex \in 0..3 /\ u.state.payout \in Nat \cup {None}
  <2> HIDE DEF v
  <2> QED BY <1>6, <1>7, <1>8
<1>10. prove(s, "action", u) /\ isLater(s, u, r.hands, r.wagers, to) /\ to \in {4, 5, 6, 7}
  <2> HIDE DEF v
  <2> QED BY <1>2, <1>3, <1>8
<1> HIDE DEF v, u, to
<1>11. made(s, p)
  BY <1>1, <1>5, <1>6, <1>9, <1>10, LaterPayload DEF made
<1>12. /\ payloads' = [payloads EXCEPT ![s] = @ \cup {p}]
       /\ UNCHANGED <<session, view, balance, settled, accepted>>
  BY <1>10 DEF prove
<1> QED
  BY <1>11, <1>12

LEMMA CoordinatorMakes ==
  ASSUME ChainInv, NEW s \in Sessions, consistent(s),
         ProveInitialDeal(s) \/ ProvePeek(s) \/ ProveAction(s) \/ ProveShowdown(s)
  PROVE  \E p : /\ made(s, p)
                /\ payloads' = [payloads EXCEPT ![s] = @ \cup {p}]
                /\ UNCHANGED <<session, view, balance, settled, accepted>>
  BY InitialPayload, PeekPayload, ActionPayload, ShowdownPayload

-----------------------------------------------------------------------------
(* The money, and steps of one session                                     *)

burned == [s \in Sessions |-> session[s].totalBurned]
payouts == [s \in settled |-> view[s].payout]

\* the player's balance
Money ==
  /\ settled \subseteq {s \in Sessions : view[s].phase = 7}
  /\ balance = InitialBalance - SumFunction(burned) + SumFunction(payouts)

StakesInv == Money /\ \A s \in Sessions : consistent(s)

-----------------------------------------------------------------------------
LEMMA StakedNat ==
  ASSUME NEW v, isView(v)
  PROVE  staked(v) \in Nat /\ v.payout \in Nat
<1>1. /\ v.hands[1].wager \in Nat /\ v.hands[2].wager \in Nat /\ v.hands[3].wager \in Nat
      /\ v.hands[4].wager \in Nat /\ v.insuranceStake \in Nat /\ v.payout \in Nat
  BY DEF isView, HandIds
<1> QED
  BY <1>1 DEF staked

LEMMA BurnedNat ==
  ASSUME NEW ses, NEW v, funded(ses, v)
  PROVE  ses.totalBurned \in Nat /\ v.payout \in Nat
<1>1. staked(v) \in Nat /\ v.payout \in Nat
  BY StakedNat DEF funded
<1>2. ses.pendingAdditionalBurn \in Nat
  BY DEF funded, pendingFits
<1> QED
  BY <1>1, <1>2 DEF funded

LEMMA SumsOfMoney ==
  ASSUME StakesInv
  PROVE  /\ Summable(burned) /\ DOMAIN burned = Sessions
         /\ \A s \in Sessions : burned[s] = session[s].totalBurned
         /\ Summable(payouts) /\ DOMAIN payouts = settled
         /\ \A s \in settled : payouts[s] = view[s].payout
         /\ SumFunction(burned) \in Int /\ SumFunction(payouts) \in Int /\ balance \in Int
<1>1. /\ DOMAIN burned = Sessions /\ \A s \in Sessions : burned[s] = session[s].totalBurned
      /\ DOMAIN payouts = settled /\ \A s \in settled : payouts[s] = view[s].payout
  BY DEF burned, payouts
<1>2. IsFiniteSet(Sessions) /\ settled \subseteq Sessions /\ InitialBalance \in Nat
  BY BlackjackAssumption DEF StakesInv, Money
<1>3. IsFiniteSet(settled)
  BY <1>2, FS_Subset
<1>4. \A s \in Sessions : session[s].totalBurned \in Nat /\ view[s].payout \in Nat
  BY BurnedNat DEF StakesInv, consistent
<1>5. Summable(burned) /\ Summable(payouts)
  BY <1>1, <1>2, <1>3, <1>4 DEF Summable
<1>6. SumFunction(burned) \in Int /\ SumFunction(payouts) \in Int
  BY <1>5, SumIsInteger
<1>7. balance \in Int
  BY <1>2, <1>6 DEF StakesInv, Money
<1> QED
  BY <1>1, <1>5, <1>6, <1>7

\* a step of one session that pays what the session burns
LEMMA SessionStep ==
  ASSUME StakesInv, NEW s \in Sessions, NEW ses, NEW seen,
         session'[s] = ses, view'[s] = seen, consistent(s)',
         view[s].phase # 7 \/ seen = view[s], settled' = settled,
         balance' = balance - (ses.totalBurned - session[s].totalBurned),
         \A t \in Sessions : t # s =>
           /\ session'[t] = session[t] /\ view'[t] = view[t]
           /\ accepted'[t] = accepted[t] /\ payloads'[t] = payloads[t]
  PROVE  StakesInv'
<1>1. /\ session'[s] = ses /\ view'[s] = seen
      /\ \A t \in Sessions : t # s => session'[t] = session[t] /\ view'[t] = view[t]
  OBVIOUS
<1>2. ASSUME NEW t \in Sessions PROVE consistent(t)'
  <2>1. CASE t = s
    BY <2>1
  <2>2. CASE t # s
    <3>1. /\ session'[t] = session[t] /\ view'[t] = view[t]
          /\ accepted'[t] = accepted[t] /\ payloads'[t] = payloads[t]
      BY <1>1, <2>2
    <3>2. consistent(t)
      BY DEF StakesInv
    <3>3. table(t)' = table(t)
      BY <3>1 DEF table
    <3> QED
      BY <3>1, <3>2, <3>3 DEF consistent
  <2> QED
    BY <2>1, <2>2
<1>3. /\ Summable(burned) /\ DOMAIN burned = Sessions
      /\ \A t \in Sessions : burned[t] = session[t].totalBurned
      /\ SumFunction(burned) \in Int /\ SumFunction(payouts) \in Int /\ balance \in Int
  BY SumsOfMoney
<1>4. ses.totalBurned \in Int /\ session[s].totalBurned \in Int
  <2>1. funded(ses, seen)
    BY <1>1, <1>2 DEF consistent
  <2>2. funded(session[s], view[s])
    BY DEF StakesInv, consistent
  <2> QED
    BY <2>1, <2>2, BurnedNat
<1>5. /\ DOMAIN burned' = Sessions /\ burned'[s] = ses.totalBurned
      /\ \A t \in Sessions \ {s} : burned'[t] = burned[t]
  BY <1>1, <1>3 DEF burned
<1>6. SumFunction(burned') = SumFunction(burned) - session[s].totalBurned + ses.totalBurned
  <2> DEFINE f == burned
             g == burned'
  <2>1. /\ s \in DOMAIN f /\ Summable(f) /\ g[s] \in Int /\ DOMAIN g = DOMAIN f
        /\ (\A t \in DOMAIN f \ {s} : g[t] = f[t])
        /\ f[s] = session[s].totalBurned /\ g[s] = ses.totalBurned
    BY <1>3, <1>4, <1>5
  <2> HIDE DEF f, g
  <2>2. SumFunction(g) = SumFunction(f) - f[s] + g[s]
    BY <2>1, SumChanged
  <2> QED
    BY <2>1, <2>2 DEF f, g
<1>7. payouts' = payouts
  <2>1. \A t \in settled : view'[t].payout = view[t].payout
    BY <1>1 DEF StakesInv, Money
  <2> QED
    BY <2>1 DEF payouts
<1>8. settled' \subseteq {t \in Sessions : view'[t].phase = 7}
  BY <1>1 DEF StakesInv, Money
<1>9. balance' = InitialBalance - SumFunction(burned') + SumFunction(payouts')
  <2>1. balance = InitialBalance - SumFunction(burned) + SumFunction(payouts)
    BY DEF StakesInv, Money
  <2>2. InitialBalance \in Int
    BY BlackjackAssumption
  <2> QED
    BY <1>3, <1>4, <1>6, <1>7, <2>1, <2>2
<1> QED
  BY <1>2, <1>8, <1>9 DEF StakesInv, Money

\* a payload that is made
LEMMA MadeStep ==
  ASSUME ChainInv, StakesInv, NEW s \in Sessions, NEW p, made(s, p),
         payloads' = [payloads EXCEPT ![s] = @ \cup {p}],
         UNCHANGED <<session, view, balance, settled, accepted>>
  PROVE  StakesInv'
<1>1. \A t \in Sessions : \A q \in payloads'[t] : q \in payloads[t] \/ (q = p /\ t = s)
  BY DEF ChainInv
<1>2. ASSUME NEW t \in Sessions PROVE consistent(t)'
  <2>1. consistent(t)
    BY DEF StakesInv
  <2>2. \A q \in payloads'[t] : sound(q) /\ timely(q, session[t], view[t])
    BY <1>1, <2>1 DEF consistent, made
  <2>3. table(t)' = table(t)
    BY DEF table
  <2> QED
    BY <2>1, <2>2, <2>3 DEF consistent
<1>3. Money'
  BY DEF StakesInv, Money, burned, payouts
<1> QED
  BY <1>2, <1>3 DEF StakesInv

LEMMA SettleStep ==
  ASSUME ChainInv, StakesInv, NEW s \in Sessions, settle(s)
  PROVE  StakesInv'
<1>1. /\ s \notin settled /\ view[s].phase = 7 /\ settled' = settled \cup {s}
      /\ balance' = balance + view[s].payout
      /\ UNCHANGED <<session, view, payloads, accepted>>
  BY Phases DEF settle, at
<1>2. ASSUME NEW t \in Sessions PROVE consistent(t)'
  BY <1>1 DEF StakesInv, consistent, table
<1>3. /\ Summable(payouts) /\ DOMAIN payouts = settled
      /\ \A t \in settled : payouts[t] = view[t].payout
      /\ SumFunction(burned) \in Int /\ SumFunction(payouts) \in Int /\ balance \in Int
  BY SumsOfMoney
<1>4. view[s].payout \in Int
  BY BurnedNat DEF StakesInv, consistent
<1>5. SumFunction(payouts') = SumFunction(payouts) + view[s].payout
  <2> DEFINE f == payouts
             g == payouts'
  <2>1. /\ Summable(f) /\ s \notin DOMAIN f /\ g[s] \in Int /\ DOMAIN g = DOMAIN f \cup {s}
        /\ (\A t \in DOMAIN f : g[t] = f[t]) /\ g[s] = view[s].payout
    BY <1>1, <1>3, <1>4 DEF payouts
  <2> HIDE DEF f, g
  <2>2. SumFunction(g) = SumFunction(f) + g[s]
    BY <2>1, SumExtended
  <2> QED
    BY <2>1, <2>2 DEF f, g
<1>6. burned' = burned
  BY <1>1 DEF burned
<1>7. balance' = InitialBalance - SumFunction(burned') + SumFunction(payouts')
  <2>1. balance = InitialBalance - SumFunction(burned) + SumFunction(payouts)
    BY DEF StakesInv, Money
  <2>2. InitialBalance \in Int
    BY BlackjackAssumption
  <2> QED
    BY <1>1, <1>3, <1>4, <1>5, <1>6, <2>1, <2>2
<1>8. settled' \subseteq {t \in Sessions : view'[t].phase = 7}
  BY <1>1 DEF StakesInv, Money
<1> QED
  BY <1>2, <1>7, <1>8 DEF StakesInv, Money

-----------------------------------------------------------------------------
\* a public state in which the cards, the wagers and the turn are as before
sameTable(v, u) ==
  /\ ViewFields \subseteq DOMAIN u /\ DOMAIN u.hands = HandIds
  /\ \A i \in HandIds :
       /\ HandFields \subseteq DOMAIN u.hands[i]
       /\ u.hands[i].wager = v.hands[i].wager /\ u.hands[i].value = v.hands[i].value
       /\ u.hands[i].cardCount = v.hands[i].cardCount
       /\ u.hands[i].cardStartIndex = v.hands[i].cardStartIndex
       /\ u.hands[i].allowedActionMask \subseteq v.hands[i].allowedActionMask
  /\ u.handCount = v.handCount /\ u.activeHandIndex = v.activeHandIndex
  /\ u.dealerFinalValue = v.dealerFinalValue
  /\ u.insuranceStake \in Nat /\ u.payout \in Nat /\ u.insurancePayout \in Nat

LEMMA SameTable ==
  ASSUME NEW v, NEW u, isView(v), sameTable(v, u)
  PROVE  /\ isView(u) /\ staked(u) = staked(v) - v.insuranceStake + u.insuranceStake
         /\ \A w : dealt(v, w) => dealt(u, w)
<1>1. isView(u)
  BY DEF isView, sameTable
<1>2. staked(u) = staked(v) - v.insuranceStake + u.insuranceStake
  <2>1. /\ v.hands[1].wager \in Nat /\ v.hands[2].wager \in Nat /\ v.hands[3].wager \in Nat
        /\ v.hands[4].wager \in Nat /\ v.insuranceStake \in Nat
        /\ u.hands[1].wager = v.hands[1].wager /\ u.hands[2].wager = v.hands[2].wager
        /\ u.hands[3].wager = v.hands[3].wager /\ u.hands[4].wager = v.hands[4].wager
        /\ u.insuranceStake \in Nat
    BY DEF isView, sameTable, HandIds
  <2> QED
    BY <2>1 DEF staked
<1>3. ASSUME NEW w, dealt(v, w) PROVE dealt(u, w)
  <2>1. sizesOf(u) = sizesOf(v)
    BY DEF sizesOf, sameTable
  <2>2. ASSUME NEW i \in HandIds PROVE fairHand(u, i)
    <3>1. fairHand(v, i) /\ 4 \in HandIds
      BY <1>3 DEF dealt, HandIds
    <3> QED
      BY <3>1 DEF fairHand, sameTable
  <2>3. ASSUME NEW i \in HandIds, NEW cards
        PROVE  held(u, cards, i) = held(v, cards, i) /\ u.hands[i].value = v.hands[i].value
    BY DEF held, sameTable
  <2>4. scored(u, w)
    BY <1>3, <2>3 DEF dealt, scored, sameTable
  <2> QED
    BY <1>1, <1>3, <2>1, <2>2, <2>4 DEF dealt
<1> QED
  BY <1>1, <1>2, <1>3

\* payloads that could be accepted are gone when no proof is awaited
LEMMA NoneTimely ==
  ASSUME NEW ses, NEW v, NEW p, sound(p), timely(p, ses, v), v.phase \notin {3, 6},
         ses.proofSequence \in Nat, NEW ses2, NEW u, ses2.proofSequence = ses.proofSequence
  PROVE  timely(p, ses2, u)
<1>1. CASE p.phase = "initial-deal"
  BY <1>1 DEF timely
<1>2. CASE p.phase # "initial-deal"
  <2>1. /\ p.proof.inputs.proofSequence <= ses.proofSequence + 1
        /\ p.proof.inputs.proofSequence # ses.proofSequence + 1
    BY <1>2 DEF timely
  <2> QED
    BY <2>1 DEF timely
<1> QED
  BY <1>1, <1>2

\* a step of the player or the clock
LEMMA PlayerStep ==
  ASSUME ChainInv, StakesInv, NEW s \in Sessions, NEW ses, NEW seen,
         session' = [session EXCEPT ![s] = ses], view' = [view EXCEPT ![s] = seen],
         balance' = balance - (ses.totalBurned - session[s].totalBurned),
         UNCHANGED <<settled, payloads, accepted>>,
         view[s].phase \notin {3, 6, 7}, ses.proofSequence = session[s].proofSequence,
         sameTable(view[s], seen), funded(ses, seen)
  PROVE  StakesInv'
<1>1. session'[s] = ses /\ view'[s] = seen
  BY DEF ChainInv
<1>2. consistent(s) /\ isView(view[s])
  BY DEF StakesInv, consistent, funded
<1>3. session[s].proofSequence \in Nat
  <2>1. session[s].proofSequence = Len(accepted[s]) /\ accepted[s] \in Seq(payloads[s])
    BY DEF ChainInv, chained
  <2> QED
    BY <2>1, LenProperties
<1>4. \A p \in payloads[s] : sound(p) /\ timely(p, ses, seen)
  BY <1>2, <1>3, NoneTimely DEF consistent
<1>5. accepted[s] # <<>> => dealt(seen, table(s))
  BY <1>2, SameTable DEF consistent
<1>6. table(s)' = table(s)
  BY DEF table
<1>7. consistent(s)'
  BY <1>1, <1>4, <1>5, <1>6 DEF consistent
<1>8. /\ view[s].phase # 7 \/ seen = view[s]
      /\ settled' = settled
      /\ \A t \in Sessions : t # s =>
           /\ session'[t] = session[t] /\ view'[t] = view[t]
           /\ accepted'[t] = accepted[t] /\ payloads'[t] = payloads[t]
  BY DEF ChainInv
<1> QED
  BY <1>1, <1>7, <1>8, SessionStep

-----------------------------------------------------------------------------
(* Declaring, insuring and starting                                        *)

\* a step that burns nothing
LEMMA NothingBurned ==
  ASSUME StakesInv, NEW s \in Sessions, NEW ses,
         ses.totalBurned = session[s].totalBurned, UNCHANGED balance
  PROVE  balance' = balance - (ses.totalBurned - session[s].totalBurned)
<1>1. balance \in Int
  BY SumsOfMoney
<1>2. session[s].totalBurned \in Int
  BY BurnedNat DEF StakesInv, consistent
<1> QED
  BY <1>1, <1>2

LEMMA StartStakes ==
  ASSUME ChainInv, StakesInv, NEW s \in Sessions, startHand(s)
  PROVE  StakesInv'
<1> DEFINE ses == [NoSession EXCEPT !.wager = Wager, !.totalBurned = Wager,
                                    !.playerKeyCommitment = playerKey(s, s)]
           seen == [NoView EXCEPT !.phase = PHASE.AWAITING_INITIAL_DEAL, !.handCount = 1,
                                  !.hands[1].wager = Wager]
           hands == each(LAMBDA i : emptyHand)
<1>1. /\ session' = [session EXCEPT ![s] = ses] /\ view' = [view EXCEPT ![s] = seen]
      /\ balance' = balance - Wager /\ UNCHANGED <<settled, payloads, accepted>>
      /\ view[s].phase = 0
  BY Phases DEF startHand, opened, at
<1>2. Wager \in Nat
  BY BlackjackAssumption
<1>3. /\ SessionFields \subseteq DOMAIN ses /\ ses.wager = Wager /\ ses.totalBurned = Wager
      /\ ses.pendingAction = None /\ ses.pendingAdditionalBurn = 0 /\ ses.proofSequence = 0
  BY DEF NoSession, SessionFields
<1>4. hands = <<emptyHand, emptyHand, emptyHand, emptyHand>>
  BY DEF each
<1>5. /\ HandFields \subseteq DOMAIN emptyHand /\ emptyHand.wager = 0
      /\ HandFields \subseteq DOMAIN [emptyHand EXCEPT !.wager = Wager]
      /\ [emptyHand EXCEPT !.wager = Wager].wager = Wager
  BY DEF emptyHand, HandFields
<1>6. seen.hands = <<[emptyHand EXCEPT !.wager = Wager], emptyHand, emptyHand, emptyHand>>
  <2>1. NoView.hands = hands /\ "hands" \in DOMAIN NoView
    BY DEF NoView
  <2> HIDE DEF hands
  <2>2. seen.hands = [hands EXCEPT ![1].wager = Wager]
    BY <2>1 DEF NoView
  <2> HIDE DEF seen
  <2> QED
    BY <1>4, <2>2
<1>7. /\ ViewFields \subseteq DOMAIN seen /\ seen.phase = 1 /\ seen.activeHandIndex = 0
      /\ seen.insuranceStake = 0 /\ seen.payout = 0 /\ seen.insurancePayout = 0
  BY Phases DEF NoView, ViewFields
<1> HIDE DEF ses, seen, hands
<1>8. /\ seen.hands[1] = [emptyHand EXCEPT !.wager = Wager] /\ seen.hands[2] = emptyHand
      /\ seen.hands[3] = emptyHand /\ seen.hands[4] = emptyHand
      /\ DOMAIN seen.hands = HandIds
  BY <1>6 DEF HandIds
<1>9. isView(seen)
  <2>1. \A i \in HandIds : HandFields \subseteq DOMAIN seen.hands[i] /\ seen.hands[i].wager \in Nat
    <3> DEFINE h == emptyHand
               k == [emptyHand EXCEPT !.wager = Wager]
    <3>1. /\ HandFields \subseteq DOMAIN h /\ h.wager \in Nat
          /\ HandFields \subseteq DOMAIN k /\ k.wager \in Nat
      BY <1>2, <1>5
    <3>2. seen.hands[1] = k /\ seen.hands[2] = h /\ seen.hands[3] = h /\ seen.hands[4] = h
      BY <1>8
    <3> HIDE DEF h, k
    <3> QED
      BY <3>1, <3>2 DEF HandIds
  <2> QED
    BY <1>7, <1>8, <2>1 DEF isView
<1>10. staked(seen) = Wager
  BY <1>2, <1>5, <1>7, <1>8 DEF staked
<1>11. funded(ses, seen)
  <2>1. pendingFits(ses, seen)
    BY <1>3, NoneElse DEF pendingFits, PlayerActions
  <2> QED
    BY <1>2, <1>3, <1>7, <1>9, <1>10, <2>1 DEF funded
<1>12. /\ session[s].totalBurned = 0 /\ consistent(s)
  BY <1>1 DEF StakesInv, consistent, funded
<1>13. balance' = balance - (ses.totalBurned - session[s].totalBurned)
  BY <1>1, <1>2, <1>3, <1>12
<1>14. accepted[s] = <<>> /\ session[s].proofSequence = 0
  <2>1. accepted[s] = <<>> /\ session[s].proofSequence = Len(accepted[s])
    BY <1>1, Phases DEF ChainInv, chained
  <2> QED
    BY <2>1, EmptySeq
<1>15. \A p \in payloads[s] : sound(p) /\ timely(p, ses, seen)
  BY <1>1, <1>3, <1>12, <1>14, NoneTimely DEF consistent
<1>16. session'[s] = ses /\ view'[s] = seen
  BY <1>1 DEF ChainInv
<1>17. consistent(s)'
  BY <1>1, <1>11, <1>14, <1>15, <1>16 DEF consistent
<1>18. /\ view[s].phase # 7 \/ seen = view[s]
       /\ settled' = settled
       /\ \A t \in Sessions : t # s =>
            /\ session'[t] = session[t] /\ view'[t] = view[t]
            /\ accepted'[t] = accepted[t] /\ payloads'[t] = payloads[t]
  BY <1>1 DEF ChainInv
<1> QED
  BY <1>13, <1>16, <1>17, <1>18, SessionStep

LEMMA DeclareStakes ==
  ASSUME ChainInv, StakesInv, NEW s \in Sessions, NEW action \in PlayerActions,
         declareAction(s, action)
  PROVE  StakesInv'
<1> DEFINE paid == requiredAdditionalBurn(s, action)
           ses == [session[s] EXCEPT !.totalBurned = @ + paid, !.pendingAction = action,
                                     !.pendingAdditionalBurn = paid, !.deadline = "none"]
           seen == [view[s] EXCEPT !.phase = PHASE.AWAITING_COORDINATOR_ACTION]
           v == view[s]
           hand == activeHand(s)
<1>1. funded(session[s], v) /\ consistent(s) /\ isView(v) /\ SessionFields \subseteq DOMAIN session[s]
  BY DEF StakesInv, consistent, funded
<1>2. /\ v.phase = 5 /\ action \in hand.allowedActionMask
      /\ UNCHANGED <<settled, payloads, accepted>>
  BY Phases DEF declareAction, at
<1>3. dealt(v, table(s))
  BY <1>1, <1>2, Phases DEF ChainInv, chained, consistent
<1>4. /\ hand = v.hands[v.activeHandIndex + 1] /\ v.activeHandIndex + 1 \in HandIds
      /\ hand.wager \in Nat
  BY <1>1 DEF activeHand, isView, HandIds
<1>5. /\ hand.cardCount > 0
      /\ action = "SPLIT" => hand.cardCount = 2 /\ v.handCount < 4 /\ v.hands[4].cardCount = 0
  BY <1>2, <1>3, <1>4 DEF dealt, fairHand
<1>6. /\ paid \in Nat /\ (action \in {"HIT", "STAND"} => paid = 0)
      /\ (action \in {"DOUBLE", "SPLIT"} => paid = hand.wager)
  BY <1>2, <1>4, <1>5 DEF requiredAdditionalBurn
<1>7. session' = [session EXCEPT ![s] = ses]
  BY DEF declareAction, declared, ChainInv
<1>8. view' = [view EXCEPT ![s] = seen]
  BY DEF declareAction, ChainInv
<1>9. balance' = balance - paid
  BY DEF declareAction, burn
<1> HIDE DEF paid, hand
<1>10. /\ SessionFields \subseteq DOMAIN ses
       /\ ses.totalBurned = session[s].totalBurned + paid
       /\ ses.pendingAction = action /\ ses.pendingAdditionalBurn = paid
       /\ ses.wager = session[s].wager /\ ses.proofSequence = session[s].proofSequence
  BY <1>1 DEF SessionFields
<1>11. /\ ViewFields \subseteq DOMAIN seen /\ seen.phase = 6 /\ seen.hands = v.hands
       /\ seen.handCount = v.handCount /\ seen.activeHandIndex = v.activeHandIndex
       /\ seen.dealerFinalValue = v.dealerFinalValue
       /\ seen.insuranceStake = v.insuranceStake /\ seen.payout = v.payout
       /\ seen.insurancePayout = v.insurancePayout
  BY <1>1, Phases DEF isView, ViewFields
<1> HIDE DEF ses, seen
<1>12. sameTable(v, seen)
  BY <1>1, <1>11 DEF sameTable, isView
<1>13. staked(seen) = staked(v) /\ isView(seen)
  <2>1. isView(seen)
    BY <1>1, <1>12, SameTable
  <2>2. staked(seen) = staked(v)
    BY <1>11 DEF staked
  <2> QED
    BY <2>1, <2>2
<1>14. pendingFits(ses, seen)
  BY <1>4, <1>5, <1>6, <1>10, <1>11, NoneElse DEF pendingFits, PlayerActions
<1>15. session[s].totalBurned = staked(v) /\ session[s].wager = Wager
  <2>1. session[s].pendingAdditionalBurn = 0 /\ staked(v) \in Nat
    BY <1>1, <1>2, StakedNat DEF funded, pendingFits
  <2> QED
    BY <1>1, <1>2, <2>1 DEF funded
<1>16. funded(ses, seen)
  BY <1>6, <1>10, <1>11, <1>13, <1>14, <1>15 DEF funded
<1>17. balance' = balance - (ses.totalBurned - session[s].totalBurned)
  <2>1. session[s].totalBurned \in Nat /\ balance \in Int
    BY <1>1, BurnedNat, SumsOfMoney
  <2> QED
    BY <1>6, <1>9, <1>10, <2>1
<1>18. /\ view[s].phase \notin {3, 6, 7} /\ sameTable(view[s], seen)
       /\ ses.proofSequence = session[s].proofSequence
       /\ UNCHANGED <<settled, payloads, accepted>>
  BY <1>2, <1>10, <1>12
<1> HIDE DEF v
<1> QED
  BY <1>7, <1>8, <1>16, <1>17, <1>18, PlayerStep

LEMMA InsuredStakes ==
  ASSUME ChainInv, StakesInv, NEW s \in Sessions, NEW amount \in Nat, insurance(s, amount)
  PROVE  StakesInv'
<1> DEFINE ses == [session[s] EXCEPT !.totalBurned = @ + amount, !.deadline = "none"]
           seen == [view[s] EXCEPT !.insuranceStake = amount,
                                   !.insuranceStatus = INSURANCE.TAKEN,
                                   !.insuranceAvailable = FALSE,
                                   !.phase = PHASE.AWAITING_PEEK_RESOLUTION]
           v == view[s]
<1>1. funded(session[s], v) /\ isView(v) /\ SessionFields \subseteq DOMAIN session[s]
  BY DEF StakesInv, consistent, funded
<1>2. v.phase = 2 /\ UNCHANGED <<settled, payloads, accepted>>
  BY Phases DEF insurance, at
<1>3. session' = [session EXCEPT ![s] = ses]
  BY DEF insurance, ChainInv
<1>4. view' = [view EXCEPT ![s] = seen]
  BY DEF insurance, ChainInv
<1>5. balance' = balance - amount
  BY DEF insurance, burn
<1>6. /\ SessionFields \subseteq DOMAIN ses
      /\ ses.totalBurned = session[s].totalBurned + amount
      /\ ses.pendingAction = session[s].pendingAction
      /\ ses.pendingAdditionalBurn = session[s].pendingAdditionalBurn
      /\ ses.wager = session[s].wager /\ ses.proofSequence = session[s].proofSequence
  BY <1>1 DEF SessionFields
<1>7. /\ ViewFields \subseteq DOMAIN seen /\ seen.phase = 3 /\ seen.hands = v.hands
      /\ seen.handCount = v.handCount /\ seen.activeHandIndex = v.activeHandIndex
      /\ seen.dealerFinalValue = v.dealerFinalValue
      /\ seen.insuranceStake = amount /\ seen.payout = v.payout
      /\ seen.insurancePayout = v.insurancePayout
  BY <1>1, Phases DEF isView, ViewFields
<1> HIDE DEF ses, seen
<1>8. sameTable(v, seen)
  BY <1>1, <1>7 DEF sameTable, isView
<1>9. /\ session[s].pendingAction = None /\ session[s].pendingAdditionalBurn = 0
      /\ v.insuranceStake = 0 /\ staked(v) \in Nat /\ session[s].wager = Wager
      /\ session[s].totalBurned = staked(v)
  <2>1. /\ session[s].pendingAction = None /\ session[s].pendingAdditionalBurn = 0
        /\ v.insuranceStake = 0 /\ staked(v) \in Nat /\ session[s].wager = Wager
        /\ session[s].totalBurned = staked(v) + session[s].pendingAdditionalBurn
    BY <1>1, <1>2, StakedNat DEF funded, pendingFits
  <2> QED
    BY <2>1
<1>10. isView(seen) /\ staked(seen) = staked(v) + amount
  <2>1. isView(seen) /\ staked(seen) = staked(v) - v.insuranceStake + seen.insuranceStake
    BY <1>1, <1>8, SameTable
  <2> QED
    BY <1>7, <1>9, <2>1
<1>11. pendingFits(ses, seen)
  BY <1>6, <1>7, <1>9, NoneElse DEF pendingFits, PlayerActions
<1>12. funded(ses, seen)
  BY <1>6, <1>7, <1>9, <1>10, <1>11 DEF funded
<1>13. balance' = balance - (ses.totalBurned - session[s].totalBurned)
  <2>1. balance \in Int
    BY SumsOfMoney
  <2> QED
    BY <1>5, <1>6, <1>9, <2>1
<1>14. /\ view[s].phase \notin {3, 6, 7} /\ sameTable(view[s], seen)
       /\ ses.proofSequence = session[s].proofSequence
       /\ UNCHANGED <<settled, payloads, accepted>>
  BY <1>2, <1>6, <1>8
<1> HIDE DEF v
<1> QED
  BY <1>3, <1>4, <1>12, <1>13, <1>14, PlayerStep

-----------------------------------------------------------------------------
(* Surrender, the next hand and the clock                                  *)

\* a step of the player or the clock that burns nothing and moves no wager
LEMMA FreeStep ==
  ASSUME ChainInv, StakesInv, NEW s \in Sessions, NEW ses, NEW seen,
         session' = [session EXCEPT ![s] = ses], view' = [view EXCEPT ![s] = seen],
         UNCHANGED <<balance, settled, payloads, accepted>>,
         view[s].phase \in {2, 4, 5}, seen.phase \in {3, 5, 6, 7},
         SessionFields \subseteq DOMAIN ses,
         \A f \in {"wager", "totalBurned", "proofSequence", "pendingAdditionalBurn"} :
           ses[f] = session[s][f],
         \/ ses.pendingAction = session[s].pendingAction
         \/ ses.pendingAction = "STAND" /\ seen.phase = 6,
         sameTable(view[s], seen), seen.insuranceStake = view[s].insuranceStake
  PROVE  StakesInv'
<1> DEFINE old == session[s]
           v == view[s]
<1>1. funded(old, v) /\ isView(v)
  BY DEF StakesInv, consistent, funded
<1>2. /\ ses.wager = old.wager /\ ses.totalBurned = old.totalBurned
      /\ ses.proofSequence = old.proofSequence
      /\ ses.pendingAdditionalBurn = old.pendingAdditionalBurn
  OBVIOUS
<1>3. /\ old.pendingAction = None /\ old.pendingAdditionalBurn = 0 /\ old.wager = Wager
      /\ old.totalBurned = staked(v) + old.pendingAdditionalBurn
  BY <1>1 DEF funded, pendingFits
<1>4. isView(seen) /\ staked(seen) = staked(v)
  <2>1. isView(seen) /\ staked(seen) = staked(v) - v.insuranceStake + seen.insuranceStake
    BY <1>1, SameTable
  <2>2. v.insuranceStake \in Nat /\ staked(v) \in Nat
    BY <1>1, StakedNat DEF isView
  <2> QED
    BY <2>1, <2>2
<1>5. seen.phase \in 0..7 /\ seen.phase \notin {0, 1, 2}
  OBVIOUS
<1>6. pendingFits(ses, seen)
  BY <1>2, <1>3, NoneElse DEF pendingFits, PlayerActions
<1>7. funded(ses, seen)
  BY <1>2, <1>3, <1>4, <1>5, <1>6 DEF funded
<1>8. balance' = balance - (ses.totalBurned - session[s].totalBurned)
  BY <1>2, NothingBurned
<1>9. view[s].phase \notin {3, 6, 7} /\ ses.proofSequence = session[s].proofSequence
  BY <1>2
<1> QED
  BY <1>7, <1>8, <1>9, PlayerStep

LEMMA SurrenderStakes ==
  ASSUME ChainInv, StakesInv, NEW s \in Sessions, surrender(s)
  PROVE  StakesInv'
<1> DEFINE ses == [session[s] EXCEPT !.deadline = "none"]
           v == view[s]
           active == v.activeHandIndex + 1
           hands == [v.hands EXCEPT ![active] = forfeit(v.hands[active])]
           seen == surrendered(v)
<1>1. isView(v) /\ SessionFields \subseteq DOMAIN session[s]
  BY DEF StakesInv, consistent, funded
<1>2. /\ session' = [session EXCEPT ![s] = ses] /\ view' = [view EXCEPT ![s] = seen]
      /\ UNCHANGED <<balance, settled, payloads, accepted>> /\ v.phase \in {2, 4, 5}
  BY Phases DEF surrender, at, ChainInv
<1>3. /\ SessionFields \subseteq DOMAIN ses
      /\ \A f \in {"wager", "totalBurned", "proofSequence", "pendingAdditionalBurn"} :
           ses[f] = session[s][f]
      /\ ses.pendingAction = session[s].pendingAction
  BY <1>1 DEF SessionFields
<1>4. active \in HandIds /\ v.hands[active].wager \in Nat /\ DOMAIN v.hands = HandIds
  BY <1>1 DEF isView, HandIds
<1>5. /\ ViewFields \subseteq DOMAIN seen /\ seen.phase = 7 /\ seen.hands = hands
      /\ seen.handCount = v.handCount /\ seen.activeHandIndex = v.activeHandIndex
      /\ seen.dealerFinalValue = v.dealerFinalValue
      /\ seen.insuranceStake = v.insuranceStake
      /\ seen.payout = v.hands[active].wager \div 2 + v.insurancePayout
      /\ seen.insurancePayout = v.insurancePayout
  BY <1>1, Phases DEF surrendered, isView, ViewFields
<1>6. seen.payout \in Nat
  BY <1>1, <1>4, <1>5 DEF isView
<1>7. ASSUME NEW i \in HandIds
      PROVE  /\ HandFields \subseteq DOMAIN hands[i]
             /\ hands[i].wager = v.hands[i].wager /\ hands[i].value = v.hands[i].value
             /\ hands[i].cardCount = v.hands[i].cardCount
             /\ hands[i].cardStartIndex = v.hands[i].cardStartIndex
             /\ hands[i].allowedActionMask \subseteq v.hands[i].allowedActionMask
  <2>1. HandFields \subseteq DOMAIN v.hands[i]
    BY <1>1 DEF isView
  <2>2. CASE i = active
    <3> DEFINE h == v.hands[i]
    <3>1. hands[i] = forfeit(h)
      BY <1>4, <2>2
    <3>2. /\ HandFields \subseteq DOMAIN forfeit(h) /\ forfeit(h).wager = h.wager
          /\ forfeit(h).value = h.value /\ forfeit(h).cardCount = h.cardCount
          /\ forfeit(h).cardStartIndex = h.cardStartIndex
          /\ forfeit(h).allowedActionMask = {}
      BY <2>1 DEF forfeit, HandFields
    <3> QED
      BY <3>1, <3>2
  <2>3. CASE i # active
    BY <1>4, <2>1, <2>3
  <2> QED
    BY <2>2, <2>3
<1>8. DOMAIN hands = HandIds
  BY <1>4
<1> HIDE DEF ses, seen, hands
<1>9. sameTable(v, seen)
  BY <1>1, <1>5, <1>6, <1>7, <1>8 DEF sameTable, isView
<1>10. /\ view[s].phase \in {2, 4, 5} /\ seen.phase \in {3, 5, 6, 7}
       /\ sameTable(view[s], seen) /\ seen.insuranceStake = view[s].insuranceStake
  BY <1>2, <1>5, <1>9
<1> HIDE DEF v
<1> QED
  BY <1>2, <1>3, <1>10, FreeStep

\* a public state with other flags and phase
LEMMA OtherPhase ==
  ASSUME NEW v, isView(v), NEW u, ViewFields \subseteq DOMAIN u, u.hands = v.hands,
         u.handCount = v.handCount, u.activeHandIndex = v.activeHandIndex,
         u.dealerFinalValue = v.dealerFinalValue, u.insuranceStake = v.insuranceStake,
         u.payout = v.payout, u.insurancePayout = v.insurancePayout
  PROVE  sameTable(v, u)
  BY DEF sameTable, isView

LEMMA AdvanceStakes ==
  ASSUME ChainInv, StakesInv, NEW s \in Sessions, advanceDecisionWindow(s),
         UNCHANGED <<balance, settled, payloads, accepted>>
  PROVE  StakesInv'
<1> DEFINE closed(deadline) == [session[s] EXCEPT !.deadline = deadline]
<1>1. isView(view[s]) /\ SessionFields \subseteq DOMAIN session[s]
  BY DEF StakesInv, consistent, funded
<1>2. ASSUME NEW deadline
      PROVE  /\ SessionFields \subseteq DOMAIN closed(deadline)
             /\ \A f \in {"wager", "totalBurned", "proofSequence", "pendingAdditionalBurn"} :
                  closed(deadline)[f] = session[s][f]
             /\ closed(deadline).pendingAction = session[s].pendingAction
  BY <1>1 DEF SessionFields
<1>3. ASSUME NEW seen, NEW deadline, session' = [session EXCEPT ![s] = closed(deadline)],
             view' = [view EXCEPT ![s] = seen], view[s].phase \in {2, 4, 5},
             seen.phase \in {3, 5, 6, 7},
             ViewFields \subseteq DOMAIN seen, seen.hands = view[s].hands,
             seen.handCount = view[s].handCount,
             seen.activeHandIndex = view[s].activeHandIndex,
             seen.dealerFinalValue = view[s].dealerFinalValue,
             seen.insuranceStake = view[s].insuranceStake,
             seen.payout = view[s].payout, seen.insurancePayout = view[s].insurancePayout
      PROVE  StakesInv'
  <2> DEFINE ses == closed(deadline)
  <2>1. sameTable(view[s], seen)
    BY <1>1, <1>3, OtherPhase
  <2>2. /\ SessionFields \subseteq DOMAIN ses
        /\ \A f \in {"wager", "totalBurned", "proofSequence", "pendingAdditionalBurn"} :
             ses[f] = session[s][f]
        /\ ses.pendingAction = session[s].pendingAction
        /\ session' = [session EXCEPT ![s] = ses]
    BY <1>2, <1>3
  <2> HIDE DEF ses, closed
  <2> QED
    BY <1>3, <2>1, <2>2, FreeStep
<1>4. CASE /\ at(s, PHASE.AWAITING_PREPLAY_DECISION)
           /\ view' = [view EXCEPT ![s].insuranceStatus = declined(@, INSURANCE),
                                   ![s].insuranceAvailable = FALSE,
                                   ![s].phase = PHASE.AWAITING_PEEK_RESOLUTION]
           /\ session' = [session EXCEPT ![s].deadline = "none"]
  <2> DEFINE seen == [view[s] EXCEPT !.insuranceStatus = declined(@, INSURANCE),
                                     !.insuranceAvailable = FALSE,
                                     !.phase = PHASE.AWAITING_PEEK_RESOLUTION]
  <2>1. /\ session' = [session EXCEPT ![s] = closed("none")]
        /\ view' = [view EXCEPT ![s] = seen] /\ view[s].phase = 2
    BY <1>4, Phases DEF ChainInv, at
  <2>2. /\ ViewFields \subseteq DOMAIN seen /\ seen.phase = 3 /\ seen.hands = view[s].hands
        /\ seen.handCount = view[s].handCount
        /\ seen.activeHandIndex = view[s].activeHandIndex
        /\ seen.dealerFinalValue = view[s].dealerFinalValue
        /\ seen.insuranceStake = view[s].insuranceStake
        /\ seen.payout = view[s].payout /\ seen.insurancePayout = view[s].insurancePayout
    BY <1>1, Phases DEF isView, ViewFields
  <2> HIDE DEF seen, closed
  <2> QED
    BY <1>3, <2>1, <2>2
<1>5. CASE /\ at(s, PHASE.AWAITING_PREPLAY_DECISION)
           /\ view' = [view EXCEPT ![s].surrenderStatus = declined(@, SURRENDER),
                                   ![s].surrenderAvailable = FALSE,
                                   ![s].phase = PHASE.AWAITING_PEEK_RESOLUTION]
           /\ session' = [session EXCEPT ![s].deadline = "none"]
  <2> DEFINE seen == [view[s] EXCEPT !.surrenderStatus = declined(@, SURRENDER),
                                     !.surrenderAvailable = FALSE,
                                     !.phase = PHASE.AWAITING_PEEK_RESOLUTION]
  <2>1. /\ session' = [session EXCEPT ![s] = closed("none")]
        /\ view' = [view EXCEPT ![s] = seen] /\ view[s].phase = 2
    BY <1>5, Phases DEF ChainInv, at
  <2>2. /\ ViewFields \subseteq DOMAIN seen /\ seen.phase = 3 /\ seen.hands = view[s].hands
        /\ seen.handCount = view[s].handCount
        /\ seen.activeHandIndex = view[s].activeHandIndex
        /\ seen.dealerFinalValue = view[s].dealerFinalValue
        /\ seen.insuranceStake = view[s].insuranceStake
        /\ seen.payout = view[s].payout /\ seen.insurancePayout = view[s].insurancePayout
    BY <1>1, Phases DEF isView, ViewFields
  <2> HIDE DEF seen, closed
  <2> QED
    BY <1>3, <2>1, <2>2
<1>6. CASE /\ at(s, PHASE.AWAITING_POSTPEEK_DECISION)
           /\ view' = [view EXCEPT ![s].surrenderStatus = declined(@, SURRENDER),
                                   ![s].surrenderAvailable = FALSE,
                                   ![s].decisionType = DECISION.NONE,
                                   ![s].phase = PHASE.AWAITING_PLAYER_ACTION]
           /\ session' = [session EXCEPT ![s].deadline = "open"]
  <2> DEFINE seen == [view[s] EXCEPT !.surrenderStatus = declined(@, SURRENDER),
                                     !.surrenderAvailable = FALSE,
                                     !.decisionType = DECISION.NONE,
                                     !.phase = PHASE.AWAITING_PLAYER_ACTION]
  <2>1. /\ session' = [session EXCEPT ![s] = closed("open")]
        /\ view' = [view EXCEPT ![s] = seen] /\ view[s].phase = 4
    BY <1>6, Phases DEF ChainInv, at
  <2>2. /\ ViewFields \subseteq DOMAIN seen /\ seen.phase = 5 /\ seen.hands = view[s].hands
        /\ seen.handCount = view[s].handCount
        /\ seen.activeHandIndex = view[s].activeHandIndex
        /\ seen.dealerFinalValue = view[s].dealerFinalValue
        /\ seen.insuranceStake = view[s].insuranceStake
        /\ seen.payout = view[s].payout /\ seen.insurancePayout = view[s].insurancePayout
    BY <1>1, Phases DEF isView, ViewFields
  <2> HIDE DEF seen, closed
  <2> QED
    BY <1>3, <2>1, <2>2
<1> QED
  BY <1>4, <1>5, <1>6, Zenon DEF advanceDecisionWindow

LEMMA TimeoutStakes ==
  ASSUME ChainInv, StakesInv, NEW s \in Sessions, claimPlayerTimeout(s)
  PROVE  StakesInv'
<1>1. UNCHANGED <<balance, settled, payloads, accepted>>
  BY DEF claimPlayerTimeout
<1>2. CASE at(s, PHASE.AWAITING_PLAYER_ACTION)
  <2> DEFINE ses == [session[s] EXCEPT !.pendingAction = "STAND",
                                       !.pendingAdditionalBurn = 0, !.deadline = "none"]
             seen == [view[s] EXCEPT !.phase = PHASE.AWAITING_COORDINATOR_ACTION]
  <2>1. /\ session' = [session EXCEPT ![s] = ses] /\ view' = [view EXCEPT ![s] = seen]
        /\ view[s].phase = 5
    BY <1>2, Phases DEF claimPlayerTimeout, ChainInv, at
  <2>2. /\ funded(session[s], view[s]) /\ isView(view[s])
        /\ SessionFields \subseteq DOMAIN session[s]
        /\ session[s].pendingAdditionalBurn = 0
    BY <2>1 DEF StakesInv, consistent, funded, pendingFits
  <2>3. /\ SessionFields \subseteq DOMAIN ses
        /\ \A f \in {"wager", "totalBurned", "proofSequence", "pendingAdditionalBurn"} :
             ses[f] = session[s][f]
        /\ ses.pendingAction = "STAND"
    BY <2>2 DEF SessionFields
  <2>4. /\ ViewFields \subseteq DOMAIN seen /\ seen.phase = 6 /\ seen.hands = view[s].hands
        /\ seen.handCount = view[s].handCount
        /\ seen.activeHandIndex = view[s].activeHandIndex
        /\ seen.dealerFinalValue = view[s].dealerFinalValue
        /\ seen.insuranceStake = view[s].insuranceStake
        /\ seen.payout = view[s].payout /\ seen.insurancePayout = view[s].insurancePayout
    BY <2>2, Phases DEF isView, ViewFields
  <2> HIDE DEF ses, seen
  <2>5. sameTable(view[s], seen)
    BY <2>2, <2>4, OtherPhase
  <2> QED
    BY <1>1, <2>1, <2>3, <2>4, <2>5, FreeStep
<1>3. CASE ~at(s, PHASE.AWAITING_PLAYER_ACTION)
  BY <1>1, <1>3, AdvanceStakes DEF claimPlayerTimeout
<1> QED
  BY <1>2, <1>3

LEMMA TickStakes ==
  ASSUME ChainInv, StakesInv, NEW s \in Sessions, Tick(s)
  PROVE  StakesInv'
<1> DEFINE ses == [session[s] EXCEPT !.deadline = "passed"]
           seen == view[s]
<1>1. /\ session' = [session EXCEPT ![s] = ses]
      /\ UNCHANGED <<view, balance, settled, payloads, accepted>>
  BY DEF Tick, ChainInv
<1>2. consistent(s) /\ funded(session[s], seen) /\ SessionFields \subseteq DOMAIN session[s]
  BY DEF StakesInv, consistent, funded
<1>3. /\ SessionFields \subseteq DOMAIN ses /\ ses.wager = session[s].wager
      /\ ses.totalBurned = session[s].totalBurned
      /\ ses.proofSequence = session[s].proofSequence
      /\ ses.pendingAction = session[s].pendingAction
      /\ ses.pendingAdditionalBurn = session[s].pendingAdditionalBurn
  BY <1>2 DEF SessionFields
<1> HIDE DEF ses
<1>4. funded(ses, seen)
  BY <1>2, <1>3 DEF funded, pendingFits
<1>5. \A p \in payloads[s] : sound(p) /\ timely(p, ses, seen)
  BY <1>2, <1>3 DEF consistent, timely
<1>6. session'[s] = ses
  BY <1>1 DEF ChainInv
<1>7. consistent(s)'
  BY <1>1, <1>2, <1>4, <1>5, <1>6 DEF consistent, table
<1>8. balance' = balance - (ses.totalBurned - session[s].totalBurned)
  BY <1>1, <1>3, NothingBurned
<1>9. /\ settled' = settled /\ view'[s] = seen
      /\ \A t \in Sessions : t # s =>
           /\ session'[t] = session[t] /\ view'[t] = view[t]
           /\ accepted'[t] = accepted[t] /\ payloads'[t] = payloads[t]
  BY <1>1 DEF ChainInv
<1> QED
  BY <1>6, <1>7, <1>8, <1>9, SessionStep

-----------------------------------------------------------------------------
(* Accepted proofs, and the theorems                                       *)

\* An accepted payload takes the place of the public state and of the table.
LEMMA AcceptedStakes ==
  ASSUME ChainInv, StakesInv, NEW s \in Sessions, NEW p \in payloads[s], NEW ses,
         applyPublicState(s, p, ses), view[s].phase # 7,
         SessionFields \subseteq DOMAIN ses, ses.proofSequence = session[s].proofSequence + 1,
         ses.wager = session[s].wager, ses.totalBurned = session[s].totalBurned,
         funded(ses, p.publicState)
  PROVE  StakesInv'
<1>1. /\ session'[s] = ses /\ view'[s] = p.publicState
      /\ accepted'[s] = Append(accepted[s], p) /\ UNCHANGED <<balance, settled, payloads>>
      /\ \A t \in Sessions : t # s =>
           /\ session'[t] = session[t] /\ view'[t] = view[t]
           /\ accepted'[t] = accepted[t] /\ payloads'[t] = payloads[t]
  BY DEF ChainInv, applyPublicState
<1>2. /\ accepted[s] \in Seq(payloads[s]) /\ session[s].proofSequence = Len(accepted[s])
      /\ consistent(s)
  BY DEF ChainInv, chained, StakesInv
<1>3. session[s].proofSequence \in Nat
  BY <1>2, LenProperties
<1>4. Last(accepted'[s]) = p
  <2> DEFINE S == payloads[s]
             old == accepted[s]
  <2>1. old \in Seq(S) /\ p \in S
    BY <1>2
  <2> HIDE DEF S, old
  <2>2. Last(Append(old, p)) = p
    BY <2>1, AppendProperties, LenProperties DEF Last
  <2> QED
    BY <1>1, <2>2 DEF old
<1>5. ASSUME NEW q \in payloads[s] PROVE sound(q) /\ timely(q, ses, p.publicState)
  <2>1. sound(q) /\ timely(q, session[s], view[s])
    BY <1>2 DEF consistent
  <2> QED
    BY <1>3, <2>1 DEF timely, sound
<1>6. table(s)' = p.witness
  BY <1>4 DEF table
<1>7. dealt(p.publicState, p.witness)
  BY <1>5 DEF sound
<1>8. consistent(s)'
  BY <1>1, <1>5, <1>6, <1>7 DEF consistent
<1>9. balance' = balance - (ses.totalBurned - session[s].totalBurned)
  BY <1>1, NothingBurned
<1>10. settled' = settled
  BY <1>1
<1> QED
  BY <1>1, <1>8, <1>9, <1>10, SessionStep

LEMMA CommittedMoney ==
  ASSUME NEW ses, NEW p, SessionFields \subseteq DOMAIN ses
  PROVE  LET c == committed(ses, p) IN
         /\ SessionFields \subseteq DOMAIN c /\ c.proofSequence = ses.proofSequence
         /\ c.wager = ses.wager /\ c.totalBurned = ses.totalBurned
         /\ c.pendingAction = ses.pendingAction
         /\ c.pendingAdditionalBurn = ses.pendingAdditionalBurn
  BY DEF committed, SessionFields

\* what the engine checks of a later proof makes it of the stakes
LEMMA LaterProof ==
  ASSUME ChainInv, StakesInv, NEW s \in Sessions, NEW p \in payloads[s],
         NEW kind \in {"peek", "action", "showdown"}, NEW inputs,
         verifies(p, kind, inputs), inputs.proofSequence = session[s].proofSequence + 1,
         view[s].phase \in {3, 6}, NEW ses, SessionFields \subseteq DOMAIN ses,
         applyPublicState(s, p, ses), ses.proofSequence = session[s].proofSequence + 1,
         ses.wager = session[s].wager, ses.totalBurned = session[s].totalBurned,
         ses.pendingAction = None, ses.pendingAdditionalBurn = 0
  PROVE  StakesInv'
<1>1. /\ sound(p) /\ timely(p, session[s], view[s]) /\ funded(session[s], view[s])
  BY DEF StakesInv, consistent
<1>2. p.proof.inputs = inputs /\ p.proof.circuit = blackjackCircuitForPhase[kind]
  BY DEF verifies
<1>3. p.phase = kind /\ kind # "initial-deal"
  <2>1. kind \in Kinds /\ p.phase \in Kinds /\ p.proof.circuit = blackjackCircuitForPhase[p.phase]
    BY <1>1 DEF Kinds, sound
  <2> QED
    BY <1>2, <2>1, CircuitsDiffer
<1>4. /\ staked(p.publicState) = session[s].totalBurned
      /\ p.publicState.phase \in {4, 5, 6, 7} /\ dealt(p.publicState, p.witness)
  BY <1>1, <1>2, <1>3 DEF timely, sound
<1> DEFINE u == p.publicState
<1>5. isView(u) /\ staked(u) \in Nat
  BY <1>4, StakedNat DEF dealt
<1>6. pendingFits(ses, u)
  BY NoneElse DEF pendingFits, PlayerActions
<1>7. ses.wager = Wager
  BY <1>1 DEF funded
<1>8. funded(ses, u)
  <2>1. u.phase \in 0..7 /\ u.phase \notin {0, 1, 2} /\ staked(u) = ses.totalBurned
    BY <1>4
  <2> HIDE DEF u
  <2> QED
    BY <1>5, <1>6, <1>7, <2>1 DEF funded
<1>9. view[s].phase # 7
  OBVIOUS
<1> QED
  BY <1>8, <1>9, AcceptedStakes

LEMMA SubmitStakes ==
  ASSUME ChainInv, StakesInv, NEW s \in Sessions, submitProof(s)
  PROVE  StakesInv'
<1>1. PICK p \in payloads[s] :
        \/ submitInitialDealProof(s, p) \/ submitPeekProof(s, p)
        \/ submitActionProof(s, p) \/ submitShowdownProof(s, p)
  BY DEF submitProof
<1> DEFINE c == committed(session[s], p)
           next == [c EXCEPT !.proofSequence = @ + 1]
<1>2. /\ sound(p) /\ funded(session[s], view[s])
      /\ SessionFields \subseteq DOMAIN session[s]
  BY DEF StakesInv, consistent, funded
<1>3. /\ SessionFields \subseteq DOMAIN c /\ c.proofSequence = session[s].proofSequence
      /\ c.wager = session[s].wager /\ c.totalBurned = session[s].totalBurned
      /\ c.pendingAction = session[s].pendingAction
      /\ c.pendingAdditionalBurn = session[s].pendingAdditionalBurn
  BY <1>2, CommittedMoney
<1> HIDE DEF c
<1>4. /\ SessionFields \subseteq DOMAIN next
      /\ next.proofSequence = session[s].proofSequence + 1
      /\ next.wager = session[s].wager /\ next.totalBurned = session[s].totalBurned
      /\ next.pendingAction = session[s].pendingAction
      /\ next.pendingAdditionalBurn = session[s].pendingAdditionalBurn
  BY <1>3 DEF SessionFields
<1> DEFINE done == acted(next)
<1>5. next = [committed(session[s], p) EXCEPT !.proofSequence = @ + 1]
  BY DEF c
<1> HIDE DEF next
<1>6. /\ SessionFields \subseteq DOMAIN done
      /\ done.proofSequence = session[s].proofSequence + 1
      /\ done.wager = session[s].wager /\ done.totalBurned = session[s].totalBurned
      /\ done.pendingAction = None /\ done.pendingAdditionalBurn = 0
  BY <1>4 DEF acted, SessionFields
<1> HIDE DEF done
<1>7. CASE submitInitialDealProof(s, p)
  <2> DEFINE first == [c EXCEPT !.proofSequence = 1, !.deckCommitment = p.deckCommitment]
             u == p.publicState
  <2>1. /\ applyPublicState(s, p, first) /\ view[s].phase = 1
        /\ p.proof.circuit = blackjackCircuitForPhase["initial-deal"]
    BY <1>7, Phases DEF submitInitialDealProof, at, c, verifies
  <2>2. /\ SessionFields \subseteq DOMAIN first /\ first.proofSequence = 1
        /\ first.wager = session[s].wager /\ first.totalBurned = session[s].totalBurned
        /\ first.pendingAction = session[s].pendingAction
        /\ first.pendingAdditionalBurn = session[s].pendingAdditionalBurn
    BY <1>3 DEF SessionFields
  <2> HIDE DEF first
  <2>3. p.phase = "initial-deal"
    <3>1. "initial-deal" \in Kinds /\ p.phase \in Kinds
          /\ p.proof.circuit = blackjackCircuitForPhase[p.phase]
      BY <1>2 DEF Kinds, sound
    <3> QED
      BY <2>1, <3>1, CircuitsDiffer
  <2>4. /\ u.phase \in {2, 5} /\ u.insuranceStake = 0 /\ staked(u) = Wager
        /\ dealt(u, p.witness) /\ isView(u)
    BY <1>2, <2>3 DEF sound, dealt
  <2> HIDE DEF u
  <2>5. /\ session[s].pendingAction = None /\ session[s].pendingAdditionalBurn = 0
        /\ session[s].totalBurned = Wager /\ session[s].wager = Wager
    BY <1>2, <2>1 DEF funded, pendingFits
  <2>6. pendingFits(first, u)
    BY <2>2, <2>5, NoneElse DEF pendingFits, PlayerActions
  <2>7. funded(first, u)
    <3>1. Wager \in Nat /\ u.phase \in 0..7 /\ u.phase \notin {0, 1}
      BY <2>4, BlackjackAssumption
    <3> QED
      BY <2>2, <2>4, <2>5, <2>6, <3>1 DEF funded
  <2>8. first.proofSequence = session[s].proofSequence + 1
    <3>1. accepted[s] = <<>> /\ session[s].proofSequence = Len(accepted[s])
      BY <2>1, Phases DEF ChainInv, chained
    <3> QED
      BY <2>2, <3>1, EmptySeq
  <2>9. view[s].phase # 7
    BY <2>1
  <2> QED
    BY <2>1, <2>2, <2>7, <2>8, <2>9, AcceptedStakes DEF u
<1>8. CASE submitPeekProof(s, p)
  <2>1. /\ applyPublicState(s, p, next) /\ view[s].phase = 3
        /\ verifies(p, "peek", buildPeekInputs(s, p))
    BY <1>5, <1>8, Phases DEF submitPeekProof, at
  <2>2. next.pendingAction = None /\ next.pendingAdditionalBurn = 0
    BY <1>2, <1>4, <2>1 DEF funded, pendingFits
  <2>3. buildPeekInputs(s, p).proofSequence = session[s].proofSequence + 1
    BY LaterInputs
  <2>4. view[s].phase \in {3, 6} /\ "peek" \in {"peek", "action", "showdown"}
    BY <2>1
  <2> QED
    BY <1>4, <2>1, <2>2, <2>3, <2>4, LaterProof
<1>9. CASE submitActionProof(s, p)
  <2>1. /\ applyPublicState(s, p, done) /\ view[s].phase = 6
        /\ verifies(p, "action", buildActionInputs(s, p))
    BY <1>5, <1>9, Phases DEF submitActionProof, at, done
  <2>2. buildActionInputs(s, p).proofSequence = session[s].proofSequence + 1
    BY LaterInputs
  <2>3. view[s].phase \in {3, 6} /\ "action" \in {"peek", "action", "showdown"}
    BY <2>1
  <2> QED
    BY <1>6, <2>1, <2>2, <2>3, LaterProof
<1>10. CASE submitShowdownProof(s, p)
  <2>1. /\ applyPublicState(s, p, done) /\ view[s].phase = 6
        /\ verifies(p, "showdown", buildPeekInputs(s, p))
    BY <1>5, <1>10, Phases DEF submitShowdownProof, buildShowdownInputs, at, done
  <2>2. buildPeekInputs(s, p).proofSequence = session[s].proofSequence + 1
    BY LaterInputs
  <2>3. view[s].phase \in {3, 6} /\ "showdown" \in {"peek", "action", "showdown"}
    BY <2>1
  <2> QED
    BY <1>6, <2>1, <2>2, <2>3, LaterProof
<1> QED
  BY <1>1, <1>7, <1>8, <1>9, <1>10

-----------------------------------------------------------------------------
LEMMA InitStakes == Init => StakesInv
<1> SUFFICES ASSUME Init PROVE StakesInv
  OBVIOUS
<1>1. IsFiniteSet(Sessions) /\ InitialBalance \in Nat
  BY BlackjackAssumption
<1> DEFINE hands == each(LAMBDA i : emptyHand)
<1>2. /\ SessionFields \subseteq DOMAIN NoSession /\ NoSession.totalBurned = 0
      /\ NoSession.pendingAction = None /\ NoSession.pendingAdditionalBurn = 0
  BY DEF NoSession, SessionFields
<1>3. hands = <<emptyHand, emptyHand, emptyHand, emptyHand>>
  BY DEF each
<1>4. HandFields \subseteq DOMAIN emptyHand /\ emptyHand.wager = 0
  BY DEF emptyHand, HandFields
<1>5. /\ ViewFields \subseteq DOMAIN NoView /\ NoView.phase = 0 /\ NoView.activeHandIndex = 0
      /\ NoView.insuranceStake = 0 /\ NoView.payout = 0 /\ NoView.insurancePayout = 0
      /\ NoView.hands = hands
  BY Phases DEF NoView, ViewFields
<1> HIDE DEF hands
<1>6. /\ DOMAIN hands = HandIds /\ hands[1] = emptyHand /\ hands[2] = emptyHand
      /\ hands[3] = emptyHand /\ hands[4] = emptyHand
  BY <1>3 DEF HandIds
<1>7. isView(NoView) /\ staked(NoView) = 0
  <2>1. \A i \in HandIds : hands[i] = emptyHand
    BY <1>6 DEF HandIds
  <2>2. isView(NoView)
    BY <1>4, <1>5, <1>6, <2>1 DEF isView
  <2> QED
    BY <1>4, <1>5, <1>6, <2>2 DEF staked
<1>8. funded(NoSession, NoView)
  <2>1. pendingFits(NoSession, NoView)
    BY <1>2, NoneElse DEF pendingFits, PlayerActions
  <2> QED
    BY <1>2, <1>5, <1>7, <2>1 DEF funded
<1>9. ASSUME NEW s \in Sessions PROVE consistent(s)
  <2>1. session[s] = NoSession /\ view[s] = NoView /\ accepted[s] = <<>> /\ payloads[s] = {}
    BY DEF Init
  <2> QED
    BY <1>8, <2>1 DEF consistent
<1>10. SumFunction(burned) = 0 /\ SumFunction(payouts) = 0
  <2>1. burned = [s \in Sessions |-> 0]
    BY <1>2 DEF Init, burned
  <2>2. payouts = [s \in {} |-> view[s].payout]
    BY DEF Init, payouts
  <2>3. SumFunction(burned) = 0
    BY <1>1, <2>1, SumOfZeros
  <2>4. SumFunction(payouts) = 0
    <3>1. DOMAIN payouts = {}
      BY <2>2
    <3> QED
      BY <3>1, SumOfNothing DEF SumFunction
  <2> QED
    BY <2>3, <2>4
<1>11. Money
  BY <1>1, <1>10 DEF Init, Money
<1> QED
  BY <1>9, <1>11 DEF StakesInv

LEMMA NextStakes == ChainInv /\ StakesInv /\ [Next]_vars => StakesInv'
<1> SUFFICES ASSUME ChainInv, StakesInv, [Next]_vars PROVE StakesInv'
  OBVIOUS
<1>1. CASE UNCHANGED vars
  BY <1>1 DEF vars, StakesInv, Money, burned, payouts, consistent, table
<1>2. ASSUME NEW s \in Sessions, Play(s) PROVE StakesInv'
  <2>1. CASE startHand(s)
    BY <2>1, StartStakes
  <2>2. CASE \E action \in PlayerActions : declareAction(s, action)
    BY <2>2, DeclareStakes
  <2>3. CASE \E amount \in InsuranceStakes : insurance(s, amount)
    BY <2>3, InsuredStakes, BlackjackAssumption
  <2>4. CASE surrender(s)
    BY <2>4, SurrenderStakes
  <2>5. CASE continuePlay(s)
    BY <2>5, AdvanceStakes DEF continuePlay
  <2> QED
    BY <1>2, <2>1, <2>2, <2>3, <2>4, <2>5 DEF Play
<1>3. ASSUME NEW s \in Sessions, Coordinate(s) PROVE StakesInv'
  <2>1. CASE ProveInitialDeal(s) \/ ProvePeek(s) \/ ProveAction(s) \/ ProveShowdown(s)
    <3>1. consistent(s)
      BY DEF StakesInv
    <3> QED
      BY <2>1, <3>1, CoordinatorMakes, MadeStep
  <2>2. CASE submitProof(s)
    BY <2>2, SubmitStakes
  <2> QED
    BY <1>3, <2>1, <2>2 DEF Coordinate
<1>4. ASSUME NEW s \in Sessions, Tick(s) PROVE StakesInv'
  BY <1>4, TickStakes
<1>5. ASSUME NEW s \in Sessions, claimPlayerTimeout(s) PROVE StakesInv'
  BY <1>5, TimeoutStakes
<1>6. ASSUME NEW s \in Sessions, settle(s) PROVE StakesInv'
  BY <1>6, SettleStep
<1> QED
  BY <1>1, <1>2, <1>3, <1>4, <1>5, <1>6 DEF Next

LEMMA AlwaysStakes == Spec => [](ChainInv /\ StakesInv)
<1>1. Init => ChainInv /\ StakesInv
  BY InitChain, InitStakes
<1>2. ChainInv /\ StakesInv /\ [Next]_vars => (ChainInv /\ StakesInv)'
  BY NextChain, NextStakes
<1> QED
  BY <1>1, <1>2, PTL DEF Spec

\* What a session burned is the wagers of its hands, the insurance and what an
\* undecided double or split adds, and the balance moved by that and by the
\* payouts settled alone: the stakes that a proof restates, made of the
\* coordinator's own record, are those the controller burned for
\* (BlackjackController.sol, BlackjackEngine.sol).
THEOREM StakesAlwaysExplained == Spec => []StakesExplained
<1>1. ASSUME StakesInv, NEW s \in Sessions
      PROVE  session[s].totalBurned =
               SumFunction(wagers(s)) + view[s].insuranceStake + session[s].pendingAdditionalBurn
  <2>1. funded(session[s], view[s])
    BY <1>1 DEF StakesInv, consistent
  <2> QED
    BY <2>1, Wagers DEF funded
<1>2. StakesInv => StakesExplained
  BY <1>1 DEF StakesInv, Money, burned, payouts, StakesExplained
<1> QED
  BY <1>2, AlwaysStakes, PTL

\* The values that an accepted proof reports are the best totals of the cards
\* dealt, for any cards and however hands were split, unless a 52 was taken for
\* the empty card: counting every ace as eleven and taking tens back while the
\* total is over 21 finds them (scoreHand, blackjack-proof.mjs).
THEOREM HandsAlwaysScored == Spec => []HandsScored
<1>1. StakesInv => HandsScored
  BY DEF StakesInv, consistent, dealt, HandsScored
<1> QED
  BY <1>1, AlwaysStakes, PTL
=============================================================================
