----------------------------- MODULE MatchProofs -----------------------------
(***************************************************************************)
(* Proofs about competitive matches.  First the match of SingleDraw2To7,   *)
(* for every stack, blinds, length of match, hand size, masks and scores:  *)
(* chips are conserved, the turn and the clock agree with the phase, a match *)
(* that is over has one winner with every chip and never changes, and the  *)
(* engine implements what its controllers rely on.  Then the match with its *)
(* cards: it is a match of SingleDraw2To7, and every hand is played with the *)
(* cards dealt and drawn for it.  Last the money around a match, for every *)
(* set of players and developers and any stakes and prizes: what           *)
(* PvPController and TournamentController burn, pay and accrue.            *)
(***************************************************************************)
EXTENDS PokerHands, PvPController, TournamentController, SettlementProofs


-----------------------------------------------------------------------------
(* The inductive invariant.  ChipsConserved and WinnerTakesAll need that an *)
(* active hand always has a pot of two chips or more, so that neither share *)
(* of a tie is empty; MatchFinal that only an active match is in a phase   *)
(* somebody may move in.                                                   *)

ChipsInv ==
  /\ active => stack[0] + stack[1] + pot = 2 * StartingStack /\ pot >= 2
  /\ isTie = FALSE
  /\ matchState # "Completed" => matchWinner = NoSeat
  /\ matchState = "Completed" =>
       /\ matchWinner \in Seats
       /\ stack[matchWinner] = 2 * StartingStack
       /\ stack[other(matchWinner)] = 0

TurnInv ==
  /\ TurnAndClock
  /\ ~active => handPhase \in {"None", "HandComplete"}
  /\ handPhase \in {"AwaitingInitialDeal", "PreDrawBetting"} =>
       \A i \in Seats : ~drawDeclared[i]
  /\ handPhase \in {"AwaitingInitialDeal", "PreDrawBetting", "DrawDeclaration"} =>
       \A i \in Seats : ~drawResolved[i]

IInv == TypeOK /\ ChipsInv /\ TurnInv

LEMMA InitInv == Init => IInv
<1> SUFFICES ASSUME Init PROVE IInv
  OBVIOUS
<1>0. level \in 0..MaxLevel
  BY MatchAssumption DEF Init
<1>1. TypeOK
  BY <1>0 DEF Init, TypeOK, Seats, NoSeat, MatchState, HandPhase
<1>2. ChipsInv
  BY DEF Init, ChipsInv, active
<1>3. TurnInv
  BY DEF Init, TurnInv, TurnAndClock, active
<1>4. QED BY <1>1, <1>2, <1>3 DEF IInv

-----------------------------------------------------------------------------
\* A hand that starts from two stacks puts at least two chips in the pot.
LEMMA BlindsPosted ==
  ASSUME NEW dealer \in Seats, NEW stacks \in [Seats -> Nat \ {0}],
         level \in 0..MaxLevel
  PROVE  /\ blindCost(stacks, dealer) \in [Seats -> Nat \ {0}]
         /\ \A i \in Seats : blindCost(stacks, dealer)[i] <= stacks[i]
<1> DEFINE blind(i) == 2^level * (IF i = dealer THEN DEFAULT_SMALL_BLIND
                                                ELSE DEFAULT_BIG_BLIND)
<1>1. ASSUME NEW i \in Seats PROVE blind(i) \in Nat \ {0}
  <2>1. 2^level \in Nat \ {0}
    BY MatchAssumption
  <2>2. PICK k \in Nat \ {0} : k = 2^level
    BY <2>1
  <2>3. (IF i = dealer THEN DEFAULT_SMALL_BLIND ELSE DEFAULT_BIG_BLIND) \in Nat \ {0}
    BY MatchAssumption
  <2>4. \A a, b \in Nat \ {0} : a * b \in Nat \ {0}
    OBVIOUS
  <2>5. QED BY <2>1, <2>3, <2>4
<1>2. blindCost(stacks, dealer) = [i \in Seats |-> lesser(blind(i), stacks[i])]
  BY DEF blindCost
<1> HIDE DEF blind
<1>3. QED BY <1>1, <1>2 DEF lesser

LEMMA NextHandStarts ==
  ASSUME TypeOK, NEW dealer \in Seats, NEW stacks \in [Seats -> Nat \ {0}],
         stacks[0] + stacks[1] = 2 * StartingStack,
         startNextHand(stacks, dealer),
         matchState' = "Active", matchWinner' = NoSeat, isTie' = FALSE,
         UNCHANGED worldVars
  PROVE  IInv'
<1> DEFINE cost == blindCost(stacks, dealer)
<1>1. cost \in [Seats -> Nat \ {0}] /\ \A i \in Seats : cost[i] <= stacks[i]
  BY BlindsPosted DEF TypeOK
<1>2. /\ stack' = [i \in Seats |-> stacks[i] - cost[i]]
      /\ currentBet' = cost
      /\ pot' = cost[0] + cost[1] /\ contributed' = cost
      /\ highestBet' = cost[other(dealer)]
  BY DEF startNextHand
<1> HIDE DEF cost
<1>3. /\ stack' \in [Seats -> Nat] /\ currentBet' \in [Seats -> Nat]
      /\ pot' \in Nat /\ highestBet' \in Nat /\ contributed' \in [Seats -> Nat]
  BY <1>1, <1>2 DEF Seats, other
<1>4. stack[0]' + stack[1]' + pot' = 2 * StartingStack /\ pot' >= 2
  BY <1>1, <1>2, MatchAssumption DEF Seats
<1>5. ChipsInv'
  BY <1>4 DEF ChipsInv, active
<1>6. TurnInv'
  BY DEF startNextHand, awaitCoordinator, TurnInv, TurnAndClock, active,
         ClockPhases, BettingPhases, ProofPhases
<1>7. TypeOK'
  BY <1>3 DEF TypeOK, startNextHand, awaitCoordinator, Seats, NoSeat, MatchState,
              HandPhase, ClockPhases, BettingPhases, ProofPhases, worldVars
<1>8. QED BY <1>5, <1>6, <1>7 DEF IInv

\* A hand in progress pays out all chips, and the shares of a tie are positive.
LEMMA PotPaidOut ==
  ASSUME IInv, active, NEW winner \in Seats, NEW tie \in BOOLEAN
  PROVE  /\ paidOut(winner, tie) \in [Seats -> Nat]
         /\ paidOut(winner, tie)[0] + paidOut(winner, tie)[1] = 2 * StartingStack
         /\ tie => \A i \in Seats : paidOut(winner, tie)[i] > 0
<1>1. /\ stack \in [Seats -> Nat] /\ pot \in Nat /\ pot >= 2
      /\ stack[0] + stack[1] + pot = 2 * StartingStack
      /\ StartingStack \in Nat
  BY MatchAssumption DEF IInv, TypeOK, ChipsInv
<1>2. CASE tie
  <2> DEFINE half == pot \div 2
  <2>1. half \in Nat /\ half > 0 /\ pot - half \in Nat /\ pot - half > 0
    BY <1>1
  <2>2. paidOut(winner, tie) =
          [i \in Seats |-> stack[i] + IF i = 0 THEN half ELSE pot - half]
    BY <1>2 DEF paidOut
  <2> HIDE DEF half
  <2>3. QED BY <1>1, <2>1, <2>2 DEF Seats
<1>3. CASE ~tie
  <2>1. paidOut(winner, tie) = [stack EXCEPT ![winner] = @ + pot]
    BY <1>3 DEF paidOut
  <2>2. CASE winner = 0
    BY <1>1, <1>3, <2>1, <2>2 DEF Seats
  <2>3. CASE winner = 1
    BY <1>1, <1>3, <2>1, <2>3 DEF Seats
  <2>4. QED BY <2>2, <2>3 DEF Seats
<1>4. QED BY <1>2, <1>3

LEMMA HandCompletes ==
  ASSUME IInv, active, NEW winner \in Seats, NEW tie \in BOOLEAN,
         completeHand(winner, tie)
  PROVE  /\ IInv'
         /\ \/ matchState' = "Completed" /\ matchWinner' \in Seats
            \/ UNCHANGED outcomeVars
<1> DEFINE stacks == paidOut(winner, tie)
<1>1. /\ stacks \in [Seats -> Nat]
      /\ stacks[0] + stacks[1] = 2 * StartingStack
      /\ tie => \A i \in Seats : stacks[i] > 0
  BY PotPaidOut
<1>2. UNCHANGED worldVars
  BY DEF completeHand
<1>3. CASE \E i \in Seats : stacks[i] = 0
  <2>1. endMatch(stacks, tie) /\ ~tie
    BY <1>1, <1>3 DEF completeHand
  <2> HIDE DEF stacks
  <2>2. matchWinner' \in Seats
    BY <2>1 DEF endMatch, Seats
  <2>3. /\ stacks[matchWinner'] = 2 * StartingStack
        /\ stacks[other(matchWinner')] = 0
    BY <1>1, <1>3, <2>1, MatchAssumption DEF endMatch, Seats, other
  <2>4. ChipsInv'
    BY <2>1, <2>2, <2>3 DEF ChipsInv, endMatch, active
  <2>5. TurnInv'
    BY <2>1 DEF TurnInv, TurnAndClock, endMatch, active
  <2>6. TypeOK'
    BY <1>1, <1>2, <2>1, <2>2
    DEF IInv, TypeOK, endMatch, MatchState, HandPhase, ClockPhases,
        BettingPhases, ProofPhases, turnVars, drawVars, worldVars
  <2>7. QED BY <2>1, <2>2, <2>4, <2>5, <2>6 DEF IInv, endMatch
<1>4. CASE \A i \in Seats : stacks[i] > 0
  <2>1. startNextHand(stacks, other(dealerIdx)) /\ UNCHANGED outcomeVars
    BY <1>4 DEF completeHand, Seats
  <2>2. stacks \in [Seats -> Nat \ {0}] /\ other(dealerIdx) \in Seats
    BY <1>1, <1>4 DEF IInv, TypeOK, Seats, other
  <2>3. matchState' = "Active" /\ matchWinner' = NoSeat /\ isTie' = FALSE
    BY <2>1 DEF outcomeVars, active, IInv, ChipsInv
  <2>4. TypeOK
    BY DEF IInv
  <2> HIDE DEF stacks
  <2>5. IInv'
    BY <1>1, <1>2, <2>1, <2>2, <2>3, <2>4, NextHandStarts
  <2>6. QED BY <2>1, <2>5
<1>5. QED BY <1>1, <1>3, <1>4 DEF Seats

-----------------------------------------------------------------------------
\* A bet moves chips of the player whose turn it is into the pot.
LEMMA BetKeepsInv ==
  ASSUME IInv, NEW amount \in Nat, bet(amount)
  PROVE  IInv' /\ UNCHANGED outcomeVars
<1> DEFINE p == currentTurn
<1>1. /\ p \in Seats /\ active /\ handPhase \in BettingPhases
      /\ stack[p] >= amount /\ UNCHANGED <<outcomeVars, dealerIdx, drawVars, worldVars>>
      /\ stack' = [stack EXCEPT ![p] = @ - amount]
      /\ pot' = pot + amount
      /\ contributed' = [contributed EXCEPT ![p] = @ + amount]
      /\ advanceAfterBettingAction(betsAfter(p, amount), actedAfter(p, amount),
                                   highestAfter(p, amount))
  BY DEF bet, canActInBetting, IInv, TypeOK
<1>2. /\ betsAfter(p, amount) \in [Seats -> Nat]
      /\ actedAfter(p, amount) \in [Seats -> BOOLEAN]
      /\ highestAfter(p, amount) \in Nat
  BY <1>1 DEF betsAfter, actedAfter, highestAfter, IInv, TypeOK
<1>3. /\ stack' \in [Seats -> Nat] /\ pot' \in Nat /\ pot' >= pot
      /\ stack[0]' + stack[1]' + pot' = stack[0] + stack[1] + pot
  <2>1. stack \in [Seats -> Nat] /\ pot \in Nat
    BY DEF IInv, TypeOK
  <2>2. stack' \in [Seats -> Nat] /\ pot' \in Nat /\ pot' >= pot
    BY <1>1, <2>1
  <2>3. CASE p = 0
    BY <1>1, <2>1, <2>3 DEF Seats
  <2>4. CASE p = 1
    BY <1>1, <2>1, <2>4 DEF Seats
  <2>5. QED BY <1>1, <2>2, <2>3, <2>4 DEF Seats
<1>4. /\ ChipsInv'
      /\ contributed' \in [Seats -> Nat]
  BY <1>1, <1>3 DEF IInv, TypeOK, ChipsInv, active, outcomeVars
<1>5. ASSUME handPhase' \in HandPhase, currentBet' \in [Seats -> Nat],
             hasActed' \in [Seats -> BOOLEAN], highestBet' \in Nat,
             currentTurn' \in Seats,
             expectedActor' \in Seats \cup {COORDINATOR_ACTOR},
             clock' \in {"off", "running", "passed"}
      PROVE  TypeOK'
  BY <1>1, <1>3, <1>4, <1>5 DEF IInv, TypeOK, outcomeVars, drawVars, worldVars
<1>6. CASE endBettingRound
  <2>1. currentBet' \in [Seats -> Nat] /\ hasActed' \in [Seats -> BOOLEAN]
        /\ highestBet' \in Nat
    BY <1>6 DEF endBettingRound
  <2>2. CASE /\ handPhase = "PreDrawBetting" /\ handPhase' = "DrawDeclaration"
             /\ giveTurn(other(dealerIdx))
    <3>1. other(dealerIdx) \in Seats
      BY DEF IInv, TypeOK, other, Seats
    <3>2. TypeOK'
      BY <1>5, <2>1, <2>2, <3>1 DEF giveTurn, HandPhase, ClockPhases
    <3>3. TurnInv'
      BY <1>1, <2>2, <3>1
      DEF IInv, TurnInv, TurnAndClock, giveTurn, active, outcomeVars, drawVars,
          ClockPhases, ProofPhases, BettingPhases
    <3>4. QED BY <1>1, <1>4, <3>2, <3>3 DEF IInv
  <2>3. CASE /\ handPhase' = "ShowdownProofPending" /\ awaitCoordinator
             /\ UNCHANGED currentTurn
    <3>1. TypeOK'
      BY <1>1, <1>5, <2>1, <2>3 DEF awaitCoordinator, HandPhase, ProofPhases
    <3>2. TurnInv'
      BY <1>1, <2>3
      DEF TurnInv, TurnAndClock, awaitCoordinator, active, outcomeVars,
          ClockPhases, ProofPhases, BettingPhases
    <3>3. QED BY <1>1, <1>4, <3>1, <3>2 DEF IInv
  <2>4. QED BY <1>6, <2>2, <2>3 DEF endBettingRound
<1>7. CASE /\ currentBet' = betsAfter(p, amount) /\ hasActed' = actedAfter(p, amount)
           /\ highestBet' = highestAfter(p, amount)
           /\ giveTurn(other(p)) /\ UNCHANGED handPhase
  <2>1. other(p) \in Seats
    BY <1>1 DEF other, Seats
  <2>2. TypeOK'
    BY <1>2, <1>5, <1>7, <2>1 DEF giveTurn, IInv, TypeOK
  <2>3. TurnInv'
    BY <1>1, <1>7, <2>1
    DEF IInv, TurnInv, TurnAndClock, giveTurn, active, outcomeVars, drawVars,
        ClockPhases, ProofPhases, BettingPhases
  <2>4. QED BY <1>1, <1>4, <2>2, <2>3 DEF IInv
<1>8. QED BY <1>1, <1>6, <1>7 DEF advanceAfterBettingAction

-----------------------------------------------------------------------------
\* Every step keeps the invariant.
LEMMA StepInv ==
  ASSUME IInv, [Next]_vars
  PROVE  IInv'
<1>1. CASE initializeGame
  <2> DEFINE stacks == [i \in Seats |-> StartingStack]
  <2>1. /\ stacks \in [Seats -> Nat \ {0}]
        /\ stacks[0] + stacks[1] = 2 * StartingStack
    BY MatchAssumption DEF Seats
  <2>2. /\ TypeOK /\ dealerIdx \in Seats /\ matchWinner = NoSeat /\ isTie = FALSE
    BY <1>1 DEF IInv, TypeOK, ChipsInv, initializeGame
  <2>3. /\ startNextHand(stacks, dealerIdx) /\ UNCHANGED worldVars
        /\ matchState' = "Active" /\ matchWinner' = NoSeat /\ isTie' = FALSE
    BY <1>1, <2>2 DEF initializeGame
  <2> HIDE DEF stacks
  <2>4. QED BY <2>1, <2>2, <2>3, NextHandStarts
<1>2. ASSUME NEW amount \in 0..(2 * StartingStack), bet(amount) PROVE IInv'
  BY <1>2, BetKeepsInv, MatchAssumption
<1>3. CASE fold
  <2>1. active /\ other(currentTurn) \in Seats
    BY <1>3 DEF fold, canActInBetting, IInv, TypeOK, other, Seats
  <2>2. QED BY <1>3, <2>1, HandCompletes DEF fold
<1>4. CASE declareDraw
  <2>1. UNCHANGED <<outcomeVars, dealerIdx, chipVars, hasActed, drawResolved, worldVars>>
    BY <1>4 DEF declareDraw
  <2>2. ChipsInv'
    BY <2>1 DEF IInv, ChipsInv, active, outcomeVars, chipVars
  <2>3. active /\ handPhase = "DrawDeclaration" /\ currentTurn \in Seats
        /\ ~drawDeclared[currentTurn]
        /\ drawDeclared' = [drawDeclared EXCEPT ![currentTurn] = TRUE]
    BY <1>4 DEF declareDraw, IInv, TypeOK
  <2>4. CASE /\ drawDeclared[other(currentTurn)]
             /\ handPhase' = "DrawProofPending" /\ awaitCoordinator
             /\ UNCHANGED currentTurn
    <3>1. TypeOK'
      BY <2>1, <2>3, <2>4
      DEF IInv, TypeOK, awaitCoordinator, HandPhase, ProofPhases, outcomeVars,
          chipVars, worldVars
    <3>2. TurnInv'
      BY <2>1, <2>3, <2>4
      DEF IInv, TypeOK, TurnInv, TurnAndClock, awaitCoordinator, active, outcomeVars,
          ClockPhases, ProofPhases, BettingPhases, other, Seats
    <3>3. QED BY <2>2, <3>1, <3>2 DEF IInv
  <2>5. CASE /\ ~drawDeclared[other(currentTurn)]
             /\ giveTurn(other(currentTurn)) /\ UNCHANGED handPhase
    <3>1. other(currentTurn) \in Seats /\ other(currentTurn) # currentTurn
      BY <2>3 DEF other, Seats
    <3>2. TypeOK'
      BY <2>1, <2>3, <2>5, <3>1
      DEF IInv, TypeOK, giveTurn, outcomeVars, chipVars, worldVars
    <3>3. TurnInv'
      BY <2>1, <2>3, <2>5, <3>1
      DEF IInv, TypeOK, TurnInv, TurnAndClock, giveTurn, active, outcomeVars,
          ClockPhases, ProofPhases, BettingPhases
    <3>4. QED BY <2>2, <3>2, <3>3 DEF IInv
  <2>6. QED BY <1>4, <2>4, <2>5 DEF declareDraw
<1>5. CASE submitInitialDealProof
  <2>1. UNCHANGED <<outcomeVars, dealerIdx, chipVars, hasActed, worldVars>>
    BY <1>5 DEF submitInitialDealProof
  <2>2. ChipsInv'
    BY <2>1 DEF IInv, ChipsInv, active, outcomeVars, chipVars
  <2>3. TypeOK'
    BY <1>5, <2>1
    DEF IInv, TypeOK, submitInitialDealProof, giveTurn, HandPhase, ClockPhases,
        BettingPhases, outcomeVars, chipVars, worldVars
  <2>4. TurnInv'
    BY <1>5, <2>1
    DEF IInv, TurnInv, TurnAndClock, submitInitialDealProof, giveTurn, active,
        outcomeVars, ClockPhases, ProofPhases, BettingPhases
  <2>5. QED BY <2>2, <2>3, <2>4 DEF IInv
<1>6. ASSUME NEW actor \in Seats, submitDrawProof(actor) PROVE IInv'
  <2>1. /\ UNCHANGED <<outcomeVars, dealerIdx, stack, pot, contributed, drawDeclared,
                       worldVars>>
        /\ active /\ handPhase = "DrawProofPending"
        /\ drawResolved' = [drawResolved EXCEPT ![actor] = TRUE]
    BY <1>6 DEF submitDrawProof
  <2>2. ChipsInv'
    BY <2>1 DEF IInv, ChipsInv, active, outcomeVars
  <2>3. CASE /\ handPhase' = "PostDrawBetting" /\ giveTurn(other(dealerIdx))
             /\ hasActed' = [i \in Seats |-> FALSE]
             /\ currentBet' = [i \in Seats |-> 0] /\ highestBet' = 0
    <3>1. TypeOK'
      BY <2>1, <2>3
      DEF IInv, TypeOK, giveTurn, HandPhase, ClockPhases, BettingPhases, other,
          Seats, outcomeVars, worldVars
    <3>2. TurnInv'
      BY <2>1, <2>3
      DEF TurnInv, TurnAndClock, giveTurn, active, outcomeVars, ClockPhases,
          ProofPhases, BettingPhases
    <3>3. QED BY <2>2, <3>1, <3>2 DEF IInv
  <2>4. CASE /\ ~drawResolved[other(actor)]
             /\ UNCHANGED <<handPhase, hasActed, currentBet, highestBet, turnVars>>
    <3>1. TypeOK'
      BY <2>1, <2>4 DEF IInv, TypeOK, turnVars, outcomeVars, worldVars
    <3>2. TurnInv'
      BY <2>1, <2>4
      DEF IInv, TypeOK, TurnInv, TurnAndClock, turnVars, active, outcomeVars,
          ClockPhases, ProofPhases, BettingPhases, other, Seats
    <3>3. QED BY <2>2, <3>1, <3>2 DEF IInv
  <2>5. QED BY <1>6, <2>3, <2>4 DEF submitDrawProof
<1>7. ASSUME NEW winner \in Seats, NEW tie \in BOOLEAN, submitShowdownProof(winner, tie)
      PROVE  IInv'
  BY <1>7, HandCompletes DEF submitShowdownProof
<1>8. CASE claimTimeout
  <2>1. active /\ other(currentTurn) \in Seats
    BY <1>8 DEF claimTimeout, IInv, TypeOK, TurnInv, other, Seats, ClockPhases,
                BettingPhases
  <2>2. QED BY <1>8, <2>1, HandCompletes DEF claimTimeout
<1> DEFINE Untouched ==
      /\ outcomeVars' = outcomeVars /\ dealerIdx' = dealerIdx /\ chipVars' = chipVars
      /\ hasActed' = hasActed /\ handPhase' = handPhase /\ drawVars' = drawVars
      /\ currentTurn' = currentTurn /\ expectedActor' = expectedActor
      /\ clock' = clock \/ (clock = "running" /\ clock' = "passed")
      /\ level' \in 0..MaxLevel /\ status' \in {"LIVE", "RETIRED", "DISABLED"}
<1>9. Untouched => IInv'
  <2> SUFFICES ASSUME Untouched PROVE IInv'
    OBVIOUS
  <2>1. TypeOK'
    BY DEF IInv, TypeOK, outcomeVars, chipVars, drawVars
  <2>2. ChipsInv'
    BY DEF IInv, ChipsInv, active, outcomeVars, chipVars
  <2>3. TurnInv'
    BY DEF IInv, TurnInv, TurnAndClock, active, outcomeVars, drawVars,
           ClockPhases, ProofPhases, BettingPhases
  <2>4. QED BY <2>1, <2>2, <2>3 DEF IInv
<1>a. CASE Expire
  BY <1>9, <1>a DEF Expire, worldVars, IInv, TypeOK
<1>b. CASE Escalate
  <2>1. level \in Nat /\ level < MaxLevel /\ level' = level + 1 /\ MaxLevel \in Nat
    BY <1>b, MatchAssumption DEF Escalate, IInv, TypeOK
  <2>2. level' \in 0..MaxLevel
    BY <2>1
  <2>3. Untouched
    BY <1>b, <2>2 DEF Escalate, turnVars, IInv, TypeOK
  <2>4. QED BY <1>9, <2>3
<1>c. ASSUME NEW newStatus \in {"LIVE", "RETIRED", "DISABLED"}, setModuleStatus(newStatus)
      PROVE  IInv'
  <2>1. Untouched
    BY <1>c DEF setModuleStatus, turnVars, IInv, TypeOK
  <2>2. QED BY <1>9, <2>1
<1>10. CASE UNCHANGED vars
  BY <1>10
  DEF IInv, TypeOK, ChipsInv, TurnInv, TurnAndClock, active, vars, outcomeVars,
      chipVars, drawVars, turnVars, worldVars
<1>11. QED
  BY <1>1, <1>2, <1>3, <1>4, <1>5, <1>6, <1>7, <1>8, <1>a, <1>b, <1>c, <1>10
  DEF Next, PlayerMoves, CoordinatorMoves

THEOREM Inductive == Spec => []IInv
<1>1. IInv /\ [Next]_vars => IInv'
  BY StepInv
<1>2. QED BY InitInv, <1>1, PTL DEF Spec

-----------------------------------------------------------------------------
\* No chip is made or lost in a match, for any stacks and blinds, however the
\* blinds have doubled and however hands end.
THEOREM ChipsAlwaysConserved == Spec => []ChipsConserved
<1>1. IInv => ChipsConserved
  BY DEF IInv, TypeOK, ChipsInv, ChipsConserved, active, Seats, other
<1>2. QED BY Inductive, <1>1, PTL

\* The turn, the clock and the phase of the hand always agree, so exactly the
\* party the hand waits for can be timed out, or not.
THEOREM TurnsAndClocksAgree == Spec => []TurnAndClock
<1>1. IInv => TurnAndClock
  BY DEF IInv, TurnInv
<1>2. QED BY Inductive, <1>1, PTL

\* A match that is over has one winner, with every chip: no tie ends a match.
THEOREM WinnerAlwaysTakesAll == Spec => []WinnerTakesAll
<1>1. IInv => WinnerTakesAll
  BY DEF IInv, ChipsInv, WinnerTakesAll
<1>2. QED BY Inductive, <1>1, PTL

-----------------------------------------------------------------------------
\* What a step does to the outcome of the match.
LEMMA StepOutcome ==
  ASSUME IInv, [Next]_vars
  PROVE  [Match!Next]_(Match!vars)
<1> USE DEF Match!Next, Match!vars, Match!initialize, Match!complete
<1>1. CASE initializeGame
  BY <1>1 DEF initializeGame
<1>2. ASSUME active, NEW winner \in Seats, NEW tie \in BOOLEAN,
             completeHand(winner, tie)
      PROVE  [Match!Next]_(Match!vars)
  <2>1. (matchState' = "Completed" /\ matchWinner' \in Seats) \/ UNCHANGED outcomeVars
    BY <1>2, HandCompletes
  <2>2. isTie = FALSE /\ isTie' = FALSE
    BY <1>2, HandCompletes DEF IInv, ChipsInv
  <2>3. QED BY <1>2, <2>1, <2>2 DEF active, Seats, outcomeVars
<1>3. CASE fold
  <2>1. active /\ other(currentTurn) \in Seats
    BY <1>3 DEF fold, canActInBetting, IInv, TypeOK, other, Seats
  <2>2. QED BY <1>2, <1>3, <2>1 DEF fold
<1>4. ASSUME NEW winner \in Seats, NEW tie \in BOOLEAN, submitShowdownProof(winner, tie)
      PROVE  [Match!Next]_(Match!vars)
  BY <1>2, <1>4 DEF submitShowdownProof
<1>5. CASE claimTimeout
  <2>1. active /\ other(currentTurn) \in Seats
    BY <1>5 DEF claimTimeout, IInv, TypeOK, TurnInv, other, Seats, ClockPhases,
                BettingPhases
  <2>2. QED BY <1>2, <1>5, <2>1 DEF claimTimeout
<1>6. CASE UNCHANGED outcomeVars
  BY <1>6 DEF outcomeVars
<1>7. QED
  BY <1>1, <1>3, <1>4, <1>5, <1>6
  DEF Next, PlayerMoves, CoordinatorMoves, bet, declareDraw, submitInitialDealProof,
      submitDrawProof, Expire, Escalate, setModuleStatus, vars

\* The poker engine implements what the controllers rely on: it starts a match
\* once and its outcome, once there, is final.
THEOREM EngineImplementsMatch == Spec => ImplementsMatch
<1>1. Init => Match!Init
  BY DEF Init, Match!Init, NoSeat
<1>2. IInv /\ [Next]_vars => [Match!Next]_(Match!vars)
  BY StepOutcome
<1>3. QED BY Inductive, <1>1, <1>2, PTL DEF Spec, ImplementsMatch, Match!Spec

\* Nothing moves in a match that is over.
THEOREM MatchesFinal == Spec => MatchFinal
<1>1. ASSUME IInv, [Next]_vars, matchState = "Completed"
      PROVE  UNCHANGED <<outcomeVars, chipVars, handPhase>>
  <2>1. ~active /\ handPhase \in {"None", "HandComplete"}
    BY <1>1 DEF active, IInv, TurnInv
  <2>2. QED
    BY <1>1, <2>1
    DEF Next, PlayerMoves, CoordinatorMoves, initializeGame, bet, fold, declareDraw,
        canActInBetting, submitInitialDealProof, submitDrawProof,
        submitShowdownProof, claimTimeout, Expire, Escalate, setModuleStatus, vars,
        ClockPhases, BettingPhases
<1>2. QED BY Inductive, <1>1, PTL DEF Spec, MatchFinal

-----------------------------------------------------------------------------
\* A hand starts with a pot of its two blinds, which are the bets as well.
LEMMA StartMatches ==
  ASSUME NEW dealer \in Seats, NEW stacks \in [Seats -> Nat \ {0}],
         level \in 0..MaxLevel, startNextHand(stacks, dealer)
  PROVE  PotMatched'
<1> DEFINE cost == blindCost(stacks, dealer)
<1>1. cost \in [Seats -> Nat \ {0}]
  BY BlindsPosted
<1>2. /\ currentBet' = cost /\ contributed' = cost /\ pot' = cost[0] + cost[1]
      /\ handPhase' = "AwaitingInitialDeal"
  BY DEF startNextHand
<1> HIDE DEF cost
<1>3. QED BY <1>1, <1>2 DEF PotMatched, Seats

\* A completed hand starts the next one or ends the match.
LEMMA CompleteKeepsMatched ==
  ASSUME IInv, active, NEW winner \in Seats, NEW tie \in BOOLEAN,
         completeHand(winner, tie)
  PROVE  PotMatched'
<1> DEFINE stacks == paidOut(winner, tie)
<1>1. CASE endMatch(stacks, tie)
  BY <1>1 DEF endMatch, PotMatched, active
<1>2. CASE startNextHand(stacks, other(dealerIdx)) /\ \A i \in Seats : stacks[i] > 0
  <2>1. stacks \in [Seats -> Nat \ {0}]
    BY <1>2, PotPaidOut
  <2>2. other(dealerIdx) \in Seats /\ level \in 0..MaxLevel
    BY DEF IInv, TypeOK, other, Seats
  <2> HIDE DEF stacks
  <2>3. QED BY <1>2, <2>1, <2>2, StartMatches
<1>3. QED BY <1>1, <1>2 DEF completeHand

\* A bet adds the same to the seat's bet and to its contribution; the round that
\* ends on equal bets leaves equal contributions.
LEMMA BetKeepsMatched ==
  ASSUME TypeOK, PotMatched, NEW amount \in Nat, bet(amount)
  PROVE  PotMatched'
<1> DEFINE p == currentTurn
           bets == betsAfter(p, amount)
<1>1. /\ p \in Seats /\ currentBet \in [Seats -> Nat] /\ pot \in Nat
      /\ contributed \in [Seats -> Nat]
      /\ active /\ active' /\ handPhase \in BettingPhases
      /\ pot' = pot + amount
      /\ contributed' = [contributed EXCEPT ![p] = @ + amount]
      /\ advanceAfterBettingAction(bets, actedAfter(p, amount), highestAfter(p, amount))
  BY DEF bet, canActInBetting, TypeOK, active, outcomeVars
<1>2. /\ pot = contributed[0] + contributed[1]
      /\ contributed[0] + currentBet[1] = contributed[1] + currentBet[0]
  BY <1>1 DEF PotMatched, BettingPhases
<1>3. /\ pot' = contributed'[0] + contributed'[1]
      /\ contributed'[0] + bets[1] = contributed'[1] + bets[0]
      /\ \A i \in Seats : bets[i] \in Nat /\ contributed'[i] \in Nat
  <2>1. CASE p = 0
    BY <1>1, <1>2, <2>1 DEF betsAfter, Seats
  <2>2. CASE p = 1
    BY <1>1, <1>2, <2>2 DEF betsAfter, Seats
  <2>3. QED BY <1>1, <2>1, <2>2 DEF Seats
<1> HIDE DEF bets
<1>4. CASE bets[0] = bets[1] /\ endBettingRound
  <2>1. contributed'[0] = contributed'[1]
    BY <1>3, <1>4 DEF Seats
  <2>2. /\ handPhase' \in {"DrawDeclaration", "ShowdownProofPending"}
        /\ currentBet' = [i \in Seats |-> 0]
    BY <1>4 DEF endBettingRound
  <2>3. QED BY <1>3, <2>1, <2>2 DEF PotMatched
<1>5. CASE currentBet' = bets /\ handPhase' = handPhase
  BY <1>1, <1>3, <1>5 DEF PotMatched, BettingPhases
<1>6. QED BY <1>1, <1>4, <1>5 DEF advanceAfterBettingAction

\* Whenever cards are drawn or shown, SingleDraw2To7Engine has taken the same from
\* both players in this hand, for any blinds, stacks and bets.
THEOREM PotAlwaysMatched == Spec => []PotMatched
<1>1. Init => PotMatched
  BY DEF Init, PotMatched, active
<1>2. ASSUME IInv, PotMatched, [Next]_vars PROVE PotMatched'
  <2>0. /\ other(currentTurn) \in Seats /\ dealerIdx \in Seats /\ level \in 0..MaxLevel
    BY <1>2 DEF IInv, TypeOK, other, Seats
  <2>1. CASE initializeGame
    <3> DEFINE stacks == [i \in Seats |-> StartingStack]
    <3>1. stacks \in [Seats -> Nat \ {0}] /\ startNextHand(stacks, dealerIdx)
      BY <2>1, MatchAssumption DEF initializeGame
    <3> HIDE DEF stacks
    <3>2. QED BY <2>0, <3>1, StartMatches
  <2>2. ASSUME NEW amount \in 0..(2 * StartingStack), bet(amount) PROVE PotMatched'
    BY <1>2, <2>2, BetKeepsMatched, MatchAssumption DEF IInv
  <2>3. CASE fold \/ claimTimeout
    <3>1. active /\ completeHand(other(currentTurn), FALSE)
      BY <1>2, <2>3 DEF fold, claimTimeout, canActInBetting, IInv, TurnInv, ClockPhases,
                        BettingPhases
    <3>2. QED BY <1>2, <2>0, <3>1, CompleteKeepsMatched
  <2>4. ASSUME NEW winner \in Seats, NEW tie \in BOOLEAN,
               submitShowdownProof(winner, tie)
        PROVE  PotMatched'
    BY <1>2, <2>4, CompleteKeepsMatched DEF submitShowdownProof
  <2>5. CASE submitInitialDealProof
    BY <1>2, <2>5 DEF submitInitialDealProof, PotMatched, active, outcomeVars, chipVars
  <2>6. CASE declareDraw
    BY <1>2, <2>6 DEF declareDraw, PotMatched, active, outcomeVars, chipVars
  <2>7. ASSUME NEW actor \in Seats, submitDrawProof(actor) PROVE PotMatched'
    <3>1. /\ pot' = pot /\ contributed' = contributed
          /\ pot = contributed[0] + contributed[1] /\ contributed[0] = contributed[1]
          /\ \A i \in Seats : currentBet[i] = 0
      BY <1>2, <2>7 DEF submitDrawProof, PotMatched
    <3>2. \A i \in Seats : currentBet'[i] = 0
      BY <2>7, <3>1 DEF submitDrawProof
    <3>3. handPhase' \in {"DrawProofPending", "PostDrawBetting"}
      BY <2>7 DEF submitDrawProof
    <3>4. QED BY <3>1, <3>2, <3>3 DEF PotMatched, Seats
  <2>8. CASE Expire \/ Escalate \/ UNCHANGED vars
             \/ (\E newStatus \in {"LIVE", "RETIRED", "DISABLED"} :
                   setModuleStatus(newStatus))
    BY <1>2, <2>8
    DEF Expire, Escalate, setModuleStatus, vars, PotMatched, active, outcomeVars, chipVars
  <2>9. QED
    BY <1>2, <2>1, <2>2, <2>3, <2>4, <2>5, <2>6, <2>7, <2>8
    DEF Next, PlayerMoves, CoordinatorMoves
<1>3. QED BY Inductive, <1>1, <1>2, PTL DEF Spec

-----------------------------------------------------------------------------
(* The match with its cards.                                               *)

\* Whatever the proofs do, the match is one SingleDraw2To7 allows, so what is
\* proved of Spec holds of the match with its cards.
THEOREM HandsRefineMatch == PokerSpec => Spec
<1>1. PokerInit => Init
  BY DEF PokerInit
<1>2. [PokerNext]_pokerVars => [Next]_vars
  <2> SUFFICES ASSUME [PokerNext]_pokerVars PROVE [Next]_vars
    OBVIOUS
  <2>1. CASE Initialize
    BY <2>1 DEF Initialize, Next
  <2>2. CASE PlayerSteps
    BY <2>2 DEF PlayerSteps, Bet, Fold, DeclareDraw, Next, PlayerMoves
  <2>3. CASE CoordinatorSteps
    <3>1. CASE \E p \in {dealProof} \cup again("poker_initial_deal") :
                  SubmitInitialDeal(p)
      BY <3>1 DEF SubmitInitialDeal, Next, CoordinatorMoves
    <3>2. CASE \E actor \in Seats :
                  \E p \in drawProofs(actor, proofSequences[actor] + 1)
                             \cup again("poker_draw_resolve") : SubmitDraw(p, actor)
      BY <3>2 DEF SubmitDraw, Next, CoordinatorMoves
    <3>3. CASE \E scores \in [Seats -> Scores], winner \in Seats, tie \in BOOLEAN :
                  \E p \in {showdownProof(scores)} \cup again("poker_showdown") :
                    SubmitShowdown(p, winner, tie)
      BY <3>3 DEF SubmitShowdown, Next, CoordinatorMoves
    <3>4. QED BY <2>3, <3>1, <3>2, <3>3 DEF CoordinatorSteps
  <2>4. CASE ClaimTimeout
    BY <2>4 DEF ClaimTimeout, Next
  <2>5. CASE WorldSteps
    BY <2>5 DEF WorldSteps, Next
  <2>6. CASE UNCHANGED pokerVars
    BY <2>6 DEF pokerVars
  <2>7. QED BY <2>1, <2>2, <2>3, <2>4, <2>5, <2>6 DEF PokerNext
<1>3. QED BY <1>1, <1>2, PTL DEF PokerSpec, Spec

-----------------------------------------------------------------------------
(* The inductive invariant.  HandsAsDealt alone is not inductive: a proof   *)
(* that comes late must be known to carry the other hand's number, and a   *)
(* mask that is being declared not to have been drawn by yet (IInv).       *)

LateInv ==
  /\ handNumber \in {0, 1}
  /\ late # None => late.handNumber = 1 - handNumber
  /\ handCommitments = [i \in Seats |-> handCommitments[i]]
  /\ proofSequences = [i \in Seats |-> proofSequences[i]]

ProofInv == IInv /\ LateInv /\ HandsAsDealt

\* Every proof of a hand carries its number.
LEMMA ProofsNumbered ==
  /\ dealProof.handNumber = handNumber
  /\ \A actor, sequence : \A p \in drawProofs(actor, sequence) :
       p.handNumber = handNumber
  /\ \A p \in sent : p.handNumber = handNumber
<1>1. dealProof.handNumber = handNumber
  BY DEF dealProof, derivePokerInitialDeal
<1>2. ASSUME NEW actor, NEW sequence, NEW p \in drawProofs(actor, sequence)
      PROVE  p.handNumber = handNumber
  BY DEF drawProofs, drawWitness, derivePokerDrawResolve
<1>3. ASSUME NEW p \in sent PROVE p.handNumber = handNumber
  BY <1>1, <1>2 DEF sent
<1>4. QED BY <1>1, <1>2, <1>3

\* A hand that is over leaves proofs of the other number behind.
LEMMA HandOverKeepsInv ==
  ASSUME LateInv, NEW shown, \A p \in shown : p.handNumber = handNumber,
         handOver(shown)
  PROVE  LateInv' /\ HandsAsDealt'
<1>1. CASE /\ handPhase' = "AwaitingInitialDeal"
           /\ clearHand
           /\ late' \in {None} \cup sent \cup shown
  <2>1. handNumber' = 1 - handNumber /\ handNumber \in {0, 1}
    BY <1>1 DEF clearHand, nextHandNumber, LateInv
  <2>2. late' # None => late'.handNumber = handNumber
    BY <1>1, ProofsNumbered
  <2>3. LateInv'
    BY <1>1, <2>1, <2>2 DEF LateInv, clearHand, noCommitments, noProofs
  <2>4. QED
    BY <1>1, <2>3 DEF HandsAsDealt, DealtPhases, ClockPhases, BettingPhases
<1>2. CASE handPhase' = "HandComplete" /\ UNCHANGED proofVars
  BY <1>2 DEF proofVars, handVars, LateInv, HandsAsDealt, DealtPhases, ClockPhases,
              BettingPhases
<1>3. QED BY <1>1, <1>2 DEF handOver

\* Steps that leave the hand's proofs and draws alone.
LEMMA HandKeepsInv ==
  ASSUME LateInv, HandsAsDealt, UNCHANGED <<proofVars, drawVars>>,
         handPhase' \in DealtPhases => handPhase \in DealtPhases
  PROVE  LateInv' /\ HandsAsDealt'
<1>1. UNCHANGED <<handNumber, handNonce, deckCommitment, handCommitments,
                  declaredDrawMasks, proofSequences, deal, late, drawResolved>>
  BY DEF proofVars, handVars, drawVars
<1>2. heldCards' = heldCards /\ dealProof' = dealProof
  BY <1>1 DEF heldCards, dealProof, dealtCards, replacements
<1>3. QED BY <1>1, <1>2 DEF LateInv, HandsAsDealt

LEMMA DeclareKeepsInv ==
  ASSUME ProofInv, NEW mask, DeclareDraw(mask)
  PROVE  LateInv' /\ HandsAsDealt'
<1>1. /\ handPhase = "DrawDeclaration" /\ handPhase \in DealtPhases
      /\ UNCHANGED <<handNumber, handNonce, deckCommitment, handCommitments,
                     proofSequences, deal, late, drawResolved>>
  BY DEF DeclareDraw, declareDraw, DealtPhases, ClockPhases
<1>2. \A i \in Seats : ~drawResolved[i]
  BY <1>1 DEF ProofInv, IInv, TurnInv
<1>3. \A i \in Seats : heldCards[i] = dealtCards[i] /\ heldCards'[i] = dealtCards[i]
  BY <1>1, <1>2 DEF heldCards, dealtCards
<1>4. dealProof' = dealProof
  BY <1>1 DEF dealProof, dealtCards
<1>5. QED BY <1>1, <1>3, <1>4 DEF ProofInv, LateInv, HandsAsDealt

LEMMA DealKeepsInv ==
  ASSUME ProofInv, NEW p \in {dealProof} \cup again("poker_initial_deal"),
         SubmitInitialDeal(p)
  PROVE  LateInv' /\ HandsAsDealt'
<1>1. p = dealProof
  <2>1. handNumber # 1 - handNumber
    BY DEF ProofInv, LateInv
  <2>2. QED
    BY <2>1 DEF ProofInv, LateInv, again, SubmitInitialDeal, verifyInitialDeal
<1>2. /\ UNCHANGED <<handNumber, deal, late>>
      /\ drawResolved' = [i \in Seats |-> FALSE]
      /\ proofSequences' = noProofs
      /\ handNonce' = p.handNonce /\ deckCommitment' = p.deckCommitment
      /\ handCommitments' = p.handCommitments
  BY DEF SubmitInitialDeal, submitInitialDealProof
<1>3. \A i \in Seats : heldCards'[i] = dealtCards[i]
  BY <1>2 DEF heldCards, dealtCards
<1>4. dealProof' = dealProof
  BY <1>2 DEF dealProof, dealtCards
<1>5. /\ p.handNonce = deal
      /\ \A i \in Seats : p.handCommitments[i] =
           handCommitment([handNumber |-> handNumber, handNonce |-> deal], dealtCards[i])
  BY <1>1 DEF dealProof, derivePokerInitialDeal, handCommitment, Seats, bothSeats
<1>6. LateInv'
  <2>1. handCommitments' = [i \in Seats |-> handCommitments'[i]]
    BY <1>1, <1>2 DEF dealProof, derivePokerInitialDeal, Seats, bothSeats
  <2>2. QED BY <1>2, <2>1 DEF ProofInv, LateInv, noProofs
<1>7. QED BY <1>1, <1>2, <1>3, <1>4, <1>5, <1>6 DEF HandsAsDealt, noProofs, handCommitment

LEMMA DrawKeepsInv ==
  ASSUME ProofInv, NEW actor \in Seats,
         NEW p \in drawProofs(actor, proofSequences[actor] + 1)
                      \cup again("poker_draw_resolve"),
         SubmitDraw(p, actor)
  PROVE  LateInv' /\ HandsAsDealt'
<1>1. p \in drawProofs(actor, proofSequences[actor] + 1)
  <2>1. handNumber # 1 - handNumber
    BY DEF ProofInv, LateInv
  <2>2. QED
    BY <2>1 DEF ProofInv, LateInv, again, SubmitDraw, verifyDraw
<1>2. /\ UNCHANGED <<handNumber, handNonce, deckCommitment, declaredDrawMasks, deal, late>>
      /\ drawResolved' = [drawResolved EXCEPT ![actor] = TRUE]
      /\ ~drawResolved[actor]
      /\ handCommitments' = [handCommitments EXCEPT ![actor] = p.newCommitment]
      /\ proofSequences' = [proofSequences EXCEPT ![actor] = proofSequences[actor] + 1]
      /\ handPhase \in DealtPhases
  BY DEF SubmitDraw, submitDrawProof, DealtPhases
<1>3. p.newCommitment =
        handCommitment([handNumber |-> handNumber, handNonce |-> deal],
          drawnHand(dealtCards[actor], replacements[actor], declaredDrawMasks[actor]))
  <2> DEFINE w == drawWitness(actor, proofSequences[actor] + 1)
  <2>1. p = derivePokerDrawResolve(w)
    BY <1>1 DEF drawProofs
  <2>2. p.newCommitment =
          handCommitment(w, drawnHand(w.oldCards, w.replacementCards, w.discardMask))
    BY <2>1 DEF derivePokerDrawResolve
  <2>3. /\ w.handNumber = handNumber /\ w.handNonce = deal
        /\ w.oldCards = dealtCards[actor] /\ w.replacementCards = replacements[actor]
        /\ w.discardMask = declaredDrawMasks[actor]
    BY DEF drawWitness
  <2> HIDE DEF w
  <2>4. QED BY <2>2, <2>3 DEF handCommitment
<1>4. heldCards'[actor] =
        drawnHand(dealtCards[actor], replacements[actor], declaredDrawMasks[actor])
  <2>1. drawResolved'[actor] = TRUE
    BY <1>2 DEF ProofInv, IInv, TypeOK
  <2>2. dealtCards' = dealtCards /\ replacements' = replacements
    BY <1>2 DEF dealtCards, replacements
  <2>3. QED BY <1>2, <2>1, <2>2 DEF heldCards
<1>5. ASSUME NEW i \in Seats, i # actor
      PROVE  heldCards'[i] = heldCards[i] /\ drawResolved'[i] = drawResolved[i]
  <2>1. drawResolved'[i] = drawResolved[i]
    BY <1>2, <1>5 DEF ProofInv, IInv, TypeOK
  <2>2. dealtCards' = dealtCards /\ replacements' = replacements
    BY <1>2 DEF dealtCards, replacements
  <2>3. QED BY <1>2, <2>1, <2>2 DEF heldCards
<1>6. dealProof' = dealProof
  BY <1>2 DEF dealProof, dealtCards
<1>7. /\ handCommitments'[actor] = p.newCommitment
      /\ proofSequences'[actor] = proofSequences[actor] + 1
      /\ \A i \in Seats \ {actor} : /\ handCommitments'[i] = handCommitments[i]
                                    /\ proofSequences'[i] = proofSequences[i]
      /\ drawResolved'[actor] = TRUE
  BY <1>2 DEF ProofInv, LateInv, IInv, TypeOK
<1>8. LateInv'
  BY <1>2 DEF ProofInv, LateInv
<1>9. /\ handNonce = deal /\ deckCommitment = dealProof.deckCommitment
      /\ proofSequences[actor] = 0
  BY <1>2 DEF ProofInv, HandsAsDealt
<1>10. ASSUME NEW i \in Seats
       PROVE  /\ handCommitments'[i] =
                    handCommitment([handNumber |-> handNumber, handNonce |-> deal],
                                   heldCards'[i])
              /\ proofSequences'[i] = IF drawResolved'[i] THEN 1 ELSE 0
  <2>1. CASE i = actor
    BY <1>3, <1>4, <1>7, <1>9, <2>1
  <2>2. CASE i # actor
    BY <1>2, <1>5, <1>7, <2>2 DEF ProofInv, HandsAsDealt
  <2>3. QED BY <2>1, <2>2
<1>11. HandsAsDealt'
  BY <1>2, <1>6, <1>9, <1>10 DEF HandsAsDealt, handCommitment
<1>12. QED BY <1>8, <1>11

LEMMA InitProofInv == PokerInit => ProofInv
<1> SUFFICES ASSUME PokerInit PROVE ProofInv
  OBVIOUS
<1>1. IInv
  BY InitInv DEF PokerInit
<1>2. LateInv
  BY DEF PokerInit, LateInv, noCommitments, noProofs
<1>3. HandsAsDealt
  BY DEF PokerInit, Init, HandsAsDealt, DealtPhases, ClockPhases, BettingPhases
<1>4. QED BY <1>1, <1>2, <1>3 DEF ProofInv

LEMMA StepProofInv ==
  ASSUME ProofInv, [PokerNext]_pokerVars
  PROVE  LateInv' /\ HandsAsDealt'
<1>1. CASE Initialize
  <2>1. handPhase' = "AwaitingInitialDeal" /\ clearHand /\ late' = None
    BY <1>1 DEF Initialize, initializeGame, startNextHand
  <2>2. HandsAsDealt'
    BY <2>1 DEF HandsAsDealt, DealtPhases, ClockPhases, BettingPhases
  <2>3. LateInv'
    BY <2>1 DEF ProofInv, LateInv, clearHand, nextHandNumber, noCommitments, noProofs
  <2>4. QED BY <2>2, <2>3
<1>2. ASSUME NEW amount, Bet(amount) PROVE LateInv' /\ HandsAsDealt'
  <2>1. /\ handPhase \in DealtPhases
        /\ UNCHANGED <<proofVars, drawVars>>
    BY <1>2 DEF Bet, bet, canActInBetting, DealtPhases, ClockPhases
  <2>2. QED BY <2>1, HandKeepsInv DEF ProofInv
<1>3. CASE Fold \/ ClaimTimeout
  BY <1>3, HandOverKeepsInv DEF Fold, ClaimTimeout, ProofInv
<1>4. ASSUME NEW p, NEW winner, NEW tie, SubmitShowdown(p, winner, tie)
      PROVE  LateInv' /\ HandsAsDealt'
  BY <1>4, HandOverKeepsInv DEF SubmitShowdown, verifyShowdown, ProofInv
<1>5. CASE WorldSteps
  <2>1. UNCHANGED <<proofVars, drawVars, handPhase>>
    BY <1>5 DEF WorldSteps, Expire, Escalate, setModuleStatus, drawVars
  <2>2. QED BY <2>1, HandKeepsInv DEF ProofInv
<1>6. CASE UNCHANGED pokerVars
  <2>1. UNCHANGED <<proofVars, drawVars, handPhase>>
    BY <1>6 DEF pokerVars, vars
  <2>2. QED BY <2>1, HandKeepsInv DEF ProofInv
<1>7. CASE PlayerSteps
  BY <1>2, <1>3, <1>7, DeclareKeepsInv DEF PlayerSteps
<1>8. CASE CoordinatorSteps
  BY <1>4, <1>8, DealKeepsInv, DrawKeepsInv DEF CoordinatorSteps
<1>9. QED BY <1>1, <1>3, <1>5, <1>6, <1>7, <1>8 DEF PokerNext

\* Every hand is committed to, drawn from and counted as it was dealt, whatever
\* the coordinator sends again, for any hand size, masks and scores.
THEOREM HandsAlwaysAsDealt == PokerSpec => []HandsAsDealt
<1>1. PokerSpec => []IInv
  BY HandsRefineMatch, Inductive, PTL
<1>2. LateInv /\ HandsAsDealt /\ IInv /\ [PokerNext]_pokerVars
        => LateInv' /\ HandsAsDealt'
  BY StepProofInv DEF ProofInv
<1>3. PokerInit => LateInv /\ HandsAsDealt
  BY InitProofInv DEF ProofInv
<1>4. QED BY <1>1, <1>2, <1>3, PTL DEF PokerSpec

-----------------------------------------------------------------------------
(* What a match pays and costs.                                            *)

PlayedMatch == [state: {"Inactive", "Active", "Completed"},
                players: (Players \cup {Nobody}) \X (Players \cup {Nobody}),
                buyIn: Nat, reward: Nat, winner: {1, 2, Tie}]

LEMMA TwoSeats == IsFiniteSet({1, 2}) /\ Cardinality({1, 2}) = 2
<1>1. IsFiniteSet({1}) /\ Cardinality({1}) = 1 /\ 2 \notin {1}
  BY FS_Singleton
<1>2. IsFiniteSet({1} \cup {2}) /\ Cardinality({1} \cup {2}) = 1 + 1
  BY <1>1, FS_AddElement
<1>3. {1} \cup {2} = {1, 2}
  OBVIOUS
<1>4. QED BY <1>2, <1>3

LEMMA FiniteMatches == IsFiniteSet(MatchIds)
  BY MatchesAssumption, FS_Interval DEF MatchIds

\* A sum over some of the two seats.
LEMMA SumOfPair ==
  ASSUME NEW f, DOMAIN f \subseteq {1, 2}, \A i \in DOMAIN f : f[i] \in Int
  PROVE  SumFunction(f) = (IF 1 \in DOMAIN f THEN f[1] ELSE 0)
                            + (IF 2 \in DOMAIN f THEN f[2] ELSE 0)
<1>1. SumFunctionOnSet(f, {}) = 0
  BY SumOfNothing
<1>2. ASSUME NEW i \in DOMAIN f
      PROVE  SumFunctionOnSet(f, {i}) = f[i]
  <2>1. IsFiniteSet({i}) /\ \A x \in {i} : f[x] \in Int
    BY FS_Singleton
  <2>2. SumFunctionOnSet(f, {i}) = f[i] + SumFunctionOnSet(f, {i} \ {i})
    BY <2>1, SumTakeOut
  <2>3. {i} \ {i} = {}
    OBVIOUS
  <2>4. QED BY <1>1, <2>1, <2>2, <2>3
<1>3. CASE DOMAIN f = {}
  BY <1>1, <1>3 DEF SumFunction
<1>4. CASE DOMAIN f = {1}
  BY <1>2, <1>4 DEF SumFunction
<1>5. CASE DOMAIN f = {2}
  BY <1>2, <1>5 DEF SumFunction
<1>6. CASE DOMAIN f = {1, 2}
  <2>1. IsFiniteSet({1, 2})
    BY TwoSeats
  <2>2. SumFunctionOnSet(f, {1, 2}) = f[1] + SumFunctionOnSet(f, {1, 2} \ {1})
    BY <1>6, <2>1, SumTakeOut
  <2>3. {1, 2} \ {1} = {2}
    OBVIOUS
  <2>4. QED BY <1>2, <1>6, <2>2, <2>3 DEF SumFunction
<1>7. QED BY <1>3, <1>4, <1>5, <1>6

\* What the player in a seat gets of the pool.
share(match, i) ==
  CASE match.winner = i -> match.reward
    [] match.winner = Tie -> IF i = 1 THEN match.reward \div 2
                             ELSE match.reward - match.reward \div 2
    [] OTHER -> 0

shareOf(match, i, p) == IF match.players[i] = p THEN share(match, i) ELSE 0

LEMMA SharesAddUp ==
  ASSUME NEW match \in PlayedMatch
  PROVE  /\ share(match, 1) \in Nat /\ share(match, 2) \in Nat
         /\ share(match, 1) + share(match, 2) = match.reward
<1>1. match.reward \in Nat /\ match.winner \in {0, 1, 2}
  BY DEF PlayedMatch, Tie
<1>2. match.reward \div 2 \in Nat /\ match.reward \div 2 <= match.reward
  BY <1>1
<1>3. CASE match.winner = 0
  <2> DEFINE half == match.reward \div 2
  <2>1. share(match, 1) = half /\ share(match, 2) = match.reward - half
    BY <1>3 DEF share, Tie
  <2> HIDE DEF half
  <2>2. half \in Nat /\ half <= match.reward
    BY <1>2 DEF half
  <2>3. QED BY <1>1, <2>1, <2>2
<1>4. CASE match.winner = 1
  BY <1>1, <1>4 DEF share, Tie
<1>5. CASE match.winner = 2
  BY <1>1, <1>5 DEF share, Tie
<1>6. QED BY <1>1, <1>3, <1>4, <1>5

LEMMA PayoutIsShares ==
  ASSUME NEW match \in PlayedMatch, NEW p
  PROVE  /\ outcomePayout(match, p) = shareOf(match, 1, p) + shareOf(match, 2, p)
         /\ outcomePayout(match, p) \in Nat
<1> DEFINE seats == {j \in {1, 2} : match.players[j] = p}
           f == [i \in seats |-> share(match, i)]
<1>1. outcomePayout(match, p) = SumFunction(f)
  BY DEF outcomePayout, share
<1>2. share(match, 1) \in Nat /\ share(match, 2) \in Nat
  BY SharesAddUp
<1>3. /\ DOMAIN f \subseteq {1, 2} /\ \A i \in DOMAIN f : f[i] \in Int
      /\ 1 \in DOMAIN f <=> match.players[1] = p
      /\ 2 \in DOMAIN f <=> match.players[2] = p
      /\ 1 \in DOMAIN f => f[1] = share(match, 1)
      /\ 2 \in DOMAIN f => f[2] = share(match, 2)
  BY <1>2
<1> HIDE DEF f
<1>4. SumFunction(f) = (IF 1 \in DOMAIN f THEN f[1] ELSE 0)
                         + (IF 2 \in DOMAIN f THEN f[2] ELSE 0)
  BY <1>3, SumOfPair
<1>5. QED BY <1>1, <1>2, <1>3, <1>4 DEF shareOf

\* A match between two players pays out its pool, no more and no less.
LEMMA PayoutsAreReward ==
  ASSUME NEW match \in PlayedMatch, match.players \in Players \X Players
  PROVE  LET payouts == [a \in Accounts |-> outcomePayout(match, a)]
         IN  /\ payouts \in [Accounts -> Nat]
             /\ SumFunction(payouts) = match.reward
<1> DEFINE payouts == [a \in Accounts |-> outcomePayout(match, a)]
           part(i) == [a \in Accounts |-> shareOf(match, i, a)]
<1>1. ASSUME NEW i \in {1, 2}
      PROVE  /\ Summable(part(i)) /\ DOMAIN part(i) = Accounts
             /\ SumFunction(part(i)) = share(match, i)
  <2> DEFINE p == match.players[i]
  <2>1. p \in Players /\ p \in Accounts /\ share(match, i) \in Nat
    BY SharesAddUp DEF Accounts
  <2>2. /\ DOMAIN part(i) = Accounts /\ {p} \subseteq Accounts
        /\ \A a \in {p} : part(i)[a] = share(match, i)
        /\ \A a \in Accounts \ {p} : part(i)[a] = 0
        /\ \A a \in Accounts : part(i)[a] \in Nat
    BY <2>1 DEF shareOf
  <2> DEFINE f == part(i)
  <2>3. f = part(i)
    OBVIOUS
  <2> HIDE DEF p, f
  <2>4. SumFunction(f) = share(match, i) * Cardinality({p})
    <3>1. /\ DOMAIN f = Accounts /\ {p} \subseteq DOMAIN f
          /\ share(match, i) \in Int
          /\ \A a \in {p} : f[a] = share(match, i)
          /\ \A a \in DOMAIN f \ {p} : f[a] = 0
      BY <2>1, <2>2, <2>3
    <3>2. QED BY <3>1, FiniteAccounts, SumOfEqualParts
  <2>5. Cardinality({p}) = 1
    BY FS_Singleton
  <2>6. Summable(f) /\ DOMAIN f = Accounts
    BY <2>2, <2>3, FiniteAccounts, SumOfNats
  <2>7. SumFunction(f) = share(match, i)
    BY <2>1, <2>4, <2>5
  <2>8. QED BY <2>3, <2>6, <2>7
<1>2. /\ DOMAIN payouts = Accounts
      /\ \A a \in Accounts : payouts[a] = part(1)[a] + part(2)[a]
      /\ payouts \in [Accounts -> Nat]
  BY PayoutIsShares
<1>3. /\ Summable(part(1)) /\ DOMAIN part(1) = Accounts
      /\ Summable(part(2)) /\ DOMAIN part(2) = Accounts
      /\ SumFunction(part(1)) = share(match, 1)
      /\ SumFunction(part(2)) = share(match, 2)
  BY <1>1
<1> DEFINE f == part(1)  g == part(2)
<1>4. /\ Summable(f) /\ DOMAIN f = Accounts /\ SumFunction(f) = share(match, 1)
      /\ Summable(g) /\ DOMAIN g = Accounts /\ SumFunction(g) = share(match, 2)
      /\ \A a \in Accounts : payouts[a] = f[a] + g[a]
  BY <1>2, <1>3
<1> HIDE DEF payouts, part, f, g
<1>5. SumFunction(payouts) = SumFunction(f) + SumFunction(g)
  BY <1>2, <1>4, SumAdded
<1>6. SumFunction(payouts) = match.reward
  BY <1>4, <1>5, SharesAddUp
<1>7. QED BY <1>2, <1>6 DEF payouts

\* What a match costs a player.
stakeOf(match, p) ==
  (IF match.players[1] = p THEN match.buyIn ELSE 0)
    + (IF match.players[2] = p THEN match.buyIn ELSE 0)

LEMMA StakesBySeat ==
  ASSUME NEW match \in PlayedMatch, NEW p
  PROVE  /\ match.buyIn * Cardinality({i \in {1, 2} : match.players[i] = p})
              = stakeOf(match, p)
         /\ stakeOf(match, p) \in Nat
<1> DEFINE seats == {i \in {1, 2} : match.players[i] = p}
           fee == match.buyIn
<1>1. fee \in Nat
  BY DEF PlayedMatch
<1>2. /\ Cardinality({}) = 0 /\ Cardinality({1}) = 1 /\ Cardinality({2}) = 1
      /\ Cardinality({1, 2}) = 2
  BY TwoSeats, FS_EmptySet, FS_Singleton
<1>3. CASE match.players[1] = p /\ match.players[2] = p
  <2>1. seats = {1, 2}
    BY <1>3
  <2>2. fee * Cardinality(seats) = fee * 2
    BY <1>2, <2>1
  <2>3. QED BY <1>1, <1>3, <2>2 DEF stakeOf
<1>4. CASE match.players[1] = p /\ match.players[2] # p
  <2>1. seats = {1}
    BY <1>4
  <2>2. fee * Cardinality(seats) = fee * 1
    BY <1>2, <2>1
  <2>3. QED BY <1>1, <1>4, <2>2 DEF stakeOf
<1>5. CASE match.players[1] # p /\ match.players[2] = p
  <2>1. seats = {2}
    BY <1>5
  <2>2. fee * Cardinality(seats) = fee * 1
    BY <1>2, <2>1
  <2>3. QED BY <1>1, <1>5, <2>2 DEF stakeOf
<1>6. CASE match.players[1] # p /\ match.players[2] # p
  <2>1. seats = {}
    BY <1>6
  <2>2. fee * Cardinality(seats) = fee * 0
    BY <1>2, <2>1
  <2>3. QED BY <1>1, <1>6, <2>2 DEF stakeOf
<1>7. QED BY <1>3, <1>4, <1>5, <1>6

\* Burning both stakes.
LEMMA BurnStakesKeepsLedger ==
  ASSUME NEW l, LedgerInv(l), l = token, NEW p1 \in Players, NEW p2 \in Players,
         NEW stake \in Nat, canBurnStakes(p1, p2, stake)
  PROVE  LET m == burnStakes(l, p1, p2, stake)
         IN  /\ LedgerInv(m)
             /\ \A a \in Accounts :
                  m.balance[a] = l.balance[a] - (IF a = p1 THEN stake ELSE 0)
                                              - (IF a = p2 THEN stake ELSE 0)
             /\ m.totalSupply = l.totalSupply - 2 * stake
<1> DEFINE k == burnPlayerWager(l, p1, stake)
           m == burnPlayerWager(k, p2, stake)
<1>0. p1 \in Accounts /\ p2 \in Accounts
  BY DEF Accounts
<1>1. l.balance \in [Accounts -> Nat] /\ l.totalSupply \in Nat
  BY DEF LedgerInv, Token!Ledger
<1>2. CASE stake = 0
  <2>1. burnStakes(l, p1, p2, stake) = l
    BY <1>2 DEF burnStakes
  <2>2. QED BY <1>1, <1>2, <2>1
<1>3. CASE stake > 0
  <2>1. /\ Token!canSpend(l, p1, "settlement", stake)
        /\ Token!canSpend(k, p2, "settlement", stake)
        /\ burnStakes(l, p1, p2, stake) = m
    BY <1>3 DEF canBurnStakes, canBurnPlayerWager, burnStakes
  <2>2. /\ LedgerInv(k)
        /\ k.balance = [l.balance EXCEPT ![p1] = @ - stake]
        /\ k.totalSupply = l.totalSupply - stake
    BY <1>0, <2>1, BurnKeepsLedger
  <2> HIDE DEF k
  <2>3. /\ LedgerInv(m)
        /\ m.balance = [k.balance EXCEPT ![p2] = @ - stake]
        /\ m.totalSupply = k.totalSupply - stake
    BY <1>0, <2>1, <2>2, BurnKeepsLedger
  <2> HIDE DEF m
  <2>4. k.balance \in [Accounts -> Nat] /\ k.totalSupply \in Nat
    BY <2>2 DEF LedgerInv, Token!Ledger
  <2>5. ASSUME NEW a \in Accounts
        PROVE  m.balance[a] = l.balance[a] - (IF a = p1 THEN stake ELSE 0)
                                           - (IF a = p2 THEN stake ELSE 0)
    <3>1. k.balance[a] = l.balance[a] - (IF a = p1 THEN stake ELSE 0)
      BY <1>1, <2>2
    <3>2. m.balance[a] = k.balance[a] - (IF a = p2 THEN stake ELSE 0)
      BY <2>3, <2>4
    <3>3. QED BY <3>1, <3>2
  <2>6. m.totalSupply = l.totalSupply - 2 * stake
    BY <1>1, <2>2, <2>3
  <2>7. QED BY <2>1, <2>3, <2>5, <2>6
<1>4. QED BY <1>2, <1>3

-----------------------------------------------------------------------------
(* What any controller over matches keeps.                                 *)

MatchesInv ==
  /\ matches \in [MatchIds -> PlayedMatch]
  /\ \A id \in started : matches[id].players \in Players \X Players

\* The money of the matches, of which those in "paid" were paid.
MoneyInv(paid) ==
  /\ paid \subseteq {id \in MatchIds : isGameOver(id)}
  /\ \A p \in Players :
       token.balance[p] + stakesOf(started, p) =
         InitialBalance + prizesOf(paid, p)
         + (IF p \in Developers THEN claimMinted[p] ELSE 0)
  /\ token.totalSupply + 2 * buyInsOf(started) =
       InitialBalance * Cardinality(Players) + SumFunction(claimMinted) + rewardsOf(paid)
  /\ paid # {} => registered(matchController)

\* What a step that credits no developer keeps.
CreditsNobody(paid) ==
  /\ owed' = owed /\ RatesKept
  /\ \A id \in paid : matches'[id] = matches[id]

\* What developers are credited for matches of so much activity each.
creditsOf(ids, activity) ==
  SumFunction([id \in ids |-> developerAccrual(matchController, activity[id])])

\* The sums over sets of matches.
LEMMA MatchSums ==
  ASSUME MatchesInv, NEW ids \in SUBSET MatchIds
  PROVE  /\ IsFiniteSet(ids)
         /\ \A p : stakesOf(ids, p)
                     = SumFunction([id \in ids |-> stakeOf(matches[id], p)])
         /\ \A p : stakesOf(ids, p) \in Nat /\ prizesOf(ids, p) \in Nat
         /\ buyInsOf(ids) \in Nat /\ rewardsOf(ids) \in Nat
<1>1. IsFiniteSet(ids) /\ \A id \in ids : matches[id] \in PlayedMatch
  BY FiniteMatches, FS_Subset DEF MatchesInv
<1>2. ASSUME NEW p
      PROVE  /\ stakesOf(ids, p)
                  = SumFunction([id \in ids |-> stakeOf(matches[id], p)])
             /\ stakesOf(ids, p) \in Nat
  <2> DEFINE f == [id \in ids |-> stakeOf(matches[id], p)]
  <2>1. \A id \in ids :
          /\ matches[id].buyIn * Cardinality({i \in {1, 2} : matches[id].players[i] = p})
               = stakeOf(matches[id], p)
          /\ stakeOf(matches[id], p) \in Nat
    BY <1>1, StakesBySeat
  <2>2. stakesOf(ids, p) = SumFunction(f)
    BY <2>1 DEF stakesOf
  <2>3. DOMAIN f = ids /\ \A id \in ids : f[id] \in Nat
    BY <2>1
  <2> HIDE DEF f
  <2>4. SumFunction(f) \in Nat
    BY <1>1, <2>3, SumOfNats
  <2>5. QED BY <2>2, <2>4 DEF f
<1>3. ASSUME NEW p PROVE prizesOf(ids, p) \in Nat
  <2> DEFINE f == [id \in ids |-> outcomePayout(matches[id], p)]
  <2>1. DOMAIN f = ids /\ \A id \in ids : f[id] \in Nat
    BY <1>1, PayoutIsShares
  <2> HIDE DEF f
  <2>2. SumFunction(f) \in Nat
    BY <1>1, <2>1, SumOfNats
  <2>3. QED BY <2>2 DEF f, prizesOf
<1>4. buyInsOf(ids) \in Nat
  <2> DEFINE f == [id \in ids |-> matches[id].buyIn]
  <2>1. DOMAIN f = ids /\ \A id \in ids : f[id] \in Nat
    BY <1>1 DEF PlayedMatch
  <2> HIDE DEF f
  <2>2. SumFunction(f) \in Nat
    BY <1>1, <2>1, SumOfNats
  <2>3. QED BY <2>2 DEF f, buyInsOf
<1>5. rewardsOf(ids) \in Nat
  <2> DEFINE f == [id \in ids |-> matches[id].reward]
  <2>1. DOMAIN f = ids /\ \A id \in ids : f[id] \in Nat
    BY <1>1 DEF PlayedMatch
  <2> HIDE DEF f
  <2>2. SumFunction(f) \in Nat
    BY <1>1, <2>1, SumOfNats
  <2>3. QED BY <2>2 DEF f, rewardsOf
<1>6. QED BY <1>1, <1>2, <1>3, <1>4, <1>5

\* Paid matches that no step touches.
LEMMA PaidSumsKept ==
  ASSUME NEW ids \in SUBSET MatchIds, \A id \in ids : matches'[id] = matches[id]
  PROVE  /\ \A p : prizesOf(ids, p)' = prizesOf(ids, p)
         /\ rewardsOf(ids)' = rewardsOf(ids)
<1>1. ASSUME NEW p PROVE prizesOf(ids, p)' = prizesOf(ids, p)
  <2>1. [id \in ids |-> outcomePayout(matches'[id], p)]
          = [id \in ids |-> outcomePayout(matches[id], p)]
    OBVIOUS
  <2>2. prizesOf(ids, p)' = SumFunction([id \in ids |-> outcomePayout(matches'[id], p)])
    BY DEF prizesOf, outcomePayout
  <2>3. QED BY <2>1, <2>2 DEF prizesOf
<1>2. rewardsOf(ids)' = rewardsOf(ids)
  <2>1. [id \in ids |-> matches'[id].reward] = [id \in ids |-> matches[id].reward]
    OBVIOUS
  <2>2. QED BY <2>1 DEF rewardsOf
<1>3. QED BY <1>1, <1>2

\* Its credits, while the rate of a registered controller stays what it is.
LEMMA CreditSumKept ==
  ASSUME NEW ids, NEW activity, ids # {} => registered(matchController), RatesKept
  PROVE  creditsOf(ids, activity)' = creditsOf(ids, activity)
<1>1. ASSUME NEW id \in ids
      PROVE  developerAccrual(matchController, activity[id])'
               = developerAccrual(matchController, activity[id])
  <2>1. rate(matchController)' = rate(matchController)
    BY MatchesAssumption DEF RatesKept
  <2>2. QED BY <2>1 DEF developerAccrual, rate
<1>2. [id \in ids |-> developerAccrual(matchController, activity[id])]'
        = [id \in ids |-> developerAccrual(matchController, activity[id])]
  BY <1>1
<1>3. QED BY <1>2 DEF creditsOf

\* One match more.
LEMMA SumWithOneMore ==
  ASSUME NEW f, NEW g, NEW x, NEW S, IsFiniteSet(S), x \notin S,
         DOMAIN f = S, DOMAIN g = S \cup {x},
         \A y \in S : f[y] \in Int /\ g[y] = f[y], g[x] \in Int
  PROVE  SumFunction(g) = SumFunction(f) + g[x] /\ SumFunction(f) \in Int
<1>1. Summable(f)
  BY DEF Summable
<1>2. QED BY <1>1, SumExtended, SumIsInteger

LEMMA CreditsWithOneMore ==
  ASSUME SettlementInv, registered(matchController),
         NEW ids, IsFiniteSet(ids), NEW id, id \notin ids, NEW f, NEW g,
         \A x \in ids : f[x] \in Nat /\ g[x] = f[x], g[id] \in Nat
  PROVE  creditsOf(ids \cup {id}, g)
           = creditsOf(ids, f) + developerAccrual(matchController, g[id])
<1> DEFINE F == [x \in ids |-> developerAccrual(matchController, f[x])]
           G == [x \in ids \cup {id} |-> developerAccrual(matchController, g[x])]
<1>1. ASSUME NEW amount \in Nat PROVE developerAccrual(matchController, amount) \in Nat
  BY <1>1, MatchesAssumption, RateType DEF SettlementInv
<1>2. \A x \in ids : F[x] \in Int /\ G[x] = F[x]
  BY <1>1
<1>3. G[id] = developerAccrual(matchController, g[id]) /\ G[id] \in Int
  BY <1>1
<1>4. DOMAIN F = ids /\ DOMAIN G = ids \cup {id}
  OBVIOUS
<1>5. creditsOf(ids, f) = SumFunction(F) /\ creditsOf(ids \cup {id}, g) = SumFunction(G)
  BY DEF creditsOf
<1> HIDE DEF F, G
<1>6. SumFunction(G) = SumFunction(F) + G[id]
  BY <1>2, <1>3, <1>4, SumWithOneMore
<1>7. QED BY <1>3, <1>5, <1>6

LEMMA InitialSupply ==
  InitialBalance \in Nat /\ InitialBalance * Cardinality(Players) \in Nat
<1>1. IsFiniteSet(Players) /\ InitialBalance \in Nat
  BY SettlementAssumption
<1>2. Cardinality(Players) \in Nat
  BY <1>1, FS_CardinalityType
<1>3. QED BY <1>1, <1>2

LEMMA ClaimsSum ==
  ASSUME NEW minted \in [Developers -> Nat]
  PROVE  SumFunction(minted) \in Nat
<1>1. /\ IsFiniteSet(Developers)
      /\ DOMAIN minted = Developers /\ \A d \in Developers : minted[d] \in Nat
  BY SettlementAssumption
<1>2. QED BY <1>1, SumOfNats

LEMMA InitMoney ==
  ASSUME ProtocolInit, MatchesInit
  PROVE  SettlementInv /\ MatchesInv /\ started = {} /\ MoneyInv({}) /\ owed = 0
<1>1. SettlementInv
  BY InitSettlementInv
<1>2. MatchesInv /\ started = {}
  BY DEF MatchesInit, MatchesInv, NoMatch, PlayedMatch, Tie, started
<1>3. /\ \A p : stakesOf({}, p) = 0 /\ prizesOf({}, p) = 0
      /\ buyInsOf({}) = 0 /\ rewardsOf({}) = 0
  <2>1. ASSUME NEW f, DOMAIN f = {} PROVE SumFunction(f) = 0
    BY <2>1, SumOfNothing DEF SumFunction
  <2>2. QED BY <2>1 DEF stakesOf, prizesOf, buyInsOf, rewardsOf
<1>4. /\ \A d \in Developers : claimMinted[d] = 0
      /\ SumFunction(claimMinted) = 0
  <2>1. claimMinted = [d \in Developers |-> 0]
    BY DEF ProtocolInit, RewardsInit
  <2>2. IsFiniteSet(Developers) /\ DOMAIN claimMinted = Developers
        /\ \A d \in Developers : claimMinted[d] = 0
    BY <2>1, SettlementAssumption
  <2>3. QED BY <2>2, SumOfZeros
<1>5. owed = 0
  <2> DEFINE totals == [e \in Epochs |-> SumFunction(epochAccrual[e])]
  <2>1. epochAccrual = [e \in Epochs |-> [d \in Developers |-> 0]]
    BY DEF ProtocolInit, RewardsInit
  <2>2. IsFiniteSet(Developers) /\ IsFiniteSet(Epochs)
    <3>1. IsFiniteSet(Developers)
      BY SettlementAssumption
    <3>2. QED BY <3>1, RewardsAssumption, FS_Interval DEF Epochs
  <2>3. ASSUME NEW e \in Epochs PROVE SumFunction(epochAccrual[e]) = 0
    <3>1. DOMAIN epochAccrual[e] = Developers
          /\ \A d \in Developers : epochAccrual[e][d] = 0
      BY <2>1
    <3>2. QED BY <2>2, <3>1, SumOfZeros
  <2>4. DOMAIN totals = Epochs /\ \A e \in Epochs : totals[e] = 0
    BY <2>3
  <2> HIDE DEF totals
  <2>5. SumFunction(totals) = 0
    BY <2>2, <2>4, SumOfZeros
  <2>6. QED BY <2>5 DEF owed, totals
<1>6. /\ \A p \in Players : token.balance[p] = InitialBalance
      /\ token.totalSupply = InitialBalance * Cardinality(Players)
      /\ InitialBalance \in Nat /\ Cardinality(Players) \in Nat
  <2>1. IsFiniteSet(Players) /\ InitialBalance \in Nat
    BY SettlementAssumption
  <2>2. Cardinality(Players) \in Nat
    BY <2>1, FS_CardinalityType
  <2>3. QED BY <2>1, <2>2 DEF ProtocolInit, Accounts
<1>7. InitialBalance * Cardinality(Players) \in Nat
  BY <1>6
<1>8. QED BY <1>1, <1>2, <1>3, <1>4, <1>5, <1>6, <1>7 DEF MoneyInv

\* What a step that is not a call of the controller leaves alone.
LEMMA OutsideKeepsMoney ==
  ASSUME SettlementInv, MatchesInv, NEW paid, MoneyInv(paid),
         ProtocolNext, UNCHANGED matches
  PROVE  SettlementInv' /\ MatchesInv' /\ MoneyInv(paid)' /\ CreditsNobody(paid)
<1>1. SettlementInv' /\ OutsideStep
  BY OutsideStepsKeepSettlement
<1>2. /\ MatchesInv' /\ started' = started /\ paid \in SUBSET MatchIds
      /\ \A id \in MatchIds : matches'[id] = matches[id] /\ isGameOver(id)' = isGameOver(id)
  BY DEF MatchesInv, started, isGameOver, MoneyInv
<1>3. /\ \A p : stakesOf(started, p)' = stakesOf(started, p)
      /\ buyInsOf(started)' = buyInsOf(started)
  BY <1>2 DEF stakesOf, buyInsOf
<1>4. /\ \A p : prizesOf(paid, p)' = prizesOf(paid, p)
      /\ rewardsOf(paid)' = rewardsOf(paid)
  BY <1>2, PaidSumsKept
<1>5. CreditsNobody(paid) /\ registered(matchController)' = registered(matchController)
  BY <1>1, <1>2 DEF OutsideStep, RatesKept, CreditsNobody, owed, registered
<1>6. ASSUME NEW p \in Players
      PROVE  token'.balance[p] + stakesOf(started, p)' =
               InitialBalance + prizesOf(paid, p)'
               + (IF p \in Developers THEN claimMinted'[p] ELSE 0)
  <2>1. /\ p \in Accounts /\ token.balance[p] \in Nat
        /\ stakesOf(started, p) \in Nat /\ prizesOf(paid, p) \in Nat
        /\ InitialBalance \in Nat
        /\ p \in Developers => claimMinted[p] \in Nat /\ claimMinted'[p] \in Nat
    <3>1. p \in Accounts /\ token.balance[p] \in Nat
      BY DEF Accounts, SettlementInv, LedgerInv, Token!Ledger
    <3>2. stakesOf(started, p) \in Nat /\ prizesOf(paid, p) \in Nat
      BY <1>2, MatchSums DEF started
    <3>3. InitialBalance \in Nat
      BY SettlementAssumption
    <3>4. QED BY <1>1, <3>1, <3>2, <3>3 DEF SettlementInv, RewardsInv, RewardsTypeOK
  <2>2. token'.balance[p] = token.balance[p]
          + (IF p \in Developers THEN claimMinted'[p] - claimMinted[p] ELSE 0)
    BY <1>1, <2>1 DEF OutsideStep
  <2>3. token.balance[p] + stakesOf(started, p) =
          InitialBalance + prizesOf(paid, p)
          + (IF p \in Developers THEN claimMinted[p] ELSE 0)
    BY DEF MoneyInv
  <2>4. CASE p \in Developers
    BY <1>3, <1>4, <2>1, <2>2, <2>3, <2>4
  <2>5. CASE p \notin Developers
    BY <1>3, <1>4, <2>1, <2>2, <2>3, <2>5
  <2>6. QED BY <2>4, <2>5
<1>7. token'.totalSupply + 2 * buyInsOf(started)' =
        InitialBalance * Cardinality(Players) + SumFunction(claimMinted') + rewardsOf(paid)'
  <2>1. /\ token.totalSupply \in Nat /\ buyInsOf(started) \in Nat /\ rewardsOf(paid) \in Nat
        /\ SumFunction(claimMinted) \in Int /\ SumFunction(claimMinted') \in Int
        /\ InitialBalance * Cardinality(Players) \in Int
    <3>1. buyInsOf(started) \in Nat /\ rewardsOf(paid) \in Nat
      BY <1>2, MatchSums DEF started
    <3>2. SumFunction(claimMinted) \in Int /\ SumFunction(claimMinted') \in Int
      <4>1. claimMinted \in [Developers -> Nat] /\ claimMinted' \in [Developers -> Nat]
        BY <1>1 DEF SettlementInv, RewardsInv, RewardsTypeOK
      <4>2. QED BY <4>1, ClaimsSum
    <3>3. InitialBalance * Cardinality(Players) \in Int
      BY InitialSupply
    <3>4. QED BY <3>1, <3>2, <3>3 DEF SettlementInv, LedgerInv, Token!Ledger
  <2>2. token'.totalSupply =
          token.totalSupply + SumFunction(claimMinted') - SumFunction(claimMinted)
    BY <1>1 DEF OutsideStep
  <2>3. token.totalSupply + 2 * buyInsOf(started) =
       InitialBalance * Cardinality(Players) + SumFunction(claimMinted) + rewardsOf(paid)
    BY DEF MoneyInv
  <2> HIDE DEF MoneyInv
  <2>4. QED BY <1>3, <1>4, <2>1, <2>2, <2>3
<1>8. MoneyInv(paid)'
  <2>1. paid \subseteq {id \in MatchIds : isGameOver(id)'}
    BY <1>2 DEF MoneyInv
  <2>2. paid # {} => registered(matchController)'
    BY <1>5 DEF MoneyInv
  <2>3. QED BY <1>6, <1>7, <2>1, <2>2 DEF MoneyInv
<1>9. QED BY <1>1, <1>2, <1>5, <1>8

\* Starting a match burns what it costs its players.
LEMMA StartKeepsMoney ==
  ASSUME SettlementInv, MatchesInv, NEW paid, MoneyInv(paid),
         NEW id \in MatchIds, NEW p1 \in Players, NEW p2 \in Players,
         NEW stake \in Nat, NEW reward \in Nat,
         canBurnStakes(p1, p2, stake), token' = burnStakes(token, p1, p2, stake),
         initializeMatch(id, p1, p2, stake, reward),
         UNCHANGED <<catalogVars, registryVars, rewardsVars>>
  PROVE  /\ SettlementInv' /\ MatchesInv' /\ MoneyInv(paid)' /\ CreditsNobody(paid)
         /\ id \notin started /\ started' = started \cup {id}
         /\ matches'[id].buyIn = stake /\ matches'[id].reward = reward
         /\ \A another \in MatchIds \ {id} : matches'[another] = matches[another]
         /\ ~isGameOver(id)
<1> DEFINE new == [NoMatch EXCEPT !.state = "Active", !.players = <<p1, p2>>,
                                  !.buyIn = stake, !.reward = reward]
<1>1. /\ new \in PlayedMatch /\ new.state = "Active" /\ new.players = <<p1, p2>>
      /\ new.buyIn = stake /\ new.reward = reward
  BY DEF NoMatch, PlayedMatch, Tie
<1>2. matches[id].state = "Inactive" /\ matches' = [matches EXCEPT ![id] = new]
  BY DEF initializeMatch
<1> HIDE DEF new
<1>3. /\ matches' \in [MatchIds -> PlayedMatch] /\ matches'[id] = new
      /\ \A another \in MatchIds \ {id} : matches'[another] = matches[another]
  BY <1>1, <1>2 DEF MatchesInv
<1>4. id \notin started /\ started' = started \cup {id} /\ ~isGameOver(id)
  BY <1>1, <1>2, <1>3 DEF started, isGameOver
<1>5. MatchesInv'
  <2>1. ASSUME NEW x \in started' PROVE matches'[x].players \in Players \X Players
    <3>1. CASE x = id
      BY <1>1, <1>3, <3>1
    <3>2. CASE x # id
      <4>1. x \in started /\ x \in MatchIds
        BY <1>4, <3>2 DEF started
      <4>2. QED BY <1>3, <3>2, <4>1 DEF MatchesInv
    <3>3. QED BY <3>1, <3>2
  <2>2. QED BY <1>3, <2>1 DEF MatchesInv
<1>6. /\ LedgerInv(token')
      /\ \A a \in Accounts :
           token'.balance[a] = token.balance[a] - (IF a = p1 THEN stake ELSE 0)
                                                - (IF a = p2 THEN stake ELSE 0)
      /\ token'.totalSupply = token.totalSupply - 2 * stake
  BY BurnStakesKeepsLedger DEF SettlementInv
<1>7. /\ SettlementInv' /\ RatesKept
      /\ claimMinted' = claimMinted /\ owed' = owed
      /\ registered(matchController)' = registered(matchController)
  <2>1. CatalogInv' /\ controllerModuleIds' = controllerModuleIds /\ RatesKept
    BY SameCatalog DEF SettlementInv, RatesKept
  <2>2. RegistryInv'
    BY SameRegistry DEF SettlementInv
  <2>3. RewardsInv' /\ claimMinted' = claimMinted /\ epochAccrual' = epochAccrual
    BY SameRewards DEF SettlementInv
  <2>4. LedgerInv(token)'
    BY <1>6 DEF LedgerInv, Token!SupplyHeld, Token!Ledger
  <2>5. QED BY <2>1, <2>2, <2>3, <2>4 DEF SettlementInv, owed, registered
<1>8. paid \in SUBSET MatchIds /\ id \notin paid
      /\ \A another \in paid : matches'[another] = matches[another]
  BY <1>3, <1>4 DEF MoneyInv
<1>9. /\ \A p : prizesOf(paid, p)' = prizesOf(paid, p)
      /\ rewardsOf(paid)' = rewardsOf(paid)
  BY <1>8, PaidSumsKept
<1>10. CreditsNobody(paid)
  BY <1>7, <1>8 DEF CreditsNobody
<1>11. IsFiniteSet(started) /\ started \in SUBSET MatchIds
  BY MatchSums DEF started
<1>12. ASSUME NEW p \in Players
       PROVE  /\ stakesOf(started, p)' = stakesOf(started, p) + stakeOf(new, p)
              /\ stakesOf(started, p) \in Nat /\ stakeOf(new, p) \in Nat
  <2> DEFINE f == [x \in started |-> stakeOf(matches[x], p)]
             g == [x \in started \cup {id} |-> stakeOf(matches'[x], p)]
  <2>1. stakesOf(started, p) = SumFunction(f) /\ stakesOf(started, p) \in Nat
    BY <1>11, MatchSums
  <2>2. stakesOf(started, p)' = SumFunction(g)
    <3>1. \A x \in started' :
            matches'[x].buyIn * Cardinality({i \in {1, 2} : matches'[x].players[i] = p})
              = stakeOf(matches'[x], p)
      BY <1>3, <1>4, <1>11, StakesBySeat
    <3>2. [x \in started' |->
             matches'[x].buyIn * Cardinality({i \in {1, 2} : matches'[x].players[i] = p})]
            = [x \in started' |-> stakeOf(matches'[x], p)]
      BY <3>1
    <3>3. QED BY <1>4, <3>2 DEF stakesOf
  <2>3. ASSUME NEW x \in started PROVE f[x] \in Int /\ g[x] = f[x]
    <3>1. matches[x] \in PlayedMatch /\ matches'[x] = matches[x]
      BY <1>3, <1>4, <1>11 DEF MatchesInv
    <3>2. stakeOf(matches[x], p) \in Nat
      BY <3>1, StakesBySeat
    <3>3. QED BY <3>1, <3>2
  <2>4. g[id] = stakeOf(new, p) /\ g[id] \in Nat
    BY <1>1, <1>3, StakesBySeat
  <2>5. DOMAIN f = started /\ DOMAIN g = started \cup {id}
    OBVIOUS
  <2> HIDE DEF f, g
  <2>6. SumFunction(g) = SumFunction(f) + g[id]
    BY <1>4, <1>11, <2>3, <2>4, <2>5, SumWithOneMore
  <2>7. QED BY <2>1, <2>2, <2>4, <2>6
<1>13. buyInsOf(started)' = buyInsOf(started) + stake /\ buyInsOf(started) \in Nat
  <2> DEFINE f == [x \in started |-> matches[x].buyIn]
             g == [x \in started \cup {id} |-> matches'[x].buyIn]
  <2>1. buyInsOf(started) = SumFunction(f) /\ buyInsOf(started) \in Nat
    BY <1>11, MatchSums DEF buyInsOf
  <2>2. buyInsOf(started)' = SumFunction(g)
    BY <1>4 DEF buyInsOf
  <2>3. \A x \in started : f[x] \in Int /\ g[x] = f[x]
    BY <1>3, <1>4, <1>11 DEF MatchesInv, PlayedMatch
  <2>4. g[id] = stake
    BY <1>1, <1>3
  <2>5. DOMAIN f = started /\ DOMAIN g = started \cup {id}
    OBVIOUS
  <2> HIDE DEF f, g
  <2>6. SumFunction(g) = SumFunction(f) + g[id]
    BY <1>4, <1>11, <2>3, <2>4, <2>5, SumWithOneMore
  <2>7. QED BY <2>1, <2>2, <2>4, <2>6
<1>14. ASSUME NEW p \in Players
       PROVE  token'.balance[p] + stakesOf(started, p)' =
                InitialBalance + prizesOf(paid, p)'
                + (IF p \in Developers THEN claimMinted'[p] ELSE 0)
  <2>1. /\ token.balance[p] \in Nat
        /\ token'.balance[p] = token.balance[p] - (IF p = p1 THEN stake ELSE 0)
                                                - (IF p = p2 THEN stake ELSE 0)
    BY <1>6 DEF Accounts, SettlementInv, LedgerInv, Token!Ledger
  <2>2. stakeOf(new, p) = (IF p = p1 THEN stake ELSE 0) + (IF p = p2 THEN stake ELSE 0)
    BY <1>1 DEF stakeOf
  <2>3. token'.balance[p] = token.balance[p] - stakeOf(new, p)
    BY <2>1, <2>2
  <2>4. token'.balance[p] + stakesOf(started, p)'
          = token.balance[p] + stakesOf(started, p)
    BY <1>12, <2>1, <2>3
  <2>5. token.balance[p] + stakesOf(started, p) =
          InitialBalance + prizesOf(paid, p)
          + (IF p \in Developers THEN claimMinted[p] ELSE 0)
    BY DEF MoneyInv
  <2>6. QED BY <1>7, <1>9, <2>4, <2>5
<1>15. token'.totalSupply + 2 * buyInsOf(started)' =
         InitialBalance * Cardinality(Players) + SumFunction(claimMinted') + rewardsOf(paid)'
  <2>1. token.totalSupply \in Nat
    BY DEF SettlementInv, LedgerInv, Token!Ledger
  <2>2. token'.totalSupply + 2 * buyInsOf(started)'
          = token.totalSupply + 2 * buyInsOf(started)
    BY <1>6, <1>13, <2>1
  <2>3. token.totalSupply + 2 * buyInsOf(started) =
       InitialBalance * Cardinality(Players) + SumFunction(claimMinted) + rewardsOf(paid)
    BY DEF MoneyInv
  <2>4. QED BY <1>7, <1>9, <2>2, <2>3
<1>16. MoneyInv(paid)'
  <2>1. paid \subseteq {x \in MatchIds : isGameOver(x)'}
    BY <1>8 DEF MoneyInv, isGameOver
  <2>2. paid # {} => registered(matchController)'
    BY <1>7 DEF MoneyInv
  <2>3. QED BY <1>14, <1>15, <2>1, <2>2 DEF MoneyInv
<1>17. QED BY <1>1, <1>3, <1>4, <1>5, <1>7, <1>10, <1>16

\* A step of no contract that holds money.
LEMMA ProtocolStands ==
  ASSUME SettlementInv, UNCHANGED protocolVars
  PROVE  /\ SettlementInv' /\ RatesKept /\ token' = token
         /\ claimMinted' = claimMinted /\ owed' = owed
         /\ registered(matchController)' = registered(matchController)
<1>1. /\ UNCHANGED <<catalogVars, registryVars, rewardsVars>> /\ token' = token
  BY DEF protocolVars
<1>2. CatalogInv' /\ controllerModuleIds' = controllerModuleIds /\ RatesKept
  BY <1>1, SameCatalog DEF SettlementInv, RatesKept
<1>3. RegistryInv'
  BY <1>1, SameRegistry DEF SettlementInv
<1>4. RewardsInv' /\ claimMinted' = claimMinted /\ epochAccrual' = epochAccrual
  BY <1>1, SameRewards DEF SettlementInv
<1>5. LedgerInv(token)'
  BY <1>1 DEF SettlementInv, LedgerInv, Token!SupplyHeld, Token!Ledger
<1>6. QED BY <1>1, <1>2, <1>3, <1>4, <1>5 DEF SettlementInv, owed, registered

\* Nor one of no match.
LEMMA MoneyStands ==
  ASSUME SettlementInv, MatchesInv, NEW paid, MoneyInv(paid),
         UNCHANGED <<protocolVars, matches>>
  PROVE  /\ SettlementInv' /\ MatchesInv' /\ MoneyInv(paid)' /\ started' = started
         /\ CreditsNobody(paid)
<1>1. /\ SettlementInv' /\ RatesKept /\ token' = token
      /\ claimMinted' = claimMinted /\ owed' = owed
      /\ registered(matchController)' = registered(matchController)
  BY ProtocolStands
<1>2. MatchesInv' /\ started' = started /\ paid \in SUBSET MatchIds
      /\ \A id \in paid : matches'[id] = matches[id]
  BY DEF MatchesInv, started, MoneyInv
<1>3. /\ \A p : stakesOf(started, p)' = stakesOf(started, p)
      /\ buyInsOf(started)' = buyInsOf(started)
  BY <1>2 DEF stakesOf, buyInsOf
<1>4. /\ \A p : prizesOf(paid, p)' = prizesOf(paid, p)
      /\ rewardsOf(paid)' = rewardsOf(paid)
  BY <1>2, PaidSumsKept
<1>5. CreditsNobody(paid)
  BY <1>1, <1>2 DEF CreditsNobody
<1>6. paid \subseteq {id \in MatchIds : isGameOver(id)'}
  BY <1>2 DEF MoneyInv, isGameOver
<1>7. QED BY <1>1, <1>2, <1>3, <1>4, <1>5, <1>6 DEF MoneyInv

\* Playing a match to its end moves nothing.
LEMMA EndKeepsMoney ==
  ASSUME SettlementInv, MatchesInv, NEW paid, MoneyInv(paid),
         NEW id \in MatchIds, NEW winner \in {1, 2, Tie}, completeMatch(id, winner),
         UNCHANGED protocolVars
  PROVE  /\ SettlementInv' /\ MatchesInv' /\ MoneyInv(paid)' /\ CreditsNobody(paid)
         /\ started' = started /\ ~isGameOver(id)
         /\ \A x \in MatchIds : /\ matches'[x].players = matches[x].players
                                /\ matches'[x].buyIn = matches[x].buyIn
                                /\ matches'[x].reward = matches[x].reward
         /\ \A another \in MatchIds \ {id} : matches'[another] = matches[another]
<1>1. /\ SettlementInv' /\ RatesKept /\ token' = token
      /\ claimMinted' = claimMinted /\ owed' = owed
      /\ registered(matchController)' = registered(matchController)
  BY ProtocolStands
<1> DEFINE played == [matches[id] EXCEPT !.state = "Completed", !.winner = winner]
<1>2. /\ matches[id].state = "Active" /\ matches[id] \in PlayedMatch
      /\ matches' = [matches EXCEPT ![id] = played]
  BY DEF completeMatch, MatchesInv
<1>3. /\ played \in PlayedMatch /\ played.state = "Completed"
      /\ played.players = matches[id].players
      /\ played.buyIn = matches[id].buyIn /\ played.reward = matches[id].reward
  BY <1>2 DEF PlayedMatch
<1> HIDE DEF played
<1>4. /\ matches' \in [MatchIds -> PlayedMatch] /\ matches'[id] = played
      /\ \A another \in MatchIds \ {id} : matches'[another] = matches[another]
      /\ \A x \in MatchIds : /\ matches'[x].players = matches[x].players
                             /\ matches'[x].buyIn = matches[x].buyIn
                             /\ matches'[x].reward = matches[x].reward
  BY <1>2, <1>3 DEF MatchesInv
<1>5. started' = started /\ ~isGameOver(id)
  BY <1>2, <1>3, <1>4 DEF started, isGameOver
<1>6. MatchesInv'
  BY <1>4, <1>5 DEF MatchesInv, started
<1>7. paid \in SUBSET MatchIds /\ \A another \in paid : matches'[another] = matches[another]
  BY <1>4, <1>5 DEF MoneyInv
<1>8. /\ \A p : prizesOf(paid, p)' = prizesOf(paid, p)
      /\ rewardsOf(paid)' = rewardsOf(paid)
  BY <1>7, PaidSumsKept
<1>9. CreditsNobody(paid)
  BY <1>1, <1>7 DEF CreditsNobody
<1>10. /\ \A p : stakesOf(started, p)' = stakesOf(started, p)
       /\ buyInsOf(started)' = buyInsOf(started)
  <2>1. started \subseteq MatchIds
    BY DEF started
  <2>2. ASSUME NEW p PROVE stakesOf(started, p)' = stakesOf(started, p)
    <3>1. [x \in started |->
             matches'[x].buyIn * Cardinality({i \in {1, 2} : matches'[x].players[i] = p})]
            = [x \in started |->
                 matches[x].buyIn * Cardinality({i \in {1, 2} : matches[x].players[i] = p})]
      BY <1>4, <2>1
    <3>2. QED BY <1>5, <3>1 DEF stakesOf
  <2>3. [x \in started |-> matches'[x].buyIn] = [x \in started |-> matches[x].buyIn]
    BY <1>4, <2>1
  <2>4. QED BY <1>5, <2>2, <2>3 DEF buyInsOf
<1>11. MoneyInv(paid)'
  <2>1. paid \subseteq {x \in MatchIds : isGameOver(x)'}
    BY <1>7 DEF MoneyInv, isGameOver
  <2>2. paid # {} => registered(matchController)'
    BY <1>1 DEF MoneyInv
  <2>3. QED BY <1>1, <1>8, <1>10, <2>1, <2>2 DEF MoneyInv
<1>12. QED BY <1>1, <1>4, <1>5, <1>6, <1>9, <1>11

\* Paying a match pays its pool, and credits the activity the controller names.
LEMMA PayKeepsMoney ==
  ASSUME SettlementInv, MatchesInv, NEW paid, MoneyInv(paid),
         NEW id \in MatchIds, id \notin paid, NEW x,
         NEW pool \in Nat, NEW stake \in Nat, payMatch(id, x, pool, stake),
         UNCHANGED <<catalogVars, registryVars, matches>>
  PROVE  /\ SettlementInv' /\ MatchesInv' /\ MoneyInv(paid \cup {id})'
         /\ isGameOver(id) /\ started' = started /\ IsFiniteSet(paid)
         /\ registered(matchController) /\ RatesKept
         /\ owed' = owed + developerAccrual(matchController, pool + stake * 2)
<1> DEFINE activity == pool + stake * 2
           payouts == matchPayouts(id)
           more == paid \cup {id}
<1>1. /\ isGameOver(id) /\ token' = mintPlayerRewards(token, payouts)
      /\ accrueDeveloperForExpression(matchController, x, activity)
  BY DEF payMatch
<1>2. /\ id \in started /\ matches[id] \in PlayedMatch
      /\ matches[id].players \in Players \X Players
      /\ matches[id].reward \in Nat /\ matches[id].buyIn \in Nat
  BY <1>1 DEF isGameOver, started, MatchesInv, PlayedMatch
<1>3. activity \in Nat
  OBVIOUS
<1>4. payouts \in [Accounts -> Nat] /\ SumFunction(payouts) = matches[id].reward
  BY <1>2, PayoutsAreReward DEF matchPayouts
<1>5. \A p : outcomePayout(matches[id], p) \in Nat
  BY <1>2, PayoutIsShares
<1>6. \A p \in Accounts : payouts[p] = outcomePayout(matches[id], p)
  BY DEF matchPayouts
<1> HIDE DEF activity, payouts
<1>7. /\ LedgerInv(token')
      /\ token'.balance = [a \in Accounts |-> token.balance[a] + payouts[a]]
      /\ token'.totalSupply = token.totalSupply + matches[id].reward
  BY <1>1, <1>4, RewardsKeepLedger DEF SettlementInv
<1> DEFINE credit == developerAccrual(matchController, activity)
<1>8. /\ RewardsInv' /\ registered(matchController)
      /\ credit \in Nat /\ claimMinted' = claimMinted
      /\ owed \in Int /\ owed' = owed + credit
  BY <1>1, <1>3, MatchesAssumption, AccrualKeepsRewards
<1>9. /\ SettlementInv' /\ RatesKept
      /\ registered(matchController)' = registered(matchController)
  <2>1. CatalogInv' /\ controllerModuleIds' = controllerModuleIds /\ RatesKept
    BY SameCatalog DEF SettlementInv, RatesKept
  <2>2. RegistryInv'
    BY SameRegistry DEF SettlementInv
  <2>3. LedgerInv(token)'
    BY <1>7 DEF LedgerInv, Token!SupplyHeld, Token!Ledger
  <2>4. QED BY <1>8, <2>1, <2>2, <2>3 DEF SettlementInv, registered
<1>10. /\ MatchesInv' /\ started' = started
       /\ \A another \in MatchIds : matches'[another] = matches[another]
  BY DEF MatchesInv, started
<1>11. /\ paid \in SUBSET MatchIds /\ more \in SUBSET MatchIds
       /\ IsFiniteSet(paid) /\ IsFiniteSet(more)
       /\ \A another \in more : matches[another] \in PlayedMatch
       /\ \A another \in paid : matches[another] \in PlayedMatch
  <2>1. paid \in SUBSET MatchIds /\ more \in SUBSET MatchIds
    BY DEF MoneyInv
  <2>2. IsFiniteSet(paid) /\ IsFiniteSet(more)
    BY <2>1, MatchSums
  <2>3. QED BY <2>1, <2>2 DEF MatchesInv
<1>12. /\ \A p : prizesOf(more, p)' = prizesOf(more, p)
       /\ rewardsOf(more)' = rewardsOf(more)
  BY <1>10, <1>11, PaidSumsKept
<1>14. ASSUME NEW p \in Players
       PROVE  /\ prizesOf(more, p) = prizesOf(paid, p) + outcomePayout(matches[id], p)
              /\ prizesOf(paid, p) \in Nat
  <2> DEFINE f == [y \in paid |-> outcomePayout(matches[y], p)]
             g == [y \in more |-> outcomePayout(matches[y], p)]
  <2>1. prizesOf(paid, p) = SumFunction(f) /\ prizesOf(paid, p) \in Nat
        /\ prizesOf(more, p) = SumFunction(g)
    BY <1>11, MatchSums DEF prizesOf
  <2>2. \A y \in paid : outcomePayout(matches[y], p) \in Nat
    BY <1>11, PayoutIsShares
  <2>3. \A y \in paid : f[y] \in Int /\ g[y] = f[y]
    BY <2>2
  <2>4. g[id] = outcomePayout(matches[id], p) /\ g[id] \in Int
    BY <1>5
  <2>5. DOMAIN f = paid /\ DOMAIN g = paid \cup {id}
    OBVIOUS
  <2> HIDE DEF f, g
  <2>6. SumFunction(g) = SumFunction(f) + g[id]
    BY <1>11, <2>3, <2>4, <2>5, SumWithOneMore
  <2>7. QED BY <2>1, <2>4, <2>6
<1>15. rewardsOf(more) = rewardsOf(paid) + matches[id].reward /\ rewardsOf(paid) \in Nat
  <2> DEFINE f == [y \in paid |-> matches[y].reward]
             g == [y \in more |-> matches[y].reward]
  <2>1. rewardsOf(paid) = SumFunction(f) /\ rewardsOf(paid) \in Nat
        /\ rewardsOf(more) = SumFunction(g)
    BY <1>11, MatchSums DEF rewardsOf
  <2>3. \A y \in paid : f[y] \in Int /\ g[y] = f[y]
    BY <1>11 DEF PlayedMatch
  <2>4. g[id] = matches[id].reward /\ g[id] \in Int
    BY <1>2
  <2>5. DOMAIN f = paid /\ DOMAIN g = paid \cup {id}
    OBVIOUS
  <2> HIDE DEF f, g
  <2>6. SumFunction(g) = SumFunction(f) + g[id]
    BY <1>11, <2>3, <2>4, <2>5, SumWithOneMore
  <2>7. QED BY <2>1, <2>4, <2>6
<1>17. /\ \A p : stakesOf(started, p)' = stakesOf(started, p)
       /\ buyInsOf(started)' = buyInsOf(started)
  BY <1>10 DEF stakesOf, buyInsOf
<1> HIDE DEF credit, more
<1>18. ASSUME NEW p \in Players
       PROVE  token'.balance[p] + stakesOf(started, p)' =
                InitialBalance + prizesOf(more, p)'
                + (IF p \in Developers THEN claimMinted'[p] ELSE 0)
  <2> DEFINE claims == IF p \in Developers THEN claimMinted[p] ELSE 0
  <2>1. /\ token.balance[p] \in Nat /\ payouts[p] = outcomePayout(matches[id], p)
        /\ token'.balance[p] = token.balance[p] + outcomePayout(matches[id], p)
    BY <1>6, <1>7 DEF Accounts, SettlementInv, LedgerInv, Token!Ledger
  <2>2. stakesOf(started, p) \in Nat /\ InitialBalance \in Nat /\ claims \in Nat
    <3>1. stakesOf(started, p) \in Nat
      BY MatchSums DEF started
    <3>2. QED BY <3>1, InitialSupply DEF SettlementInv, RewardsInv, RewardsTypeOK
  <2>3. token.balance[p] + stakesOf(started, p) = InitialBalance + prizesOf(paid, p) + claims
    BY DEF MoneyInv
  <2>4. (IF p \in Developers THEN claimMinted'[p] ELSE 0) = claims
    BY <1>8
  <2> HIDE DEF claims
  <2>5. QED BY <1>5, <1>12, <1>14, <1>17, <2>1, <2>2, <2>3, <2>4
<1>19. token'.totalSupply + 2 * buyInsOf(started)' =
         InitialBalance * Cardinality(Players) + SumFunction(claimMinted') + rewardsOf(more)'
  <2> DEFINE base == InitialBalance * Cardinality(Players)
             claims == SumFunction(claimMinted)
  <2>1. token.totalSupply \in Nat /\ base \in Nat /\ claims \in Nat
    BY InitialSupply, ClaimsSum DEF SettlementInv, LedgerInv, Token!Ledger, RewardsInv,
       RewardsTypeOK
  <2>2. buyInsOf(started) \in Nat
    BY MatchSums DEF started
  <2>3. token.totalSupply + 2 * buyInsOf(started) = base + claims + rewardsOf(paid)
    BY DEF MoneyInv
  <2>4. SumFunction(claimMinted') = claims
    BY <1>8
  <2> HIDE DEF base, claims
  <2>5. token'.totalSupply + 2 * buyInsOf(started)' = base + claims + rewardsOf(more)'
    BY <1>2, <1>7, <1>12, <1>15, <1>17, <2>1, <2>2, <2>3
  <2>6. QED BY <2>4, <2>5 DEF base
<1>20. MoneyInv(more)'
  <2>1. more \subseteq {y \in MatchIds : isGameOver(y)'}
    BY <1>1, <1>10, <1>11 DEF MoneyInv, isGameOver, more
  <2>2. registered(matchController)'
    BY <1>8, <1>9
  <2>3. QED BY <1>18, <1>19, <2>1, <2>2 DEF MoneyInv
<1>21. QED BY <1>1, <1>8, <1>9, <1>10, <1>11, <1>20 DEF more, credit, activity

-----------------------------------------------------------------------------
(* One-off sessions.                                                       *)

\* A match is started under the number of a session, and as it says.
SessionsInv ==
  /\ nextSessionId \in 1..(MaxMatches + 1)
  /\ sessions \in [MatchIds -> [active: BOOLEAN, stake: Nat, rewardPool: Nat,
                                expressionTokenId: Nat]]
  /\ sessionSettled \in [MatchIds -> BOOLEAN]
  /\ \A id \in MatchIds : id \in started <=> id < nextSessionId
  /\ \A id \in MatchIds : sessions[id].active <=> id < nextSessionId
  /\ \A id \in started : /\ sessions[id].stake = matches[id].buyIn
                         /\ sessions[id].rewardPool = matches[id].reward

\* Developers are credited for what was burned and paid.
PvPInv ==
  /\ SettlementInv /\ MatchesInv /\ SessionsInv /\ MoneyInv(settledSessions)
  /\ owed = accrualOf(settledSessions)

\* What a session accrues, as a credit of so much activity.
LEMMA AccrualIsCredit ==
  ASSUME NEW ids, NEW activity,
         \A id \in ids : activity[id] = matches[id].reward + 2 * matches[id].buyIn
  PROVE  accrualOf(ids) = creditsOf(ids, activity)
<1>1. [id \in ids |-> developerAccrual(matchController,
                        matches[id].reward + 2 * matches[id].buyIn)]
        = [id \in ids |-> developerAccrual(matchController, activity[id])]
  OBVIOUS
<1>2. QED BY <1>1 DEF accrualOf, creditsOf

LEMMA AccrualKept ==
  ASSUME NEW paid, MoneyInv(paid), owed = accrualOf(paid), CreditsNobody(paid)
  PROVE  owed' = accrualOf(paid)'
<1> PICK activity :
      activity = [id \in paid |-> matches[id].reward + 2 * matches[id].buyIn]
  OBVIOUS
<1>1. accrualOf(paid) = creditsOf(paid, activity)
  BY AccrualIsCredit
<1>2. creditsOf(paid, activity)' = creditsOf(paid, activity)
  BY CreditSumKept DEF MoneyInv, CreditsNobody
<1>3. accrualOf(paid)' = creditsOf(paid, activity)'
  <2>1. [id \in paid |-> developerAccrual(matchController,
                           matches[id].reward + 2 * matches[id].buyIn)']
          = [id \in paid |-> developerAccrual(matchController, activity[id])']
    BY DEF CreditsNobody, developerAccrual
  <2>2. QED BY <2>1 DEF accrualOf, creditsOf
<1>4. QED BY <1>1, <1>2, <1>3 DEF CreditsNobody

\* What a step does to the record of the sessions.
SessionStep ==
  \A id \in started :
    /\ sessions'[id] = sessions[id]
    /\ matches'[id].players = matches[id].players
    /\ isGameOver(id) => matches'[id] = matches[id]
    /\ sessionSettled[id] => sessionSettled'[id]
    /\ sessionSettled'[id] => isGameOver(id)

LEMMA InitPvPInv == PvPInit => PvPInv
<1> SUFFICES ASSUME PvPInit PROVE PvPInv
  OBVIOUS
<1>1. SettlementInv /\ MatchesInv /\ started = {} /\ MoneyInv({}) /\ owed = 0
  BY InitMoney DEF PvPInit
<1>2. SessionsInv
  BY <1>1, MatchesAssumption DEF PvPInit, SessionsInv, NoSession, MatchIds
<1>3. settledSessions = {}
  BY DEF PvPInit, settledSessions
<1>4. accrualOf({}) = 0
  <2>1. ASSUME NEW f, DOMAIN f = {} PROVE SumFunction(f) = 0
    BY <2>1, SumOfNothing DEF SumFunction
  <2>2. QED BY <2>1 DEF accrualOf
<1>5. QED BY <1>1, <1>2, <1>3, <1>4 DEF PvPInv

\* Sessions and matches that no step touches.
LEMMA SessionsKept ==
  ASSUME SessionsInv, NEW paid, MoneyInv(paid), paid = settledSessions,
         started' = started, UNCHANGED sessionVars,
         \A id \in started : /\ matches'[id].players = matches[id].players
                             /\ matches'[id].buyIn = matches[id].buyIn
                             /\ matches'[id].reward = matches[id].reward
                             /\ isGameOver(id) => matches'[id] = matches[id]
  PROVE  /\ SessionsInv' /\ settledSessions' = settledSessions /\ SessionStep
<1>1. SessionsInv'
  BY DEF SessionsInv, sessionVars
<1>2. settledSessions' = settledSessions
  BY DEF settledSessions, sessionVars
<1>3. SessionStep
  <2>1. \A id \in settledSessions : isGameOver(id)
    BY DEF MoneyInv
  <2>2. UNCHANGED <<sessions, sessionSettled>>
    BY DEF sessionVars
  <2>3. \A id \in started : id \in MatchIds
    BY DEF started
  <2>4. QED BY <2>1, <2>2, <2>3 DEF SessionStep, settledSessions
<1>4. QED BY <1>1, <1>2, <1>3

LEMMA SessionCreated ==
  ASSUME PvPInv, NEW p1 \in Players, NEW p2 \in Players, NEW stake \in Stakes,
         NEW rewardPool \in Prizes, NEW x \in 1..MaxExpressions,
         createSession(p1, p2, stake, rewardPool, x)
  PROVE  PvPInv' /\ SessionStep
<1> PICK paid : paid = settledSessions
  OBVIOUS
<1> PICK id : id = nextSessionId
  OBVIOUS
<1>1. id \in MatchIds /\ stake \in Nat /\ rewardPool \in Nat /\ x \in Nat
  BY MatchesAssumption DEF createSession, PvPInv, SessionsInv, MatchIds
<1>2. /\ canBurnStakes(p1, p2, stake) /\ token' = burnStakes(token, p1, p2, stake)
      /\ initializeMatch(id, p1, p2, stake, rewardPool)
      /\ UNCHANGED <<catalogVars, registryVars, rewardsVars>>
      /\ nextSessionId' = id + 1 /\ sessionSettled' = sessionSettled
      /\ sessions' = [sessions EXCEPT ![id] =
           [active |-> TRUE, stake |-> stake, rewardPool |-> rewardPool,
            expressionTokenId |-> x]]
  BY DEF createSession
<1>3. /\ SettlementInv' /\ MatchesInv' /\ MoneyInv(paid)' /\ CreditsNobody(paid)
      /\ id \notin started /\ started' = started \cup {id}
      /\ matches'[id].buyIn = stake /\ matches'[id].reward = rewardPool
      /\ \A another \in MatchIds \ {id} : matches'[another] = matches[another]
      /\ ~isGameOver(id)
  BY <1>1, <1>2, StartKeepsMoney DEF PvPInv
<1>4. settledSessions' = paid
  BY <1>2 DEF settledSessions
<1>5. /\ started \subseteq MatchIds
      /\ sessions'[id] = [active |-> TRUE, stake |-> stake, rewardPool |-> rewardPool,
                          expressionTokenId |-> x]
      /\ \A another \in MatchIds \ {id} : sessions'[another] = sessions[another]
  BY <1>1, <1>2 DEF started, PvPInv, SessionsInv
<1>6. SessionsInv'
  <2>1. nextSessionId' \in 1..(MaxMatches + 1)
    BY <1>1, <1>2, MatchesAssumption DEF MatchIds
  <2>2. /\ sessions' \in [MatchIds -> [active: BOOLEAN, stake: Nat, rewardPool: Nat,
                                       expressionTokenId: Nat]]
        /\ sessionSettled' \in [MatchIds -> BOOLEAN]
    BY <1>1, <1>2 DEF PvPInv, SessionsInv
  <2>3. ASSUME NEW another \in MatchIds
        PROVE  /\ another \in started' <=> another < nextSessionId'
               /\ sessions'[another].active <=> another < nextSessionId'
    <3>1. /\ another \in started <=> another < id
          /\ sessions[another].active <=> another < id
      BY DEF PvPInv, SessionsInv
    <3>2. another \in Int /\ id \in Int /\ nextSessionId' = id + 1
      BY <1>1, <1>2 DEF MatchIds
    <3>3. CASE another = id
      BY <1>3, <1>5, <3>2, <3>3
    <3>4. CASE another # id
      BY <1>3, <1>5, <3>1, <3>2, <3>4
    <3>5. QED BY <3>3, <3>4
  <2>4. ASSUME NEW another \in started'
        PROVE  /\ sessions'[another].stake = matches'[another].buyIn
               /\ sessions'[another].rewardPool = matches'[another].reward
    <3>1. CASE another = id
      BY <1>3, <1>5, <3>1
    <3>2. CASE another # id
      BY <1>3, <1>5, <3>2 DEF PvPInv, SessionsInv
    <3>3. QED BY <3>1, <3>2
  <2>5. QED BY <2>1, <2>2, <2>3, <2>4 DEF SessionsInv
<1>7. SessionStep
  <2>1. \A another \in settledSessions : isGameOver(another)
    BY DEF PvPInv, MoneyInv
  <2>2. QED BY <1>2, <1>3, <1>5, <2>1 DEF SessionStep, settledSessions
<1>8. owed' = accrualOf(paid)'
  BY <1>3, AccrualKept DEF PvPInv
<1>9. QED BY <1>3, <1>4, <1>6, <1>7, <1>8 DEF PvPInv

LEMMA SessionPaid ==
  ASSUME PvPInv, NEW id \in MatchIds, settleSession(id)
  PROVE  PvPInv' /\ SessionStep
<1> PICK paid : paid = settledSessions
  OBVIOUS
<1>1. /\ ~sessionSettled[id] /\ sessions[id].active
      /\ payMatch(id, sessions[id].expressionTokenId, sessions[id].rewardPool,
                  sessions[id].stake)
      /\ sessionSettled' = [sessionSettled EXCEPT ![id] = TRUE]
      /\ UNCHANGED <<catalogVars, registryVars, matches>>
      /\ UNCHANGED <<nextSessionId, sessions>>
  BY DEF settleSession
<1>2. /\ id \in started
      /\ sessions[id].stake = matches[id].buyIn
      /\ sessions[id].rewardPool = matches[id].reward
  BY <1>1 DEF PvPInv, SessionsInv
<1>3. /\ payMatch(id, sessions[id].expressionTokenId, matches[id].reward, matches[id].buyIn)
      /\ \A x \in MatchIds : matches[x].reward \in Nat /\ matches[x].buyIn \in Nat
  BY <1>1, <1>2 DEF PvPInv, MatchesInv, PlayedMatch
<1>4. id \notin paid
  BY <1>1 DEF settledSessions
<1>5. /\ SettlementInv' /\ MatchesInv' /\ MoneyInv(paid \cup {id})'
      /\ isGameOver(id) /\ started' = started /\ IsFiniteSet(paid)
      /\ registered(matchController) /\ RatesKept
      /\ owed' = owed + developerAccrual(matchController,
                                         matches[id].reward + matches[id].buyIn * 2)
  BY <1>1, <1>3, <1>4, PayKeepsMoney DEF PvPInv
<1>6. /\ settledSessions' = paid \cup {id}
      /\ sessionSettled' \in [MatchIds -> BOOLEAN]
      /\ \A another \in MatchIds \ {id} : sessionSettled'[another] = sessionSettled[another]
  BY <1>1 DEF settledSessions, PvPInv, SessionsInv
<1>7. SessionsInv'
  BY <1>1, <1>5, <1>6 DEF PvPInv, SessionsInv
<1>8. SessionStep
  <2>1. \A another \in settledSessions : isGameOver(another)
    BY DEF PvPInv, MoneyInv
  <2>2. \A another \in started : another \in MatchIds
    BY DEF started
  <2>3. QED BY <1>1, <1>5, <1>6, <2>1, <2>2 DEF SessionStep, settledSessions
<1>9. owed' = accrualOf(paid \cup {id})'
  <2> PICK activity :
        activity = [x \in MatchIds |-> matches[x].reward + 2 * matches[x].buyIn]
    OBVIOUS
  <2>1. /\ paid \subseteq MatchIds /\ id \in MatchIds
        /\ \A x \in MatchIds : activity[x] \in Nat
        /\ \A x \in paid \cup {id} :
             activity[x] = matches[x].reward + 2 * matches[x].buyIn
        /\ activity[id] = matches[id].reward + matches[id].buyIn * 2
    BY <1>3 DEF settledSessions
  <2>2. /\ owed = creditsOf(paid, activity)
        /\ accrualOf(paid \cup {id}) = creditsOf(paid \cup {id}, activity)
    BY <2>1, AccrualIsCredit DEF PvPInv
  <2>3. creditsOf(paid \cup {id}, activity)
          = creditsOf(paid, activity) + developerAccrual(matchController, activity[id])
    BY <1>4, <1>5, <2>1, CreditsWithOneMore DEF PvPInv
  <2>4. creditsOf(paid \cup {id}, activity)' = creditsOf(paid \cup {id}, activity)
    BY <1>5, CreditSumKept
  <2>5. accrualOf(paid \cup {id})' = creditsOf(paid \cup {id}, activity)'
    <3>1. [x \in paid \cup {id} |-> developerAccrual(matchController,
                             matches[x].reward + 2 * matches[x].buyIn)']
            = [x \in paid \cup {id} |-> developerAccrual(matchController, activity[x])']
      BY <1>1, <2>1 DEF developerAccrual
    <3>2. QED BY <3>1 DEF accrualOf, creditsOf
  <2>6. QED BY <1>5, <2>1, <2>2, <2>3, <2>4, <2>5
<1>10. QED BY <1>5, <1>6, <1>7, <1>8, <1>9 DEF PvPInv

LEMMA SessionPlayed ==
  ASSUME PvPInv, NEW id \in MatchIds, SessionEnds(id)
  PROVE  PvPInv' /\ SessionStep
<1> PICK paid : paid = settledSessions
  OBVIOUS
<1>1. PICK winner \in {1, 2, Tie} : completeMatch(id, winner)
  BY DEF SessionEnds
<1>2. UNCHANGED protocolVars /\ UNCHANGED sessionVars
  BY DEF SessionEnds
<1>3. /\ SettlementInv' /\ MatchesInv' /\ MoneyInv(paid)' /\ CreditsNobody(paid)
      /\ started' = started /\ ~isGameOver(id)
      /\ \A x \in MatchIds : /\ matches'[x].players = matches[x].players
                             /\ matches'[x].buyIn = matches[x].buyIn
                             /\ matches'[x].reward = matches[x].reward
      /\ \A another \in MatchIds \ {id} : matches'[another] = matches[another]
  BY <1>1, <1>2, EndKeepsMoney DEF PvPInv
<1>4. \A x \in started : x \in MatchIds
  BY DEF started
<1>5. SessionsInv' /\ settledSessions' = settledSessions /\ SessionStep
  BY <1>2, <1>3, <1>4, SessionsKept DEF PvPInv
<1>6. owed' = accrualOf(paid)'
  BY <1>3, AccrualKept DEF PvPInv
<1>7. QED BY <1>3, <1>5, <1>6 DEF PvPInv

LEMMA StepPvPInv == PvPInv /\ [PvPNext]_pvpVars => PvPInv' /\ [SessionStep]_pvpVars
<1> SUFFICES ASSUME PvPInv, [PvPNext]_pvpVars
             PROVE  PvPInv' /\ [SessionStep]_pvpVars
  OBVIOUS
<1> PICK paid : paid = settledSessions
  OBVIOUS
<1>1. ASSUME NEW p1 \in Players, NEW p2 \in Players, NEW stake \in Stakes,
             NEW rewardPool \in Prizes, NEW x \in 1..MaxExpressions,
             createSession(p1, p2, stake, rewardPool, x)
      PROVE  PvPInv' /\ SessionStep
  BY <1>1, SessionCreated
<1>2. ASSUME NEW id \in MatchIds, settleSession(id)
      PROVE  PvPInv' /\ SessionStep
  BY <1>2, SessionPaid
<1>3. ASSUME NEW id \in MatchIds, SessionEnds(id)
      PROVE  PvPInv' /\ SessionStep
  BY <1>3, SessionPlayed
<1>4. CASE ProtocolNext /\ UNCHANGED <<matches, sessionVars>>
  <2>1. SettlementInv' /\ MatchesInv' /\ MoneyInv(paid)' /\ CreditsNobody(paid)
    BY <1>4, OutsideKeepsMoney DEF PvPInv
  <2>2. started' = started
    BY <1>4 DEF started
  <2>3. SessionsInv' /\ settledSessions' = settledSessions /\ SessionStep
    BY <1>4, <2>2, SessionsKept DEF PvPInv
  <2>4. owed' = accrualOf(paid)'
    BY <2>1, AccrualKept DEF PvPInv
  <2>5. QED BY <2>1, <2>3, <2>4 DEF PvPInv
<1>5. CASE UNCHANGED pvpVars
  <2>1. UNCHANGED <<protocolVars, matches, sessionVars>>
    BY <1>5 DEF pvpVars
  <2>2. /\ SettlementInv' /\ MatchesInv' /\ MoneyInv(paid)' /\ started' = started
        /\ CreditsNobody(paid)
    BY <2>1, MoneyStands DEF PvPInv
  <2>3. SessionsInv' /\ settledSessions' = settledSessions
    BY <2>1, <2>2, SessionsKept DEF PvPInv
  <2>4. owed' = accrualOf(paid)'
    BY <2>2, AccrualKept DEF PvPInv
  <2>5. PvPInv'
    BY <2>2, <2>3, <2>4 DEF PvPInv
  <2>6. QED BY <1>5, <2>5
<1>6. QED BY <1>1, <1>2, <1>3, <1>4, <1>5 DEF PvPNext

LEMMA PvPInvariant == PvPSpec => []PvPInv
<1>1. PvPInv /\ [PvPNext]_pvpVars => PvPInv'
  BY StepPvPInv
<1>2. QED BY <1>1, InitPvPInv, PTL DEF PvPSpec

\* Whatever governance, expressions, epochs and other sessions do, the balances,
\* the supply and the developers' accruals of PvPController are those of the
\* sessions created and of each session settled, once.
THEOREM SessionsPaidOnce == PvPSpec => []SessionsExplained
<1>1. PvPInv => SessionsExplained
  BY DEF PvPInv, MoneyInv, SessionsExplained, explainedBy, SettlementInv, LedgerInv,
     accrued, owed
<1>2. QED BY <1>1, PvPInvariant, PTL

\* createSession, settleSession and the engine never rewrite a session or a match
\* that has ended, and only the session of an ended match is settled.
THEOREM SessionsAreFinal == PvPSpec => SessionsFinal
<1>1. PvPInv /\ [PvPNext]_pvpVars => [SessionStep]_pvpVars
  BY StepPvPInv
<1>2. QED BY <1>1, PvPInvariant, PTL DEF PvPSpec, SessionsFinal, SessionStep

-----------------------------------------------------------------------------
(* Tournaments.                                                            *)

Tournament == [active: BOOLEAN, entryFee: Nat, rewardPool: Nat,
               expressionTokenId: Nat]

\* The fee and the pool of a tournament are 0 until it is created, and then its
\* own for good: only its flag is ever rewritten.
GamesInv ==
  /\ nextTournamentId \in 1..(MaxTournaments + 1)
  /\ nextGameId \in 1..(MaxMatches + 1)
  /\ tournaments \in [TournamentIds -> Tournament]
  /\ gameToTournament \in [MatchIds -> TournamentIds]
  /\ gameReported \in [MatchIds -> BOOLEAN]
  /\ \A t \in TournamentIds \ (1..(nextTournamentId - 1)) :
       tournaments[t].entryFee = 0 /\ tournaments[t].rewardPool = 0
  /\ \A id \in MatchIds : id \in started <=> id < nextGameId
  /\ \A id \in started : onTerms(id) \/ forNothing(id)

\* What the terms a game has now are worth to a developer.
activityNow(id) == termsOf(id).rewardPool + termsOf(id).entryFee * 2

\* Developers are credited for the terms a reported game has now, or for nothing
\* if it was played for nothing.
CreditedFor(paid, activity) ==
  /\ activity \in [MatchIds -> Nat]
  /\ owed = creditsOf(paid, activity)
  /\ \A id \in paid : \/ activity[id] = activityNow(id)
                      \/ activity[id] = 0 /\ forNothing(id)

CreditsInv == \E activity : CreditedFor(reportedGames, activity)

TournamentInv ==
  SettlementInv /\ MatchesInv /\ GamesInv /\ MoneyInv(reportedGames) /\ CreditsInv

LEMMA InitTournamentInv == TournamentInit => TournamentInv
<1> SUFFICES ASSUME TournamentInit PROVE TournamentInv
  OBVIOUS
<1>1. /\ SettlementInv /\ MatchesInv /\ started = {} /\ MoneyInv({}) /\ owed = 0
      /\ reportedGames = {}
  BY InitMoney DEF TournamentInit, reportedGames
<1>2. GamesInv
  <2>1. /\ nextTournamentId = 1 /\ nextGameId = 1
        /\ 1 \in 1..(MaxTournaments + 1) /\ 1 \in 1..(MaxMatches + 1)
        /\ 0 \in TournamentIds
    BY MatchesAssumption, TournamentAssumption DEF TournamentInit, TournamentIds
  <2>2. /\ tournaments \in [TournamentIds -> Tournament]
        /\ \A t \in TournamentIds :
             tournaments[t].entryFee = 0 /\ tournaments[t].rewardPool = 0
        /\ gameToTournament \in [MatchIds -> TournamentIds]
        /\ gameReported \in [MatchIds -> BOOLEAN]
    BY <2>1 DEF TournamentInit, NoTournament, Tournament
  <2>3. \A id \in MatchIds : ~(id < 1)
    BY MatchesAssumption DEF MatchIds
  <2>4. QED BY <1>1, <2>1, <2>2, <2>3 DEF GamesInv
<1>3. CreditsInv
  <2> PICK activity : activity = [id \in MatchIds |-> 0]
    OBVIOUS
  <2>1. creditsOf({}, activity) = 0
    <3>1. ASSUME NEW f, DOMAIN f = {} PROVE SumFunction(f) = 0
      BY <3>1, SumOfNothing DEF SumFunction
    <3>2. QED BY <3>1 DEF creditsOf
  <2>2. CreditedFor({}, activity)
    BY <1>1, <2>1 DEF CreditedFor
  <2>3. QED BY <1>1, <2>2 DEF CreditsInv
<1>4. QED BY <1>1, <1>2, <1>3 DEF TournamentInv

\* Credits of games whose terms no step touches but those of games for nothing.
LEMMA CreditsStand ==
  ASSUME TournamentInv, NEW paid, paid = reportedGames, CreditsNobody(paid),
         reportedGames' = reportedGames,
         \A id \in paid : activityNow(id)' = activityNow(id)
                           \/ (forNothing(id) /\ activityNow(id) = 0)
  PROVE  CreditsInv'
<1> PICK activity : CreditedFor(paid, activity)
  BY DEF TournamentInv, CreditsInv
<1>1. owed' = creditsOf(paid, activity)'
  <2>1. paid # {} => registered(matchController)
    BY DEF TournamentInv, MoneyInv
  <2>2. QED BY <2>1, CreditSumKept DEF CreditsNobody, CreditedFor
<1>2. ASSUME NEW id \in paid
      PROVE  \/ activity[id] = activityNow(id)'
             \/ activity[id] = 0 /\ forNothing(id)'
  BY DEF CreditsNobody, CreditedFor, forNothing
<1>3. CreditedFor(paid, activity)'
  BY <1>1, <1>2 DEF CreditedFor
<1>4. QED BY <1>3 DEF CreditsInv

\* Games and tournaments that no step touches.
LEMMA GamesKept ==
  ASSUME TournamentInv, NEW paid, paid = reportedGames, CreditsNobody(paid),
         started' = started, UNCHANGED gameVars,
         \A id \in started : /\ matches'[id].buyIn = matches[id].buyIn
                             /\ matches'[id].reward = matches[id].reward
  PROVE  GamesInv' /\ CreditsInv' /\ reportedGames' = reportedGames
<1>1. UNCHANGED <<nextTournamentId, nextGameId, tournaments, gameToTournament,
                  gameReported>>
  BY DEF gameVars
<1>2. reportedGames' = reportedGames
  BY <1>1 DEF reportedGames
<1>3. \A id : activityNow(id)' = activityNow(id)
  BY <1>1 DEF activityNow, termsOf
<1>4. GamesInv'
  <2>1. GamesInv
    BY DEF TournamentInv
  <2>2. \A id \in started' : onTerms(id)' \/ forNothing(id)'
    BY <1>1, <2>1 DEF GamesInv, onTerms, forNothing, termsOf
  <2>3. QED BY <1>1, <2>1, <2>2 DEF GamesInv
<1>5. QED BY <1>2, <1>3, <1>4, CreditsStand

\* A tournament more, or the flag of any.
LEMMA TournamentsKept ==
  ASSUME TournamentInv, UNCHANGED <<protocolVars, matches>>,
         UNCHANGED <<nextGameId, gameToTournament, gameReported>>,
         nextTournamentId' \in 1..(MaxTournaments + 1),
         tournaments' \in [TournamentIds -> Tournament],
         \A t \in TournamentIds \ (1..(nextTournamentId' - 1)) :
           tournaments'[t].entryFee = 0 /\ tournaments'[t].rewardPool = 0,
         \A t \in TournamentIds :
           \/ /\ tournaments'[t].entryFee = tournaments[t].entryFee
              /\ tournaments'[t].rewardPool = tournaments[t].rewardPool
           \/ tournaments[t].entryFee = 0 /\ tournaments[t].rewardPool = 0
  PROVE  TournamentInv'
<1> PICK paid : paid = reportedGames
  OBVIOUS
<1>1. /\ SettlementInv' /\ MatchesInv' /\ MoneyInv(paid)' /\ started' = started
      /\ CreditsNobody(paid)
  BY MoneyStands DEF TournamentInv
<1>2. reportedGames' = reportedGames
  BY DEF reportedGames
<1>3. ASSUME NEW id \in started
      PROVE  /\ onTerms(id)' \/ forNothing(id)'
             /\ \/ activityNow(id)' = activityNow(id)
                \/ forNothing(id) /\ activityNow(id) = 0
  <2>1. id \in MatchIds /\ gameToTournament[id] \in TournamentIds
        /\ (onTerms(id) \/ forNothing(id))
    BY DEF started, TournamentInv, GamesInv
  <2>2. CASE /\ termsOf(id)'.entryFee = termsOf(id).entryFee
             /\ termsOf(id)'.rewardPool = termsOf(id).rewardPool
    BY <2>1, <2>2 DEF onTerms, forNothing, activityNow, termsOf
  <2>3. CASE termsOf(id).entryFee = 0 /\ termsOf(id).rewardPool = 0
    BY <2>1, <2>3 DEF onTerms, forNothing, activityNow, termsOf
  <2>4. QED BY <2>1, <2>2, <2>3 DEF termsOf
<1>4. GamesInv'
  <2>1. GamesInv
    BY DEF TournamentInv
  <2>2. QED BY <1>1, <1>3, <2>1 DEF GamesInv
<1>5. CreditsInv'
  <2>1. \A id \in paid : id \in started
    BY DEF TournamentInv, MoneyInv, isGameOver, started
  <2>2. QED BY <1>1, <1>2, <1>3, <2>1, CreditsStand
<1>6. QED BY <1>1, <1>2, <1>4, <1>5 DEF TournamentInv

LEMMA TournamentCreated ==
  ASSUME TournamentInv, NEW entryFee \in Stakes, NEW rewardPool \in Prizes,
         NEW x \in 1..MaxExpressions, createTournament(entryFee, rewardPool, x)
  PROVE  TournamentInv'
<1> PICK next : next = nextTournamentId
  OBVIOUS
<1>1. /\ entryFee \in Nat /\ rewardPool \in Nat /\ x \in Nat
      /\ MaxTournaments \in Nat /\ next \in 1..MaxTournaments
      /\ nextTournamentId' = next + 1
  BY MatchesAssumption, TournamentAssumption DEF createTournament, TournamentInv, GamesInv
<1>2. /\ UNCHANGED <<protocolVars, matches>>
      /\ UNCHANGED <<nextGameId, gameToTournament, gameReported>>
      /\ tournaments' = [tournaments EXCEPT ![next] =
           [active |-> TRUE, entryFee |-> entryFee, rewardPool |-> rewardPool,
            expressionTokenId |-> x]]
  BY DEF createTournament
<1>3. /\ tournaments \in [TournamentIds -> Tournament] /\ next \in TournamentIds
      /\ \A t \in TournamentIds \ (1..(next - 1)) :
           tournaments[t].entryFee = 0 /\ tournaments[t].rewardPool = 0
  BY <1>1 DEF TournamentInv, GamesInv, TournamentIds
<1>4. /\ tournaments' \in [TournamentIds -> Tournament]
      /\ \A t \in TournamentIds \ {next} : tournaments'[t] = tournaments[t]
  BY <1>1, <1>2, <1>3 DEF Tournament
<1>5. nextTournamentId' \in 1..(MaxTournaments + 1)
  BY <1>1
<1>6. ASSUME NEW t \in TournamentIds \ (1..(nextTournamentId' - 1))
      PROVE  tournaments'[t].entryFee = 0 /\ tournaments'[t].rewardPool = 0
  <2>1. t \in TournamentIds \ (1..(next - 1)) /\ t # next
    BY <1>1 DEF TournamentIds
  <2>2. QED BY <1>3, <1>4, <2>1
<1>7. next \notin 1..(next - 1)
  BY <1>1
<1>8. QED BY <1>2, <1>3, <1>4, <1>5, <1>6, <1>7, TournamentsKept

LEMMA TournamentOpenedOrClosed ==
  ASSUME TournamentInv, NEW t \in TournamentIds, NEW flag \in BOOLEAN,
         setTournamentActive(t, flag)
  PROVE  TournamentInv'
<1>1. /\ UNCHANGED <<protocolVars, matches>>
      /\ UNCHANGED <<nextGameId, gameToTournament, gameReported>>
      /\ nextTournamentId' = nextTournamentId
      /\ tournaments' = [tournaments EXCEPT ![t].active = flag]
  BY DEF setTournamentActive
<1>2. /\ nextTournamentId \in 1..(MaxTournaments + 1)
      /\ tournaments \in [TournamentIds -> Tournament]
  BY DEF TournamentInv, GamesInv
<1>3. /\ tournaments' \in [TournamentIds -> Tournament]
      /\ \A s \in TournamentIds :
           /\ tournaments'[s].entryFee = tournaments[s].entryFee
           /\ tournaments'[s].rewardPool = tournaments[s].rewardPool
  BY <1>1, <1>2 DEF Tournament
<1>4. \A s \in TournamentIds \ (1..(nextTournamentId' - 1)) :
        tournaments'[s].entryFee = 0 /\ tournaments'[s].rewardPool = 0
  BY <1>1, <1>3 DEF TournamentInv, GamesInv
<1>5. QED BY <1>1, <1>2, <1>3, <1>4, TournamentsKept

LEMMA GameStarted ==
  ASSUME TournamentInv, NEW t \in TournamentIds, NEW p1 \in Players, NEW p2 \in Players,
         startGameForPlayers(t, p1, p2)
  PROVE  TournamentInv'
<1> PICK paid : paid = reportedGames
  OBVIOUS
<1> PICK id : id = nextGameId
  OBVIOUS
<1> PICK fee, pool : fee = tournaments[t].entryFee /\ pool = tournaments[t].rewardPool
  OBVIOUS
<1>1. /\ id \in MatchIds /\ fee \in Nat /\ pool \in Nat /\ MaxMatches \in Nat
  BY MatchesAssumption DEF startGameForPlayers, TournamentInv, GamesInv, MatchIds,
     Tournament
<1>2. /\ canBurnStakes(p1, p2, fee) /\ token' = burnStakes(token, p1, p2, fee)
      /\ initializeMatch(id, p1, p2, fee, pool)
      /\ UNCHANGED <<catalogVars, registryVars, rewardsVars>>
      /\ UNCHANGED <<nextTournamentId, tournaments, gameReported>>
      /\ nextGameId' = id + 1
      /\ gameToTournament' = [gameToTournament EXCEPT ![id] = t]
  BY DEF startGameForPlayers
<1>3. /\ SettlementInv' /\ MatchesInv' /\ MoneyInv(paid)' /\ CreditsNobody(paid)
      /\ id \notin started /\ started' = started \cup {id}
      /\ matches'[id].buyIn = fee /\ matches'[id].reward = pool
      /\ \A another \in MatchIds \ {id} : matches'[another] = matches[another]
  BY <1>1, <1>2, StartKeepsMoney DEF TournamentInv
<1>4. reportedGames' = paid
  BY <1>2 DEF reportedGames
<1>5. /\ started \subseteq MatchIds
      /\ gameToTournament' \in [MatchIds -> TournamentIds]
      /\ gameToTournament'[id] = t
      /\ \A another \in MatchIds \ {id} : gameToTournament'[another] = gameToTournament[another]
  BY <1>1, <1>2 DEF started, TournamentInv, GamesInv
<1>6. GamesInv'
  <2>1. nextGameId' \in 1..(MaxMatches + 1)
    BY <1>1, <1>2 DEF MatchIds
  <2>2. ASSUME NEW another \in MatchIds PROVE another \in started' <=> another < nextGameId'
    <3>1. another \in started <=> another < id
      BY DEF TournamentInv, GamesInv
    <3>2. another \in Int /\ id \in Int /\ nextGameId' = id + 1
      BY <1>1, <1>2 DEF MatchIds
    <3>3. QED BY <1>3, <3>1, <3>2
  <2>3. ASSUME NEW another \in started'
        PROVE  onTerms(another)' \/ forNothing(another)'
    <3>1. CASE another = id
      BY <1>1, <1>2, <1>3, <1>5, <3>1 DEF onTerms, termsOf
    <3>2. CASE another # id
      <4>1. another \in started /\ another \in MatchIds \ {id}
        BY <1>3, <1>5, <3>2
      <4>2. onTerms(another) \/ forNothing(another)
        BY <4>1 DEF TournamentInv, GamesInv
      <4>3. QED BY <1>2, <1>3, <1>5, <4>1, <4>2 DEF onTerms, forNothing, termsOf
    <3>3. QED BY <3>1, <3>2
  <2>4. GamesInv
    BY DEF TournamentInv
  <2>5. QED BY <1>2, <1>5, <2>1, <2>2, <2>3, <2>4 DEF GamesInv
<1>7. CreditsInv'
  <2>1. \A another \in paid : another \in MatchIds \ {id}
    BY <1>3 DEF TournamentInv, MoneyInv, isGameOver, started
  <2>2. \A another \in paid : activityNow(another)' = activityNow(another)
    BY <1>2, <1>5, <2>1 DEF activityNow, termsOf
  <2>3. QED BY <1>3, <1>4, <2>2, CreditsStand
<1>8. QED BY <1>3, <1>4, <1>6, <1>7 DEF TournamentInv

\* A report credits the terms the game has now.
LEMMA GamePaid ==
  ASSUME TournamentInv, NEW id \in MatchIds, reportOutcome(id)
  PROVE  TournamentInv'
<1> PICK paid : paid = reportedGames
  OBVIOUS
<1> PICK pool, fee : pool = termsOf(id).rewardPool /\ fee = termsOf(id).entryFee
  OBVIOUS
<1>1. /\ ~gameReported[id]
      /\ payMatch(id, termsOf(id).expressionTokenId, pool, fee)
      /\ gameReported' = [gameReported EXCEPT ![id] = TRUE]
      /\ UNCHANGED <<catalogVars, registryVars, matches>>
      /\ UNCHANGED <<nextTournamentId, nextGameId, tournaments, gameToTournament>>
  BY DEF reportOutcome, termsOf
<1>2. pool \in Nat /\ fee \in Nat
  BY DEF termsOf, TournamentInv, GamesInv, Tournament
<1>3. id \notin paid
  BY <1>1 DEF reportedGames
<1>4. /\ SettlementInv' /\ MatchesInv' /\ MoneyInv(paid \cup {id})' /\ started' = started
      /\ IsFiniteSet(paid) /\ registered(matchController) /\ RatesKept
      /\ owed' = owed + developerAccrual(matchController, pool + fee * 2)
  BY <1>1, <1>2, <1>3, PayKeepsMoney DEF TournamentInv
<1>5. /\ reportedGames' = paid \cup {id} /\ gameReported' \in [MatchIds -> BOOLEAN]
      /\ paid \subseteq MatchIds
  BY <1>1 DEF reportedGames, TournamentInv, GamesInv
<1>6. \A x : /\ onTerms(x)' = onTerms(x) /\ forNothing(x)' = forNothing(x)
             /\ activityNow(x)' = activityNow(x)
  BY <1>1 DEF onTerms, forNothing, activityNow, termsOf
<1>7. GamesInv'
  <2>1. GamesInv
    BY DEF TournamentInv
  <2>2. \A x \in started' : onTerms(x)' \/ forNothing(x)'
    BY <1>4, <1>6, <2>1 DEF GamesInv
  <2>3. QED BY <1>1, <1>4, <1>5, <2>1, <2>2 DEF GamesInv
<1>8. CreditsInv'
  <2>f. PICK f : CreditedFor(paid, f)
    BY DEF TournamentInv, CreditsInv
  <2>g. PICK g : g = [f EXCEPT ![id] = pool + fee * 2]
    OBVIOUS
  <2>1. /\ g \in [MatchIds -> Nat] /\ g[id] = pool + fee * 2
        /\ \A x \in paid : f[x] \in Nat /\ g[x] = f[x]
    BY <1>2, <1>3, <1>5, <2>f, <2>g DEF CreditedFor
  <2>2. creditsOf(paid \cup {id}, g)
          = creditsOf(paid, f) + developerAccrual(matchController, g[id])
    <3>1. SettlementInv /\ registered(matchController) /\ IsFiniteSet(paid)
      BY <1>4 DEF TournamentInv
    <3>2. g[id] \in Nat
      BY <1>2, <2>1
    <3>3. \A x \in paid : f[x] \in Nat /\ g[x] = f[x]
      BY <2>1
    <3>4. QED BY <1>3, <3>1, <3>2, <3>3, CreditsWithOneMore
  <2>3. creditsOf(paid \cup {id}, g)' = creditsOf(paid \cup {id}, g)
    BY <1>4, CreditSumKept
  <2>4. owed' = creditsOf(paid \cup {id}, g)'
    BY <1>4, <2>f, <2>1, <2>2, <2>3 DEF CreditedFor
  <2>5. ASSUME NEW x \in paid \cup {id}
        PROVE  g[x] = activityNow(x)' \/ (g[x] = 0 /\ forNothing(x)')
    <3>1. CASE x = id
      BY <1>6, <2>1, <3>1 DEF activityNow
    <3>2. CASE x \in paid
      BY <1>6, <2>f, <2>1, <3>2 DEF CreditedFor
    <3>3. QED BY <3>1, <3>2
  <2>6. CreditedFor(paid \cup {id}, g)'
    BY <2>1, <2>4, <2>5 DEF CreditedFor
  <2>7. QED BY <1>5, <2>6 DEF CreditsInv
<1>9. QED BY <1>4, <1>5, <1>7, <1>8 DEF TournamentInv

LEMMA GamePlayed ==
  ASSUME TournamentInv, NEW id \in MatchIds, GameEnds(id)
  PROVE  TournamentInv'
<1> PICK paid : paid = reportedGames
  OBVIOUS
<1>1. PICK winner \in {1, 2, Tie} : completeMatch(id, winner)
  BY DEF GameEnds
<1>2. UNCHANGED protocolVars /\ UNCHANGED gameVars
  BY DEF GameEnds
<1>3. /\ SettlementInv' /\ MatchesInv' /\ MoneyInv(paid)' /\ started' = started
      /\ CreditsNobody(paid)
      /\ \A x \in MatchIds : /\ matches'[x].buyIn = matches[x].buyIn
                             /\ matches'[x].reward = matches[x].reward
  BY <1>1, <1>2, EndKeepsMoney DEF TournamentInv
<1>4. \A x \in started : x \in MatchIds
  BY DEF started
<1>5. GamesInv' /\ CreditsInv' /\ reportedGames' = reportedGames
  BY <1>2, <1>3, <1>4, GamesKept
<1>6. QED BY <1>3, <1>5 DEF TournamentInv

LEMMA StepTournamentInv ==
  TournamentInv /\ [TournamentNext]_tournamentVars => TournamentInv'
<1> SUFFICES ASSUME TournamentInv, [TournamentNext]_tournamentVars
             PROVE  TournamentInv'
  OBVIOUS
<1> PICK paid : paid = reportedGames
  OBVIOUS
<1>1. ASSUME NEW entryFee \in Stakes, NEW rewardPool \in Prizes,
             NEW x \in 1..MaxExpressions, createTournament(entryFee, rewardPool, x)
      PROVE  TournamentInv'
  BY <1>1, TournamentCreated
<1> USE TournamentAssumption DEF TournamentIds
<1>2. ASSUME NEW t \in NamedTournaments, NEW flag \in BOOLEAN,
             setTournamentActive(t, flag)
      PROVE  TournamentInv'
  BY <1>2, TournamentOpenedOrClosed
<1>3. ASSUME NEW t \in NamedTournaments, NEW p1 \in Players, NEW p2 \in Players,
             startGameForPlayers(t, p1, p2)
      PROVE  TournamentInv'
  BY <1>3, GameStarted
<1>4. ASSUME NEW id \in MatchIds, reportOutcome(id)
      PROVE  TournamentInv'
  BY <1>4, GamePaid
<1>5. ASSUME NEW id \in MatchIds, GameEnds(id)
      PROVE  TournamentInv'
  BY <1>5, GamePlayed
<1>6. CASE ProtocolNext /\ UNCHANGED <<matches, gameVars>>
  <2>1. SettlementInv' /\ MatchesInv' /\ MoneyInv(paid)' /\ CreditsNobody(paid)
    BY <1>6, OutsideKeepsMoney DEF TournamentInv
  <2>2. started' = started
    BY <1>6 DEF started
  <2>3. GamesInv' /\ CreditsInv' /\ reportedGames' = reportedGames
    BY <1>6, <2>1, <2>2, GamesKept
  <2>4. QED BY <2>1, <2>3 DEF TournamentInv
<1>7. CASE UNCHANGED tournamentVars
  <2>1. UNCHANGED <<protocolVars, matches>> /\ UNCHANGED gameVars
    BY <1>7 DEF tournamentVars
  <2>2. /\ SettlementInv' /\ MatchesInv' /\ MoneyInv(paid)' /\ started' = started
        /\ CreditsNobody(paid)
    BY <2>1, MoneyStands DEF TournamentInv
  <2>3. GamesInv' /\ CreditsInv' /\ reportedGames' = reportedGames
    BY <2>1, <2>2, GamesKept
  <2>4. QED BY <2>2, <2>3 DEF TournamentInv
<1>8. QED BY <1>1, <1>2, <1>3, <1>4, <1>5, <1>6, <1>7 DEF TournamentNext

LEMMA TournamentInvariant == TournamentSpec => []TournamentInv
BY InitTournamentInv, StepTournamentInv, PTL DEF TournamentSpec

\* Whatever is created, opened, closed or governed in between, the balances and
\* the supply of TournamentController are those of the games started and of each
\* game reported, once.
THEOREM PrizesPaidOnce == TournamentSpec => []PrizesExplained
<1>1. TournamentInv => PrizesExplained
  BY DEF TournamentInv, MoneyInv, PrizesExplained, explainedBy, SettlementInv, LedgerInv
<1>2. QED BY <1>1, TournamentInvariant, PTL

\* reportOutcome reads the terms of the tournament again and still credits
\* developers for what was burned and paid, but for games that were started under
\* a tournament before it was created, whatever ids operators name.
THEOREM CreditsFollowTerms == TournamentSpec => []CreditedOnTerms
<1>1. ASSUME TournamentInv PROVE CreditedOnTerms
  <2> PICK activity : CreditedFor(reportedGames, activity)
    BY <1>1 DEF TournamentInv, CreditsInv
  <2> PICK uncredited :
        uncredited = {id \in reportedGames : forNothing(id) /\ activity[id] = 0}
    OBVIOUS
  <2>1. reportedGames # {} => registered(matchController)
    BY <1>1 DEF TournamentInv, MoneyInv
  <2>2. ASSUME NEW id \in reportedGames
        PROVE  developerAccrual(matchController, activity[id])
                 = IF id \in uncredited THEN 0
                     ELSE developerAccrual(matchController,
                            termsOf(id).rewardPool + 2 * termsOf(id).entryFee)
    <3>1. id \in MatchIds /\ termsOf(id).rewardPool \in Nat /\ termsOf(id).entryFee \in Nat
      BY <1>1 DEF reportedGames, termsOf, TournamentInv, GamesInv, Tournament
    <3>2. CASE id \in uncredited
      <4>1. activity[id] = 0 /\ rate(matchController) \in Nat
        BY <1>1, <2>1, <3>2, MatchesAssumption, RateType DEF TournamentInv, SettlementInv
      <4>2. QED BY <3>2, <4>1 DEF developerAccrual, rate
    <3>3. CASE id \notin uncredited
      <4>1. activity[id] = termsOf(id).rewardPool + 2 * termsOf(id).entryFee
        BY <3>1, <3>3 DEF CreditedFor, activityNow
      <4>2. QED BY <3>3, <4>1
    <3>4. QED BY <3>2, <3>3
  <2>3. [id \in reportedGames |-> developerAccrual(matchController, activity[id])]
          = [id \in reportedGames |->
              IF id \in uncredited THEN 0
                ELSE developerAccrual(matchController,
                       termsOf(id).rewardPool + 2 * termsOf(id).entryFee)]
    BY <2>2
  <2>4. accrued = SumFunction([id \in reportedGames |->
              IF id \in uncredited THEN 0
                ELSE developerAccrual(matchController,
                       termsOf(id).rewardPool + 2 * termsOf(id).entryFee)])
    BY <2>3 DEF CreditedFor, creditsOf, accrued, owed
  <2>5. uncredited \in SUBSET {id \in reportedGames : forNothing(id)}
    OBVIOUS
  <2>6. \A id \in started : onTerms(id) \/ forNothing(id)
    BY <1>1 DEF TournamentInv, GamesInv
  <2>7. QED BY <2>4, <2>5, <2>6 DEF CreditedOnTerms
<1>2. QED BY <1>1, TournamentInvariant, PTL
=============================================================================
