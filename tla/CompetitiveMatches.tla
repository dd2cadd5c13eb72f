------------------------- MODULE CompetitiveMatches -------------------------
(***************************************************************************)
(* What the two competitive controllers share: the engine's matches as the *)
(* controllers see them (src/src/interfaces/ITournamentGameEngine.sol), and *)
(* the burns and payouts around a match.  A match is the abstract one of   *)
(* MatchEngine, which SingleDraw2To7 implements; a tie, which that engine  *)
(* only has for a match started without chips, is settled here too.        *)
(***************************************************************************)
EXTENDS ProtocolSettlement

CONSTANTS matchController, matchEngine,
          Stakes,      \* stakes and entry fees operators ask for
          Prizes,      \* reward pools operators set
          MaxMatches   \* bound: matches started in one behaviour

ASSUME MatchesAssumption ==
  /\ matchController \in Controllers /\ matchEngine \in Engines
  /\ Stakes \subseteq Nat /\ Prizes \subseteq Nat
  /\ MaxMatches \in Nat

VARIABLE matches

MatchIds == 1..MaxMatches

NoMatch == [state |-> "Inactive", players |-> <<Nobody, Nobody>>,
            buyIn |-> 0, reward |-> 0, winner |-> 0]

Tie == 0  \* in the place of the winner, who is player 1 or 2

MatchesInit == matches = [id \in MatchIds |-> NoMatch]

started == {id \in MatchIds : matches[id].state # "Inactive"}
isGameOver(id) == matches[id].state = "Completed"

\* Both stakes are burned one after the other; a stake of 0 is not.
canBurnStakes(p1, p2, stake) ==
  stake > 0 =>
    /\ canBurnPlayerWager(matchController, p1, stake)
    /\ Token!canSpend(burnPlayerWager(token, p1, stake), p2, "settlement", stake)

burnStakes(l, p1, p2, stake) ==
  IF stake = 0 THEN l
    ELSE burnPlayerWager(burnPlayerWager(l, p1, stake), p2, stake)

initializeMatch(id, p1, p2, buyIn, reward) ==
  /\ Catalog!isAuthorizedControllerForEngine(matchController, matchEngine)
  /\ matches[id].state = "Inactive"
  /\ matches' = [matches EXCEPT ![id] =
       [NoMatch EXCEPT !.state = "Active", !.players = <<p1, p2>>,
                       !.buyIn = buyIn, !.reward = reward]]

\* The last hand of a match.
completeMatch(id, winner) ==
  /\ Catalog!isSettlableEngine(matchEngine)
  /\ matches[id].state = "Active"
  /\ matches' = [matches EXCEPT ![id].state = "Completed",
                                ![id].winner = winner]

\* Bug: both players of a tie are paid the larger half.
outcomePayoutCeil(match, p) ==
  LET share(i) == CASE match.winner = i -> match.reward
                    [] match.winner = Tie -> (match.reward + 1) \div 2
                    [] OTHER -> 0
  IN  SumFunction([i \in {j \in {1, 2} : match.players[j] = p} |-> share(i)])

\* getOutcomes: what the match pays each account.
outcomePayout(match, p) ==
  LET half == match.reward \div 2
      share(i) == CASE match.winner = i -> match.reward
                    [] match.winner = Tie -> IF i = 1 THEN half ELSE match.reward - half
                    [] OTHER -> 0
  IN  SumFunction([i \in {j \in {1, 2} : match.players[j] = p} |-> share(i)])

matchPayouts(id) == [a \in Accounts |-> outcomePayout(matches[id], a)]

\* The rewards are minted one by one, and the developer is credited.
payMatch(id, expressionTokenId, rewardPool, stake) ==
  /\ Catalog!isSettlableController(matchController)
  /\ isGameOver(id)
  /\ Token!canMint(token, SumFunction(matchPayouts(id)))
  /\ token' = mintPlayerRewards(token, matchPayouts(id))
  /\ accrueDeveloperForExpression(matchController, expressionTokenId,
                                  rewardPool + stake * 2)

-----------------------------------------------------------------------------
\* What a set of matches has cost and paid an account.
stakesOf(ids, p) ==
  SumFunction([id \in ids |->
    matches[id].buyIn * Cardinality({i \in {1, 2} : matches[id].players[i] = p})])
prizesOf(ids, p) == SumFunction([id \in ids |-> outcomePayout(matches[id], p)])

buyInsOf(ids) == SumFunction([id \in ids |-> matches[id].buyIn])
rewardsOf(ids) == SumFunction([id \in ids |-> matches[id].reward])

\* Every balance and the supply are explained by matches: the stakes burned when
\* they started, the pool of each of the paid ones once, to its winner or, split
\* to the last unit, to both; and what developers claimed.
explainedBy(paid) ==
  /\ Token!SupplyHeld(token)
  /\ \A p \in Players :
       token.balance[p] + stakesOf(started, p) =
         InitialBalance + prizesOf(paid, p)
         + (IF p \in Developers THEN claimMinted[p] ELSE 0)
  /\ token.totalSupply + 2 * buyInsOf(started) =
       InitialBalance * Cardinality(Players) + SumFunction(claimMinted) + rewardsOf(paid)

\* What developers are owed for matches, and have been credited.
accrued == SumFunction([e \in Epochs |-> SumFunction(epochAccrual[e])])

accrualOf(ids) ==
  SumFunction([id \in ids |->
    developerAccrual(matchController, matches[id].reward + 2 * matches[id].buyIn)])
=============================================================================
