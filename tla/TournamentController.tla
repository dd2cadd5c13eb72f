------------------------ MODULE TournamentController ------------------------
(***************************************************************************)
(* Tournaments (src/src/controllers/TournamentController.sol): an operator *)
(* stores the terms of a tournament, opens and closes it, and starts games *)
(* of two players under its terms; anyone reports the outcome of a game.   *)
(* startingStack, which only the engine reads, is left out.                *)
(***************************************************************************)
EXTENDS CompetitiveMatches

CONSTANTS MaxTournaments,   \* bound: tournaments created in one behaviour
          NamedTournaments  \* ids that operators name, created or not

ASSUME TournamentAssumption ==
  MaxTournaments \in Nat /\ NamedTournaments \subseteq 0..MaxTournaments

VARIABLES nextTournamentId, nextGameId, tournaments, gameToTournament, gameReported

gameVars == <<nextTournamentId, nextGameId, tournaments, gameToTournament,
              gameReported>>
tournamentVars == <<protocolVars, matches, gameVars>>

\* Game 0 and tournament 0 are what unwritten storage reads as.
TournamentIds == 0..MaxTournaments

NoTournament == [active |-> FALSE, entryFee |-> 0, rewardPool |-> 0,
                 expressionTokenId |-> 0]

TournamentInit ==
  /\ ProtocolInit /\ MatchesInit
  /\ nextTournamentId = 1
  /\ nextGameId = 1
  /\ tournaments = [t \in TournamentIds |-> NoTournament]
  /\ gameToTournament = [id \in MatchIds |-> 0]
  /\ gameReported = [id \in MatchIds |-> FALSE]

-----------------------------------------------------------------------------
(* Plausible bugs, defined to show that the properties can fail.           *)

\* a game keeps no record of its tournament, and is reported under the latest
startGameForPlayersLatest(t, p1, p2) ==
  /\ nextGameId <= MaxMatches
  /\ Catalog!isLaunchableController(matchController)
  /\ tournaments[t].active
  /\ canBurnStakes(p1, p2, tournaments[t].entryFee)
  /\ token' = burnStakes(token, p1, p2, tournaments[t].entryFee)
  /\ nextGameId' = nextGameId + 1
  /\ gameToTournament' = [gameToTournament EXCEPT ![nextGameId] = nextTournamentId - 1]
  /\ initializeMatch(nextGameId, p1, p2, tournaments[t].entryFee,
                    tournaments[t].rewardPool)
  /\ UNCHANGED <<catalogVars, registryVars, rewardsVars, nextTournamentId,
                 tournaments, gameReported>>

-----------------------------------------------------------------------------
createTournament(entryFee, rewardPool, expressionTokenId) ==
  /\ nextTournamentId <= MaxTournaments
  /\ Catalog!isLaunchableController(matchController)
  /\ nextTournamentId' = nextTournamentId + 1
  /\ tournaments' = [tournaments EXCEPT ![nextTournamentId] =
       [active |-> TRUE, entryFee |-> entryFee, rewardPool |-> rewardPool,
        expressionTokenId |-> expressionTokenId]]
  /\ UNCHANGED <<protocolVars, matches, nextGameId, gameToTournament, gameReported>>

\* Nothing is asked of the tournament, not even that it was created: until then
\* its terms read as 0, and a game started under it is played for nothing.
setTournamentActive(t, active) ==
  /\ tournaments' = [tournaments EXCEPT ![t].active = active]
  /\ UNCHANGED <<protocolVars, matches, nextTournamentId, nextGameId,
                 gameToTournament, gameReported>>

startGameForPlayers(t, p1, p2) ==
  /\ nextGameId <= MaxMatches
  /\ Catalog!isLaunchableController(matchController)
  /\ tournaments[t].active
  /\ canBurnStakes(p1, p2, tournaments[t].entryFee)
  /\ token' = burnStakes(token, p1, p2, tournaments[t].entryFee)
  /\ nextGameId' = nextGameId + 1
  /\ gameToTournament' = [gameToTournament EXCEPT ![nextGameId] = t]
  /\ initializeMatch(nextGameId, p1, p2, tournaments[t].entryFee,
                    tournaments[t].rewardPool)
  /\ UNCHANGED <<catalogVars, registryVars, rewardsVars, nextTournamentId,
                 tournaments, gameReported>>

\* The developer is credited under the terms the tournament has now.
reportOutcome(id) ==
  LET t == tournaments[gameToTournament[id]] IN
  /\ ~gameReported[id]
  /\ payMatch(id, t.expressionTokenId, t.rewardPool, t.entryFee)
  /\ gameReported' = [gameReported EXCEPT ![id] = TRUE]
  /\ UNCHANGED <<catalogVars, registryVars, matches, nextTournamentId,
                 nextGameId, tournaments, gameToTournament>>

GameEnds(id) ==
  /\ \E winner \in {1, 2, Tie} : completeMatch(id, winner)
  /\ UNCHANGED <<protocolVars, gameVars>>

TournamentNext ==
  \/ \E entryFee \in Stakes, rewardPool \in Prizes, x \in 1..MaxExpressions :
       createTournament(entryFee, rewardPool, x)
  \/ \E t \in NamedTournaments, active \in BOOLEAN : setTournamentActive(t, active)
  \/ \E t \in NamedTournaments, p1, p2 \in Players : startGameForPlayers(t, p1, p2)
  \/ \E id \in MatchIds : reportOutcome(id) \/ GameEnds(id)
  \/ ProtocolNext /\ UNCHANGED <<matches, gameVars>>

TournamentSpec ==
  TournamentInit /\ [][TournamentNext]_tournamentVars

-----------------------------------------------------------------------------
reportedGames == {id \in MatchIds : gameReported[id]}

\* Every balance and the supply are explained by games: both fees burned when
\* they started, the pool of each reported one paid once and whole.
PrizesExplained == explainedBy(reportedGames)

\* A game was played on the terms its tournament has now, or for nothing.
termsOf(id) == tournaments[gameToTournament[id]]
onTerms(id) == /\ matches[id].buyIn = termsOf(id).entryFee
               /\ matches[id].reward = termsOf(id).rewardPool
forNothing(id) == matches[id].buyIn = 0 /\ matches[id].reward = 0

\* reportOutcome reads the terms of the tournament again: developers are credited
\* for the fees that were burned and the pool that was paid, whatever is created,
\* opened and closed in between, but for games started under a tournament that
\* was not created yet, which are credited either nothing or the terms it has
\* been given since, fees nobody burned among them.
CreditedOnTerms ==
  /\ \A id \in started : onTerms(id) \/ forNothing(id)
  /\ \E uncredited \in SUBSET {id \in reportedGames : forNothing(id)} :
       accrued = SumFunction([id \in reportedGames |->
         IF id \in uncredited THEN 0
           ELSE developerAccrual(matchController,
                                 termsOf(id).rewardPool + 2 * termsOf(id).entryFee)])
=============================================================================
