---------------------------- MODULE PvPController ----------------------------
(***************************************************************************)
(* One-off heads-up matches (src/src/controllers/PvPController.sol): an    *)
(* operator creates a session for two players, whose stakes are burned; the *)
(* engine plays the match; anyone settles the session from its outcome.    *)
(***************************************************************************)
EXTENDS CompetitiveMatches

VARIABLES nextSessionId, sessions, sessionSettled

sessionVars == <<nextSessionId, sessions, sessionSettled>>
pvpVars == <<protocolVars, matches, sessionVars>>

NoSession == [active |-> FALSE, stake |-> 0, rewardPool |-> 0,
              expressionTokenId |-> 0]

PvPInit ==
  /\ ProtocolInit /\ MatchesInit
  /\ nextSessionId = 1
  /\ sessions = [id \in MatchIds |-> NoSession]
  /\ sessionSettled = [id \in MatchIds |-> FALSE]

-----------------------------------------------------------------------------
(* Plausible bugs, defined to show that the properties can fail.           *)

\* the settled flag is checked but never written
settleSessionForgets(id) ==
  /\ ~sessionSettled[id]
  /\ sessions[id].active
  /\ payMatch(id, sessions[id].expressionTokenId, sessions[id].rewardPool,
              sessions[id].stake)
  /\ UNCHANGED <<catalogVars, registryVars, matches, nextSessionId, sessions,
                 sessionSettled>>

\* the session number is not advanced
createSessionReusesId(p1, p2, stake, rewardPool, expressionTokenId) ==
  /\ Catalog!isLaunchableController(matchController)
  /\ canBurnStakes(p1, p2, stake)
  /\ token' = burnStakes(token, p1, p2, stake)
  /\ UNCHANGED nextSessionId
  /\ sessions' = [sessions EXCEPT ![nextSessionId] =
       [active |-> TRUE, stake |-> stake, rewardPool |-> rewardPool,
        expressionTokenId |-> expressionTokenId]]
  /\ matches' = [matches EXCEPT ![nextSessionId] =
       [NoMatch EXCEPT !.state = "Active", !.players = <<p1, p2>>,
                       !.buyIn = stake, !.reward = rewardPool]]
  /\ UNCHANGED <<catalogVars, registryVars, rewardsVars, sessionSettled>>

-----------------------------------------------------------------------------
\* createSession by an operator.
createSession(p1, p2, stake, rewardPool, expressionTokenId) ==
  /\ nextSessionId <= MaxMatches
  /\ Catalog!isLaunchableController(matchController)
  /\ canBurnStakes(p1, p2, stake)
  /\ token' = burnStakes(token, p1, p2, stake)
  /\ nextSessionId' = nextSessionId + 1
  /\ sessions' = [sessions EXCEPT ![nextSessionId] =
       [active |-> TRUE, stake |-> stake, rewardPool |-> rewardPool,
        expressionTokenId |-> expressionTokenId]]
  /\ initializeMatch(nextSessionId, p1, p2, stake, rewardPool)
  /\ UNCHANGED <<catalogVars, registryVars, rewardsVars, sessionSettled>>

settleSession(id) ==
  /\ ~sessionSettled[id]
  /\ sessions[id].active
  /\ payMatch(id, sessions[id].expressionTokenId, sessions[id].rewardPool,
              sessions[id].stake)
  /\ sessionSettled' = [sessionSettled EXCEPT ![id] = TRUE]
  /\ UNCHANGED <<catalogVars, registryVars, matches, nextSessionId, sessions>>

SessionEnds(id) ==
  /\ \E winner \in {1, 2, Tie} : completeMatch(id, winner)
  /\ UNCHANGED <<protocolVars, sessionVars>>

PvPNext ==
  \/ \E p1, p2 \in Players, stake \in Stakes, rewardPool \in Prizes,
        x \in 1..MaxExpressions : createSession(p1, p2, stake, rewardPool, x)
  \/ \E id \in MatchIds : settleSession(id) \/ SessionEnds(id)
  \/ ProtocolNext /\ UNCHANGED <<matches, sessionVars>>

PvPSpec == PvPInit /\ [][PvPNext]_pvpVars

-----------------------------------------------------------------------------
settledSessions == {id \in MatchIds : sessionSettled[id]}

\* Every balance and the supply are explained by sessions: the stakes burned
\* when they were created, the pool of each settled one paid once and whole,
\* and what developers claimed.  And developers are credited for the pool and
\* both stakes of settled sessions, once each, whoever owns the expression by
\* then and in whatever epoch.
SessionsExplained ==
  /\ explainedBy(settledSessions)
  /\ accrued = accrualOf(settledSessions)

\* What a session was created with, and what its match ended with, is final,
\* and only a session whose match has ended is settled.
SessionsFinal ==
  [][ \A id \in started :
        /\ sessions'[id] = sessions[id]
        /\ matches'[id].players = matches[id].players
        /\ isGameOver(id) => matches'[id] = matches[id]
        /\ sessionSettled[id] => sessionSettled'[id]
        /\ sessionSettled'[id] => isGameOver(id) ]_pvpVars
=============================================================================
