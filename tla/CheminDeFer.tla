----------------------------- MODULE CheminDeFer -----------------------------
(***************************************************************************)
(* Chemin de fer tables: CheminDeFerController over CheminDeFerEngine      *)
(* (src/src/controllers, src/src/engines).  A banker escrows SCU and opens *)
(* a table; takers stake against it until its join deadline or its cap; the *)
(* table is closed by the banker, by anyone after the deadline, or by the  *)
(* take that fills it, which asks the engine for one baccarat round; anyone *)
(* settles the resolved table.  A table nobody took is cancelled instead.  *)
(*                                                                         *)
(* The cards are abstracted to the outcome they decide.  A player stake of *)
(* Wad is matched by BANKER_RISK_PER_PLAYER_WAD of the banker's escrow,    *)
(* rounded down (1.0276... to 1 in the contract).  The coordinator's answer *)
(* is a step of its own; the mock's immediate answer is the case where it  *)
(* is the next one.                                                        *)
(***************************************************************************)
EXTENDS ProtocolSettlement

CONSTANTS cheminController, cheminEngine,
          Wad, BANKER_RISK_PER_PLAYER_WAD, JOIN_WINDOW,
          Bets,        \* escrows bankers open with
          Takes,       \* amounts takers stake
          MaxTables,   \* bound: tables opened in one behaviour
          MaxRequests  \* bound: randomness requests, others' included

ASSUME CheminAssumption ==
  /\ cheminController \in Controllers /\ cheminEngine \in Engines
  /\ Wad \in Nat \ {0}
  /\ BANKER_RISK_PER_PLAYER_WAD \in Nat /\ BANKER_RISK_PER_PLAYER_WAD >= Wad
  /\ JOIN_WINDOW \in Nat
  /\ Bets \subseteq Nat /\ Takes \subseteq Nat
  /\ MaxTables \in Nat /\ MaxRequests \in Nat

VARIABLES nextTableId, tables, tableTakers, takerAmounts,  \* the controller
          resolutions, requestToTableId,                   \* the engine
          requestCounter                                   \* the coordinator

controllerVars == <<nextTableId, tables, tableTakers, takerAmounts>>
engineVars == <<resolutions, requestToTableId, requestCounter>>
vars == <<protocolVars, controllerVars, engineVars>>

TableIds == 1..MaxTables
RequestIds == 1..MaxRequests
BaccaratOutcome == {"PlayerWin", "BankerWin", "Tie"}

NoTable == [banker |-> Nobody, bankerEscrow |-> 0, joinDeadline |-> 0,
            totalPlayerTake |-> 0, matchedBankerRisk |-> 0,
            unmatchedBankerRefund |-> 0, expressionTokenId |-> 0,
            closed |-> FALSE, settled |-> FALSE]

NoResolution == [requestId |-> 0, resolved |-> FALSE, outcome |-> "PlayerWin"]

playerTakeCap(bankerEscrow) ==
  (bankerEscrow * Wad) \div BANKER_RISK_PER_PLAYER_WAD

matchedBankerRisk(totalPlayerTake) ==
  (totalPlayerTake * BANKER_RISK_PER_PLAYER_WAD) \div Wad

Init ==
  /\ ProtocolInit
  /\ nextTableId = 1
  /\ tables = [t \in TableIds |-> NoTable]
  /\ tableTakers = [t \in TableIds |-> <<>>]
  /\ takerAmounts = [t \in TableIds |-> [p \in Players |-> 0]]
  /\ resolutions = [t \in TableIds |-> NoResolution]
  /\ requestToTableId = [id \in RequestIds |-> 0]
  /\ requestCounter = 0

settlable == Catalog!isSettlableController(cheminController)
launchable == Catalog!isLaunchableController(cheminController)
exists(t) == tables[t].banker # Nobody

-----------------------------------------------------------------------------
\* The bound on the clock leaves time for the deadline to pass.
openTable(banker, bankerMaxBet, expressionTokenId) ==
  /\ now + JOIN_WINDOW < MaxTime
  /\ launchable
  /\ bankerMaxBet > 0
  /\ nextTableId <= MaxTables
  /\ canBurnPlayerWager(cheminController, banker, bankerMaxBet)
  /\ token' = burnPlayerWager(token, banker, bankerMaxBet)
  /\ nextTableId' = nextTableId + 1
  /\ tables' = [tables EXCEPT ![nextTableId] =
       [NoTable EXCEPT !.banker = banker, !.bankerEscrow = bankerMaxBet,
                       !.joinDeadline = now + JOIN_WINDOW,
                       !.unmatchedBankerRefund = bankerMaxBet,
                       !.expressionTokenId = expressionTokenId]]
  /\ UNCHANGED <<catalogVars, registryVars, rewardsVars, tableTakers,
                 takerAmounts, engineVars>>

\* Bug: the refund still counts the whole escrow when the table is closed.
closedTableKeepsRefund(table) ==
  [table EXCEPT !.closed = TRUE,
                !.matchedBankerRisk = matchedBankerRisk(table.totalPlayerTake)]

\* The table as _closeAndRequestResolution leaves it, from its value so far.
closedTable(table) ==
  LET risk == matchedBankerRisk(table.totalPlayerTake)
  IN  [table EXCEPT !.closed = TRUE, !.matchedBankerRisk = risk,
                    !.unmatchedBankerRefund = table.bankerEscrow - risk]

\* Bug: the request is filed under the id of the previous one.
requestResolutionStaleId(t) ==
  /\ resolutions[t].requestId = 0
  /\ requestCounter < MaxRequests
  /\ requestCounter' = requestCounter + 1
  /\ resolutions' = [resolutions EXCEPT ![t].requestId = requestCounter + 1]
  /\ requestToTableId' = [requestToTableId EXCEPT ![requestCounter] = t]

\* The engine opens the table's only request, under the id the coordinator is
\* about to hand out.
requestResolution(t) ==
  /\ Catalog!isAuthorizedControllerForEngine(cheminController, cheminEngine)
  /\ resolutions[t].requestId = 0
  /\ requestCounter < MaxRequests
  /\ requestCounter' = requestCounter + 1
  /\ resolutions' = [resolutions EXCEPT ![t].requestId = requestCounter + 1]
  /\ requestToTableId' = [requestToTableId EXCEPT ![requestCounter + 1] = t]

\* Bug: a taker who stakes again is listed again.
takeListsTwice(t, taker, amount) ==
  LET taken == [tables[t] EXCEPT !.totalPlayerTake = @ + amount] IN
  /\ launchable
  /\ amount > 0 /\ exists(t) /\ ~tables[t].closed /\ now <= tables[t].joinDeadline
  /\ taker # tables[t].banker
  /\ taken.totalPlayerTake < playerTakeCap(tables[t].bankerEscrow)
  /\ canBurnPlayerWager(cheminController, taker, amount)
  /\ token' = burnPlayerWager(token, taker, amount)
  /\ tableTakers' = [tableTakers EXCEPT ![t] = Append(@, taker)]
  /\ takerAmounts' = [takerAmounts EXCEPT ![t][taker] = @ + amount]
  /\ tables' = [tables EXCEPT ![t] = taken]
  /\ UNCHANGED <<catalogVars, registryVars, rewardsVars, nextTableId, engineVars>>

\* Bug: a take is accepted after the table has closed.
takeAfterClose(t, taker, amount) ==
  LET taken == [tables[t] EXCEPT !.totalPlayerTake = @ + amount] IN
  /\ launchable
  /\ amount > 0 /\ exists(t) /\ now <= tables[t].joinDeadline
  /\ taker # tables[t].banker
  /\ taken.totalPlayerTake < playerTakeCap(tables[t].bankerEscrow)
  /\ canBurnPlayerWager(cheminController, taker, amount)
  /\ token' = burnPlayerWager(token, taker, amount)
  /\ tableTakers' = IF takerAmounts[t][taker] = 0
                      THEN [tableTakers EXCEPT ![t] = Append(@, taker)]
                      ELSE tableTakers
  /\ takerAmounts' = [takerAmounts EXCEPT ![t][taker] = @ + amount]
  /\ tables' = [tables EXCEPT ![t] = taken]
  /\ UNCHANGED <<catalogVars, registryVars, rewardsVars, nextTableId, engineVars>>

\* A stake that fills the cap closes the table in the same transaction.
take(t, taker, amount) ==
  LET table == tables[t]
      taken == [table EXCEPT !.totalPlayerTake = @ + amount]
      full  == taken.totalPlayerTake = playerTakeCap(table.bankerEscrow)
  IN
  /\ launchable
  /\ amount > 0
  /\ exists(t) /\ ~table.closed
  /\ now <= table.joinDeadline
  /\ taker # table.banker
  /\ taken.totalPlayerTake <= playerTakeCap(table.bankerEscrow)
  /\ canBurnPlayerWager(cheminController, taker, amount)
  /\ token' = burnPlayerWager(token, taker, amount)
  /\ tableTakers' = IF takerAmounts[t][taker] = 0
                      THEN [tableTakers EXCEPT ![t] = Append(@, taker)]
                      ELSE tableTakers
  /\ takerAmounts' = [takerAmounts EXCEPT ![t][taker] = @ + amount]
  /\ \/ full /\ tables' = [tables EXCEPT ![t] = closedTable(taken)]
             /\ requestResolution(t)
     \/ ~full /\ tables' = [tables EXCEPT ![t] = taken]
              /\ UNCHANGED engineVars
  /\ UNCHANGED <<catalogVars, registryVars, rewardsVars, nextTableId>>

closeAndRequestResolution(t) ==
  /\ ~tables[t].closed
  /\ tables' = [tables EXCEPT ![t] = closedTable(@)]
  /\ requestResolution(t)
  /\ UNCHANGED <<protocolVars, nextTableId, tableTakers, takerAmounts>>

closeTable(t, caller) ==
  /\ settlable
  /\ tables[t].banker = caller
  /\ tables[t].totalPlayerTake > 0
  /\ closeAndRequestResolution(t)

\* Bug: closing by anyone needs a module that may still launch.
forceCloseTableLiveOnly(t) ==
  /\ launchable
  /\ exists(t)
  /\ now > tables[t].joinDeadline
  /\ tables[t].totalPlayerTake > 0
  /\ closeAndRequestResolution(t)

forceCloseTable(t) ==
  /\ settlable
  /\ exists(t)
  /\ now > tables[t].joinDeadline
  /\ tables[t].totalPlayerTake > 0
  /\ closeAndRequestResolution(t)

\* Bug: the escrow is refunded while takers are at the table.
cancelTableWithTakers(t, caller) ==
  LET table == tables[t] IN
  /\ settlable
  /\ exists(t) /\ ~table.closed
  /\ caller = table.banker \/ now > table.joinDeadline
  /\ tables' = [tables EXCEPT ![t].closed = TRUE, ![t].settled = TRUE]
  /\ canMintPlayerReward(cheminController, token, table.bankerEscrow)
  /\ token' = mintPlayerReward(token, table.banker, table.bankerEscrow)
  /\ UNCHANGED <<catalogVars, registryVars, rewardsVars, nextTableId,
                 tableTakers, takerAmounts, engineVars>>

cancelTable(t, caller) ==
  LET table == tables[t] IN
  /\ settlable
  /\ exists(t) /\ ~table.closed
  /\ table.totalPlayerTake = 0
  /\ caller = table.banker \/ now > table.joinDeadline
  /\ tables' = [tables EXCEPT ![t].closed = TRUE, ![t].settled = TRUE]
  /\ canMintPlayerReward(cheminController, token, table.bankerEscrow)
  /\ token' = mintPlayerReward(token, table.banker, table.bankerEscrow)
  /\ UNCHANGED <<catalogVars, registryVars, rewardsVars, nextTableId,
                 tableTakers, takerAmounts, engineVars>>

\* The coordinator's answer.
rawFulfillRandomWords(requestId, outcome) ==
  LET t == requestToTableId[requestId] IN
  /\ Catalog!isSettlableEngine(cheminEngine)
  /\ t # 0
  /\ ~resolutions[t].resolved
  /\ resolutions' = [resolutions EXCEPT ![t].resolved = TRUE,
                                        ![t].outcome = outcome]
  /\ UNCHANGED <<protocolVars, controllerVars, requestToTableId, requestCounter>>

\* Another engine of the deployment uses the same coordinator; the bound leaves
\* a request for every table.
OtherEngineRequests ==
  /\ requestCounter + Cardinality({t \in TableIds : resolutions[t].requestId = 0})
       < MaxRequests
  /\ requestCounter' = requestCounter + 1
  /\ UNCHANGED <<protocolVars, controllerVars, resolutions, requestToTableId>>

-----------------------------------------------------------------------------
(* Settlement.                                                             *)

matchedExposure(t) == tables[t].matchedBankerRisk + tables[t].totalPlayerTake

bankerReward(t, outcome) ==
  tables[t].unmatchedBankerRefund +
    CASE outcome = "BankerWin" -> matchedExposure(t)
      [] outcome = "Tie" -> tables[t].matchedBankerRisk
      [] outcome = "PlayerWin" -> 0

\* Bug: winners share the banker's risk without their own stakes.
proRataOfRisk(t, taker) ==
  (tables[t].matchedBankerRisk * takerAmounts[t][taker])
    \div tables[t].totalPlayerTake

\* A taker's rounded-down share of the pool.
proRata(t, taker) ==
  (matchedExposure(t) * takerAmounts[t][taker]) \div tables[t].totalPlayerTake

\* _payWinningTakers: the last taker to have joined receives what the rounded
\* shares of the others leave.
winningShare(t, taker) ==
  LET takers == tableTakers[t]
      last == takers[Len(takers)]
  IN  IF taker = last
        THEN matchedExposure(t) -
               SumFunction([p \in Range(takers) \ {last} |-> proRata(t, p)])
        ELSE proRata(t, taker)

takerReward(t, outcome, taker) ==
  CASE outcome = "BankerWin" -> 0
    [] outcome = "Tie" -> takerAmounts[t][taker]
    [] outcome = "PlayerWin" -> winningShare(t, taker)

rewards(t, outcome) ==
  [a \in Accounts |->
     IF a = tables[t].banker THEN bankerReward(t, outcome)
     ELSE IF a \in Range(tableTakers[t]) THEN takerReward(t, outcome, a)
     ELSE 0]

settle(t) ==
  /\ settlable
  /\ exists(t) /\ tables[t].closed /\ ~tables[t].settled
  /\ resolutions[t].resolved
  /\ tables' = [tables EXCEPT ![t].settled = TRUE]
  /\ Token!canMint(token, SumFunction(rewards(t, resolutions[t].outcome)))
  /\ token' = mintPlayerRewards(token, rewards(t, resolutions[t].outcome))
  /\ accrueDeveloperForExpression(cheminController, tables[t].expressionTokenId,
                                  matchedExposure(t))
  /\ UNCHANGED <<catalogVars, registryVars, nextTableId, tableTakers,
                 takerAmounts, engineVars>>

-----------------------------------------------------------------------------
TableNext ==
  \/ \E p \in Players, bet \in Bets, x \in 1..MaxExpressions : openTable(p, bet, x)
  \/ \E t \in TableIds, p \in Players, amount \in Takes : take(t, p, amount)
  \/ \E t \in TableIds, p \in Players : closeTable(t, p) \/ cancelTable(t, p)
  \/ \E t \in TableIds : forceCloseTable(t) \/ settle(t)
  \/ \E id \in RequestIds, outcome \in BaccaratOutcome :
       rawFulfillRandomWords(id, outcome)
  \/ OtherEngineRequests

Next ==
  \/ TableNext
  \/ ProtocolNext /\ UNCHANGED <<controllerVars, engineVars>>

Spec == Init /\ [][Next]_vars

\* Time passes; the coordinator answers what it can; for each table somebody
\* (its players have the interest, anyone has the right) force-closes it when
\* the deadline has passed and settles it when it is resolved.
Fairness ==
  /\ WF_vars(/\ Tick
             /\ UNCHANGED <<token, catalogVars, registryVars, controllerVars,
                            engineVars>>)
  /\ \A id \in RequestIds :
       WF_vars(\E outcome \in BaccaratOutcome : rawFulfillRandomWords(id, outcome))
  /\ \A t \in TableIds : WF_vars(forceCloseTable(t)) /\ WF_vars(settle(t))

FairSpec == Spec /\ Fairness

-----------------------------------------------------------------------------
takersOf(t) == {p \in Players : takerAmounts[t][p] > 0}
openEscrow(t) == IF tables[t].settled
                   THEN 0 ELSE tables[t].bankerEscrow + tables[t].totalPlayerTake
cancelled(t) == tables[t].settled /\ tables[t].totalPlayerTake = 0

Table == [banker: Players \cup {Nobody}, bankerEscrow: Nat, joinDeadline: Nat,
          totalPlayerTake: Nat, matchedBankerRisk: Nat,
          unmatchedBankerRefund: Nat, expressionTokenId: Nat,
          closed: BOOLEAN, settled: BOOLEAN]

\* The types of the table and round state.
TypeOK ==
  /\ token \in Token!Ledger
  /\ nextTableId \in 1..(MaxTables + 1)
  /\ tables \in [TableIds -> Table]
  /\ takerAmounts \in [TableIds -> [Players -> Nat]]
  /\ resolutions \in [TableIds -> [requestId: 0..MaxRequests, resolved: BOOLEAN,
                                   outcome: BaccaratOutcome]]
  /\ requestToTableId \in [RequestIds -> 0..MaxTables]
  /\ requestCounter \in 0..MaxRequests

\* Takers never outgrow what the banker's escrow can match, so closing a table
\* never underflows; a closed table splits the escrow exactly into what is at
\* risk and what goes back, and an open one still owes all of it back.
EscrowSplit ==
  \A t \in TableIds :
    /\ tables[t].totalPlayerTake <= playerTakeCap(tables[t].bankerEscrow)
    /\ matchedBankerRisk(tables[t].totalPlayerTake) <= tables[t].bankerEscrow
    /\ tables[t].matchedBankerRisk + tables[t].unmatchedBankerRefund
         = tables[t].bankerEscrow
    /\ tables[t].closed => tables[t].matchedBankerRisk
                            = matchedBankerRisk(tables[t].totalPlayerTake)

\* The list that is paid is exactly the accounts that staked, each once, never
\* the banker, and their stakes add up to the total the shares are cut from.
TakersListed ==
  \A t \in TableIds :
    /\ IsInjective(tableTakers[t])
    /\ Range(tableTakers[t]) = takersOf(t)
    /\ tables[t].banker \notin takersOf(t)
    /\ SumFunction(takerAmounts[t]) = tables[t].totalPlayerTake

\* The engine's two mappings name each other, so the coordinator's answer to a
\* request resolves the one table that asked for it.
RequestsAddressed ==
  /\ \A t \in TableIds : resolutions[t].requestId # 0 =>
       /\ resolutions[t].requestId <= requestCounter
       /\ requestToTableId[resolutions[t].requestId] = t
  /\ \A id \in RequestIds : requestToTableId[id] # 0 =>
       resolutions[requestToTableId[id]].requestId = id
  /\ \A t \in TableIds : tables[t].closed /\ ~cancelled(t)
       <=> resolutions[t].requestId # 0

\* A closed table never reopens, takes no more stakes and keeps its split; a
\* resolved round keeps its outcome; a settled table stays settled.
TablesFinal ==
  [][ \A t \in TableIds :
        /\ tables[t].closed =>
             /\ tables'[t] = [tables[t] EXCEPT !.settled = tables'[t].settled]
             /\ takerAmounts'[t] = takerAmounts[t]
             /\ tables[t].settled => tables'[t].settled
        /\ resolutions[t].resolved => resolutions'[t] = resolutions[t] ]_vars

\* When the players win, every taker gets back at least twice the stake,
\* despite rounding, in whatever order they joined.
WinnersDoubled ==
  [][ \A t \in TableIds :
        ~tables[t].settled /\ tables'[t].settled
          /\ ~cancelled(t)' /\ resolutions[t].outcome = "PlayerWin" =>
          \A p \in takersOf(t) :
            token'.balance[p] - token.balance[p] >= 2 * takerAmounts[t][p] ]_vars

\* The tables together are an escrow that returns what it was given, once.
Escrow == INSTANCE WagerEscrow
  WITH Games <- TableIds,
       Supply <- InitialBalance * Cardinality(Players),
       Cap <- MaxSupply,
       circulating <- token.totalSupply,
       issued <- SumFunction(claimMinted),
       escrow <- [t \in TableIds |-> openEscrow(t)],
       over <- [t \in TableIds |-> tables[t].settled]

ImplementsEscrow == Escrow!Spec

\* A table that has takers is settled, if in the end its module is settlable
\* and its expression compatible: a banker who never closes it, a retired
\* module or a late answer of the coordinator cannot hold the stakes.
StaysSettlable(t) ==
  /\ settlable
  /\ Registry!isExpressionCompatible(
       Catalog!getModuleByController(cheminController).engineType,
       tables[t].expressionTokenId)

TablesSettle ==
  \A t \in TableIds :
    <>[]StaysSettlable(t) => (takersOf(t) # {} ~> tables[t].settled)
=============================================================================
