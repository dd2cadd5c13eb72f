------------------------- MODULE CheminDeFerProofs -------------------------
(***************************************************************************)
(* Proofs that a chemin de fer table's escrow splits exactly, that answers *)
(* of the coordinator reach the table that asked, that closed tables are   *)
(* final, that every taker is listed and, when the players win, doubled,   *)
(* and that the tables implement the abstract escrow: for every escrow,    *)
(* stake, risk multiplier, number of tables and players, and whatever the  *)
(* rest of the protocol does.                                              *)
(***************************************************************************)
EXTENDS CheminDeFer, SettlementProofs

\* The rounding fact behind the cap: what W * escrow / R takers stake is
\* matched by at most the escrow.
LEMMA CapCoversRisk ==
  ASSUME NEW W \in Nat \ {0}, NEW R \in Nat \ {0},
         NEW escrow \in Nat, NEW stake \in Nat, stake <= (escrow * W) \div R
  PROVE  (stake * R) \div W <= escrow
<1> DEFINE cap == (escrow * W) \div R
<1>1. cap \in Nat /\ cap * R <= escrow * W
  OBVIOUS
<1>2. stake * R <= cap * R
  BY <1>1
<1>3. stake * R <= escrow * W
  BY <1>1, <1>2
<1>4. (stake * R) \div W <= (escrow * W) \div W
  BY <1>3
<1>5. (escrow * W) \div W = escrow
  OBVIOUS
<1>6. QED BY <1>4, <1>5

-----------------------------------------------------------------------------
(* The inductive invariant.                                                *)

\* One table: an open one still owes the banker all of the escrow, a closed
\* one has split it, and the takers are within the cap either way.
TableInv(table) ==
  /\ table \in Table
  /\ table.totalPlayerTake <= playerTakeCap(table.bankerEscrow)
  /\ ~table.closed =>
       /\ ~table.settled
       /\ table.matchedBankerRisk = 0
       /\ table.unmatchedBankerRefund = table.bankerEscrow
  /\ table.closed =>
       /\ table.matchedBankerRisk = matchedBankerRisk(table.totalPlayerTake)
       /\ table.unmatchedBankerRefund
            = table.bankerEscrow - table.matchedBankerRisk

\* The tables not opened yet are blank.
TablesInv ==
  /\ now \in Nat
  /\ nextTableId \in Nat \ {0}
  /\ tables \in [TableIds -> Table]
  /\ DOMAIN takerAmounts = TableIds
  /\ \A t \in TableIds : TableInv(tables[t])
  /\ \A t \in TableIds : t >= nextTableId => tables[t] = NoTable

LEMMA NoTableInv == TableInv(NoTable)
  BY CheminAssumption
  DEF TableInv, NoTable, Table, playerTakeCap

\* Closing a table cannot underflow.
LEMMA RiskWithinEscrow ==
  ASSUME NEW table, TableInv(table)
  PROVE  /\ matchedBankerRisk(table.totalPlayerTake) \in Nat
         /\ matchedBankerRisk(table.totalPlayerTake) <= table.bankerEscrow
<1>1. table \in Table /\ table.totalPlayerTake <= playerTakeCap(table.bankerEscrow)
  BY DEF TableInv
<1>2. /\ Wad \in Nat \ {0} /\ BANKER_RISK_PER_PLAYER_WAD \in Nat \ {0}
      /\ table.bankerEscrow \in Nat /\ table.totalPlayerTake \in Nat
  BY <1>1, CheminAssumption DEF Table
<1>3. matchedBankerRisk(table.totalPlayerTake) <= table.bankerEscrow
  BY <1>1, <1>2, CapCoversRisk DEF playerTakeCap, matchedBankerRisk
<1>4. matchedBankerRisk(table.totalPlayerTake) \in Nat
  BY <1>2 DEF matchedBankerRisk
<1>5. QED BY <1>3, <1>4

LEMMA ClosedTableInv ==
  ASSUME NEW table, TableInv(table), ~table.closed
  PROVE  /\ TableInv(closedTable(table))
         /\ closedTable(table).closed
         /\ closedTable(table).settled = table.settled
         /\ closedTable(table).totalPlayerTake = table.totalPlayerTake
<1> DEFINE risk == matchedBankerRisk(table.totalPlayerTake)
<1>1. table \in Table /\ table.totalPlayerTake <= playerTakeCap(table.bankerEscrow)
  BY DEF TableInv
<1>2. table.bankerEscrow \in Nat /\ table.totalPlayerTake \in Nat
  BY <1>1 DEF Table
<1>3. risk \in Nat /\ risk <= table.bankerEscrow
  BY RiskWithinEscrow
<1>4. closedTable(table) =
        [table EXCEPT !.closed = TRUE, !.matchedBankerRisk = risk,
                      !.unmatchedBankerRefund = table.bankerEscrow - risk]
  BY DEF closedTable
<1> HIDE DEF risk
<1>5. table.bankerEscrow - risk \in Nat
  BY <1>2, <1>3
<1>6. closedTable(table) \in Table
  BY <1>1, <1>3, <1>4, <1>5 DEF Table
<1>7. QED
  BY <1>1, <1>3, <1>4, <1>6 DEF TableInv, Table, risk

LEMMA TakenTableInv ==
  ASSUME NEW table, TableInv(table), ~table.closed, NEW amount \in Nat,
         table.totalPlayerTake + amount <= playerTakeCap(table.bankerEscrow)
  PROVE  LET taken == [table EXCEPT !.totalPlayerTake = @ + amount] IN
         /\ TableInv(taken)
         /\ ~taken.closed
         /\ taken.totalPlayerTake = table.totalPlayerTake + amount
  BY DEF TableInv, Table

LEMMA SettledTableInv ==
  ASSUME NEW table, TableInv(table), table.closed
  PROVE  TableInv([table EXCEPT !.settled = TRUE])
  BY DEF TableInv, Table

LEMMA CancelledTableInv ==
  ASSUME NEW table, TableInv(table), ~table.closed, table.totalPlayerTake = 0
  PROVE  TableInv([table EXCEPT !.closed = TRUE, !.settled = TRUE])
<1>1. matchedBankerRisk(0) = 0
  BY CheminAssumption DEF matchedBankerRisk
<1> DEFINE cancelledTable == [table EXCEPT !.closed = TRUE, !.settled = TRUE]
<1>2. /\ cancelledTable \in Table
      /\ cancelledTable.closed
      /\ cancelledTable.totalPlayerTake = 0
      /\ cancelledTable.bankerEscrow = table.bankerEscrow
      /\ cancelledTable.matchedBankerRisk = 0
      /\ cancelledTable.unmatchedBankerRefund = table.bankerEscrow
      /\ table.bankerEscrow \in Nat
  BY DEF TableInv, Table
<1>3. 0 <= playerTakeCap(table.bankerEscrow)
  BY DEF TableInv
<1> HIDE DEF cancelledTable
<1>4. TableInv(cancelledTable)
  BY <1>1, <1>2, <1>3 DEF TableInv
<1>5. QED BY <1>4 DEF cancelledTable

LEMMA TableInvSplits ==
  ASSUME TablesInv
  PROVE  EscrowSplit
<1> SUFFICES ASSUME NEW t \in TableIds
             PROVE
    /\ tables[t].totalPlayerTake <= playerTakeCap(tables[t].bankerEscrow)
    /\ matchedBankerRisk(tables[t].totalPlayerTake) <= tables[t].bankerEscrow
    /\ tables[t].matchedBankerRisk + tables[t].unmatchedBankerRefund
         = tables[t].bankerEscrow
    /\ tables[t].closed => tables[t].matchedBankerRisk
                            = matchedBankerRisk(tables[t].totalPlayerTake)
  BY DEF EscrowSplit
<1>1. TableInv(tables[t]) /\ tables[t] \in Table
  BY DEF TablesInv, TableInv
<1>2. matchedBankerRisk(tables[t].totalPlayerTake) <= tables[t].bankerEscrow
  BY <1>1, RiskWithinEscrow
<1>3. tables[t].closed =>
        tables[t].matchedBankerRisk = matchedBankerRisk(tables[t].totalPlayerTake)
  BY <1>1 DEF TableInv
<1>4. tables[t].matchedBankerRisk + tables[t].unmatchedBankerRefund
        = tables[t].bankerEscrow
  BY <1>1 DEF TableInv, Table
<1>5. tables[t].totalPlayerTake <= playerTakeCap(tables[t].bankerEscrow)
  BY <1>1 DEF TableInv
<1>6. QED BY <1>2, <1>3, <1>4, <1>5

\* The engine's mappings name each other.
RequestsInv ==
  /\ resolutions \in [TableIds -> [requestId: 0..MaxRequests, resolved: BOOLEAN,
                                   outcome: BaccaratOutcome]]
  /\ requestToTableId \in [RequestIds -> 0..MaxTables]
  /\ requestCounter \in 0..MaxRequests
  /\ \A t \in TableIds : resolutions[t].requestId # 0 =>
       /\ resolutions[t].requestId <= requestCounter
       /\ requestToTableId[resolutions[t].requestId] = t
  /\ \A id \in RequestIds : requestToTableId[id] # 0 =>
       resolutions[requestToTableId[id]].requestId = id
  /\ \A t \in TableIds : resolutions[t].resolved => resolutions[t].requestId # 0

\* A request is open exactly for the closed tables with takers; the others that
\* are closed were cancelled.
LinkInv ==
  \A t \in TableIds :
    /\ resolutions[t].requestId # 0
         <=> tables[t].closed /\ tables[t].totalPlayerTake > 0
    /\ tables[t].closed /\ tables[t].totalPlayerTake = 0 => tables[t].settled

IInv == TablesInv /\ RequestsInv /\ LinkInv

\* The step formula of TablesFinal, by parts.
FinalTables ==
  \A t \in TableIds : tables[t].closed =>
    /\ tables'[t] = [tables[t] EXCEPT !.settled = tables'[t].settled]
    /\ takerAmounts'[t] = takerAmounts[t]
    /\ tables[t].settled => tables'[t].settled

FinalRounds ==
  \A t \in TableIds : resolutions[t].resolved => resolutions'[t] = resolutions[t]

LEMMA InitIInv == Init => IInv
<1> SUFFICES ASSUME Init PROVE IInv
  OBVIOUS
<1>1. now = 0
  BY DEF Init, ProtocolInit, RewardsInit
<1>2. TablesInv
  BY <1>1, NoTableInv DEF Init, TablesInv, TableInv
<1>3. RequestsInv
  BY CheminAssumption
  DEF Init, RequestsInv, NoResolution, TableIds, RequestIds, BaccaratOutcome
<1>4. LinkInv
  BY DEF Init, LinkInv, NoTable, NoResolution
<1>5. QED BY <1>2, <1>3, <1>4 DEF IInv

LEMMA InvImpliesRequestsAddressed == IInv => RequestsAddressed
<1> SUFFICES ASSUME IInv PROVE RequestsAddressed
  OBVIOUS
<1>1. \A t \in TableIds : tables[t].closed /\ ~cancelled(t)
        <=> resolutions[t].requestId # 0
  <2> SUFFICES ASSUME NEW t \in TableIds
               PROVE  tables[t].closed /\ ~cancelled(t)
                        <=> resolutions[t].requestId # 0
    OBVIOUS
  <2>1. tables[t].totalPlayerTake \in Nat
    BY DEF IInv, TablesInv, Table
  <2>2. QED BY <2>1 DEF IInv, LinkInv, cancelled
<1>2. QED BY <1>1 DEF IInv, RequestsInv, RequestsAddressed

-----------------------------------------------------------------------------
(* Steps that several operations share.                                    *)

LEMMA UsedTable ==
  ASSUME TablesInv, NEW t \in TableIds, tables[t] # NoTable
  PROVE  t < nextTableId
  BY CheminAssumption DEF TablesInv, TableIds

\* One table that was opened moves to a value that keeps the invariant.
LEMMA UpdateTable ==
  ASSUME TablesInv, NEW t \in TableIds, t < nextTableId,
         NEW table, TableInv(table), tables' = [tables EXCEPT ![t] = table],
         nextTableId' = nextTableId, now' = now,
         DOMAIN takerAmounts' = DOMAIN takerAmounts
  PROVE  TablesInv'
<1>1. table \in Table
  BY DEF TableInv
<1>2. tables' \in [TableIds -> Table]
  BY <1>1 DEF TablesInv
<1>3. \A u \in TableIds : TableInv(tables'[u])
  BY DEF TablesInv
<1>4. \A u \in TableIds : u >= nextTableId => tables'[u] = NoTable
  BY CheminAssumption DEF TablesInv, TableIds
<1>5. QED BY <1>2, <1>3, <1>4 DEF TablesInv, TableInv, playerTakeCap, matchedBankerRisk

\* Opening a request files it under a fresh id and touches no other table's.
LEMMA RequestStep ==
  ASSUME RequestsInv, NEW t \in TableIds, requestResolution(t)
  PROVE  /\ RequestsInv'
         /\ resolutions'[t].requestId # 0
         /\ \A u \in TableIds : u # t => resolutions'[u] = resolutions[u]
         /\ FinalRounds
<1> DEFINE id == requestCounter + 1
<1>1. /\ requestCounter' = id /\ id \in RequestIds
      /\ resolutions[t].requestId = 0
      /\ resolutions' = [resolutions EXCEPT ![t].requestId = id]
      /\ requestToTableId' = [requestToTableId EXCEPT ![id] = t]
  BY CheminAssumption DEF requestResolution, RequestsInv, RequestIds
<1>2. requestToTableId[id] = 0
  BY <1>1 DEF RequestsInv, RequestIds, TableIds
<1> HIDE DEF id
<1>3. resolutions' \in [TableIds -> [requestId: 0..MaxRequests, resolved: BOOLEAN,
                                     outcome: BaccaratOutcome]]
  BY <1>1, SMTT(60) DEF RequestsInv, RequestIds
<1>4. /\ resolutions'[t].requestId = id
      /\ resolutions'[t].resolved = resolutions[t].resolved
      /\ \A u \in TableIds : u # t => resolutions'[u] = resolutions[u]
  BY <1>1 DEF RequestsInv
<1>5. /\ requestToTableId' \in [RequestIds -> 0..MaxTables]
      /\ requestToTableId'[id] = t
      /\ \A i \in RequestIds : i # id => requestToTableId'[i] = requestToTableId[i]
  BY <1>1, CheminAssumption DEF RequestsInv, TableIds
<1>6. id # 0 /\ requestCounter < id /\ id \in 0..MaxRequests
  BY <1>1, CheminAssumption DEF RequestIds, RequestsInv, id
<1>7. \A u \in TableIds : resolutions'[u].requestId # 0 =>
        /\ resolutions'[u].requestId <= requestCounter'
        /\ requestToTableId'[resolutions'[u].requestId] = u
  <2> SUFFICES ASSUME NEW u \in TableIds, resolutions'[u].requestId # 0
               PROVE  /\ resolutions'[u].requestId <= requestCounter'
                      /\ requestToTableId'[resolutions'[u].requestId] = u
    OBVIOUS
  <2>1. CASE u = t
    BY <2>1, <1>1, <1>4, <1>5, <1>6
  <2>2. CASE u # t
    <3>1. resolutions[u].requestId \in 1..requestCounter
      BY <2>2, <1>4 DEF RequestsInv
    <3>2. QED
      BY <2>2, <3>1, <1>1, <1>4, <1>5, <1>6, CheminAssumption
      DEF RequestsInv, RequestIds
  <2>3. QED BY <2>1, <2>2
<1>8. \A i \in RequestIds : requestToTableId'[i] # 0 =>
        resolutions'[requestToTableId'[i]].requestId = i
  <2> SUFFICES ASSUME NEW i \in RequestIds, requestToTableId'[i] # 0
               PROVE  resolutions'[requestToTableId'[i]].requestId = i
    OBVIOUS
  <2>1. CASE i = id
    BY <2>1, <1>4, <1>5
  <2>2. CASE i # id
    <3> DEFINE u == requestToTableId[i]
    <3>1. requestToTableId'[i] = u /\ u \in TableIds
      BY <2>2, <1>5, CheminAssumption DEF RequestsInv, TableIds
    <3>2. resolutions[u].requestId = i
      BY <3>1 DEF RequestsInv, TableIds
    <3>3. u # t
      BY <3>2, <1>1 DEF RequestIds
    <3>4. QED BY <3>1, <3>2, <3>3, <1>4
  <2>3. QED BY <2>1, <2>2
<1>9. \A u \in TableIds :
        resolutions'[u].resolved => resolutions'[u].requestId # 0
  BY <1>4, <1>6 DEF RequestsInv
<1>10. RequestsInv'
  BY <1>1, <1>3, <1>5, <1>6, <1>7, <1>8, <1>9 DEF RequestsInv
<1>11. FinalRounds
  BY <1>1, <1>4 DEF FinalRounds, RequestsInv
<1>12. QED BY <1>4, <1>6, <1>10, <1>11

LEMMA SameRecord ==
  ASSUME NEW table \in Table
  PROVE  table = [table EXCEPT !.settled = table.settled]
  BY DEF Table

LEMMA SameTablesFinal ==
  ASSUME TablesInv, UNCHANGED <<tables, takerAmounts>>
  PROVE  FinalTables
  BY SameRecord DEF TablesInv, FinalTables

LEMMA OneOpenTableFinal ==
  ASSUME TablesInv, NEW t \in TableIds, ~tables[t].closed, NEW table,
         tables' = [tables EXCEPT ![t] = table],
         \A u \in TableIds : u # t => takerAmounts'[u] = takerAmounts[u]
  PROVE  FinalTables
<1>1. \A u \in TableIds : u # t => tables'[u] = tables[u]
  BY DEF TablesInv
<1>2. QED BY <1>1, SameRecord DEF TablesInv, FinalTables

LEMMA LinkStep ==
  ASSUME TablesInv, LinkInv, NEW t \in TableIds, NEW table,
         tables' = [tables EXCEPT ![t] = table],
         \A u \in TableIds : u # t => resolutions'[u] = resolutions[u],
         resolutions'[t].requestId # 0 <=> table.closed /\ table.totalPlayerTake > 0,
         table.closed /\ table.totalPlayerTake = 0 => table.settled
  PROVE  LinkInv'
<1>1. /\ tables'[t] = table
      /\ \A u \in TableIds : u # t => tables'[u] = tables[u]
  BY DEF TablesInv
<1>2. QED BY <1>1 DEF LinkInv

-----------------------------------------------------------------------------
(* One lemma per operation.                                                *)

LEMMA OpenTableStep ==
  ASSUME IInv, NEW banker \in Players, NEW bet \in Bets, NEW x,
         openTable(banker, bet, x), x \in Nat
  PROVE  IInv' /\ FinalTables /\ FinalRounds
<1> DEFINE opened == [NoTable EXCEPT !.banker = banker, !.bankerEscrow = bet,
                                     !.joinDeadline = now + JOIN_WINDOW,
                                     !.unmatchedBankerRefund = bet,
                                     !.expressionTokenId = x]
<1>1. /\ nextTableId \in TableIds /\ nextTableId \in Nat
      /\ nextTableId' = nextTableId + 1
      /\ tables' = [tables EXCEPT ![nextTableId] = opened]
      /\ UNCHANGED <<now, takerAmounts, engineVars>>
      /\ now \in Nat /\ bet \in Nat /\ now + JOIN_WINDOW \in Nat
  BY CheminAssumption
  DEF openTable, IInv, TablesInv, TableIds, rewardsVars
<1>2. /\ opened \in Table
      /\ ~opened.closed /\ ~opened.settled
      /\ opened.totalPlayerTake = 0 /\ opened.matchedBankerRisk = 0
      /\ opened.bankerEscrow = bet /\ opened.unmatchedBankerRefund = bet
  BY <1>1 DEF NoTable, Table
<1>3. 0 <= playerTakeCap(bet)
  BY <1>1, CheminAssumption DEF playerTakeCap
<1> HIDE DEF opened
<1>4. TableInv(opened)
  BY <1>2, <1>3 DEF TableInv
<1>5. /\ tables[nextTableId] = NoTable
      /\ ~tables[nextTableId].closed
      /\ tables \in [TableIds -> Table]
  BY <1>1 DEF IInv, TablesInv, NoTable
<1>6. TablesInv'
  <2>1. tables' \in [TableIds -> Table]
    BY <1>1, <1>2, <1>5
  <2>2. \A u \in TableIds : TableInv(tables'[u])
    BY <1>1, <1>4, <1>5 DEF IInv, TablesInv
  <2>3. \A u \in TableIds : u >= nextTableId + 1 => tables'[u] = NoTable
    BY <1>1, <1>5, CheminAssumption DEF IInv, TablesInv, TableIds
  <2>4. now' \in Nat /\ nextTableId' \in Nat \ {0} /\ DOMAIN takerAmounts' = TableIds
    BY <1>1 DEF IInv, TablesInv
  <2>5. QED BY <1>1, <2>1, <2>2, <2>3, <2>4
    DEF TablesInv, TableInv, playerTakeCap, matchedBankerRisk
<1>7. RequestsInv' /\ FinalRounds /\ UNCHANGED resolutions
  BY <1>1 DEF IInv, RequestsInv, engineVars, FinalRounds
<1>8. LinkInv'
  <2>1. resolutions[nextTableId].requestId = 0
    BY <1>1, <1>5 DEF IInv, LinkInv
  <2>2. QED BY <2>1, <1>1, <1>2, <1>7, LinkStep DEF IInv
<1>9. FinalTables
  BY <1>1, <1>5, OneOpenTableFinal DEF IInv
<1>10. QED BY <1>6, <1>7, <1>8, <1>9 DEF IInv

\* Closing one open table whose takes are total, from its value so far.
LEMMA CloseStep ==
  ASSUME IInv, NEW t \in TableIds, NEW table, TableInv(table), ~table.closed,
         table.totalPlayerTake > 0, t < nextTableId, ~tables[t].closed,
         tables' = [tables EXCEPT ![t] = closedTable(table)],
         requestResolution(t), nextTableId' = nextTableId, now' = now,
         DOMAIN takerAmounts' = DOMAIN takerAmounts,
         \A u \in TableIds : u # t => takerAmounts'[u] = takerAmounts[u]
  PROVE  IInv' /\ FinalTables /\ FinalRounds
<1>1. /\ TableInv(closedTable(table))
      /\ closedTable(table).closed
      /\ closedTable(table).totalPlayerTake = table.totalPlayerTake
  BY ClosedTableInv
<1>2. TablesInv'
  BY <1>1, UpdateTable DEF IInv
<1>3. /\ RequestsInv' /\ FinalRounds
      /\ resolutions'[t].requestId # 0
      /\ \A u \in TableIds : u # t => resolutions'[u] = resolutions[u]
  BY RequestStep DEF IInv
<1>4. table.totalPlayerTake \in Nat
  BY DEF TableInv, Table
<1>5. LinkInv'
  <2> DEFINE c == closedTable(table)
  <2>1. /\ resolutions'[t].requestId # 0 <=> c.closed /\ c.totalPlayerTake > 0
        /\ c.closed /\ c.totalPlayerTake = 0 => c.settled
    BY <1>1, <1>3, <1>4
  <2>2. tables' = [tables EXCEPT ![t] = c]
    OBVIOUS
  <2> HIDE DEF c
  <2>3. QED BY <1>3, <2>1, <2>2, LinkStep DEF IInv
<1>6. FinalTables
  BY OneOpenTableFinal DEF IInv
<1>7. QED BY <1>2, <1>3, <1>5, <1>6 DEF IInv

LEMMA TakeStep ==
  ASSUME IInv, NEW t \in TableIds, NEW taker \in Players, NEW amount \in Takes,
         take(t, taker, amount)
  PROVE  IInv' /\ FinalTables /\ FinalRounds
<1> DEFINE taken == [tables[t] EXCEPT !.totalPlayerTake = @ + amount]
           full == taken.totalPlayerTake = playerTakeCap(tables[t].bankerEscrow)
<1>1. /\ amount \in Nat /\ amount > 0
      /\ exists(t) /\ ~tables[t].closed
      /\ taken.totalPlayerTake <= playerTakeCap(tables[t].bankerEscrow)
      /\ takerAmounts' = [takerAmounts EXCEPT ![t][taker] = @ + amount]
      /\ UNCHANGED <<now, nextTableId>>
      /\ \/ full /\ tables' = [tables EXCEPT ![t] = closedTable(taken)]
                 /\ requestResolution(t)
         \/ ~full /\ tables' = [tables EXCEPT ![t] = taken]
                  /\ UNCHANGED engineVars
  BY CheminAssumption DEF take, rewardsVars
<1>2. /\ TableInv(tables[t]) /\ tables[t] \in Table
      /\ tables[t].totalPlayerTake \in Nat
      /\ t < nextTableId
  <2>1. tables[t] # NoTable
    BY <1>1 DEF exists, NoTable
  <2>2. QED BY <2>1, UsedTable DEF IInv, TablesInv, Table
<1>3. taken.totalPlayerTake = tables[t].totalPlayerTake + amount
  BY <1>2 DEF Table
<1>4. TableInv(taken) /\ ~taken.closed /\ taken.totalPlayerTake > 0
  BY <1>1, <1>2, <1>3, TakenTableInv
<1>5. /\ DOMAIN takerAmounts' = DOMAIN takerAmounts
      /\ \A u \in TableIds : u # t => takerAmounts'[u] = takerAmounts[u]
  BY <1>1 DEF IInv, TablesInv
<1> HIDE DEF taken
<1>6. CASE full /\ tables' = [tables EXCEPT ![t] = closedTable(taken)]
                /\ requestResolution(t)
  BY <1>1, <1>2, <1>4, <1>5, <1>6, CloseStep
<1>7. CASE ~full /\ tables' = [tables EXCEPT ![t] = taken] /\ UNCHANGED engineVars
  <2>1. TablesInv'
    BY <1>1, <1>2, <1>4, <1>5, <1>7, UpdateTable DEF IInv
  <2>2. RequestsInv' /\ FinalRounds /\ UNCHANGED resolutions
    BY <1>7 DEF IInv, RequestsInv, engineVars, FinalRounds
  <2>3. LinkInv'
    <3>1. resolutions[t].requestId = 0
      BY <1>1 DEF IInv, LinkInv
    <3>2. QED BY <3>1, <1>4, <1>7, <2>2, LinkStep DEF IInv
  <2>4. FinalTables
    BY <1>1, <1>5, <1>7, OneOpenTableFinal DEF IInv
  <2>5. QED BY <2>1, <2>2, <2>3, <2>4 DEF IInv
<1>8. QED BY <1>1, <1>6, <1>7

LEMMA CloseTableStep ==
  ASSUME IInv, NEW t \in TableIds,
         closeAndRequestResolution(t), tables[t].totalPlayerTake > 0
  PROVE  IInv' /\ FinalTables /\ FinalRounds
<1>1. /\ ~tables[t].closed
      /\ tables' = [tables EXCEPT ![t] = closedTable(tables[t])]
      /\ requestResolution(t)
      /\ UNCHANGED <<nextTableId, takerAmounts, now>>
  BY DEF closeAndRequestResolution, protocolVars, rewardsVars
<1>2. TableInv(tables[t])
  BY DEF IInv, TablesInv
<1>3. t < nextTableId
  <2>1. tables[t] # NoTable
    BY DEF NoTable
  <2>2. QED BY <2>1, UsedTable DEF IInv
<1>4. QED BY <1>1, <1>2, <1>3, CloseStep

LEMMA CancelTableStep ==
  ASSUME IInv, NEW t \in TableIds, NEW caller, cancelTable(t, caller)
  PROVE  IInv' /\ FinalTables /\ FinalRounds
<1> DEFINE over == [tables[t] EXCEPT !.closed = TRUE, !.settled = TRUE]
<1>1. /\ exists(t) /\ ~tables[t].closed /\ tables[t].totalPlayerTake = 0
      /\ UNCHANGED <<nextTableId, takerAmounts, now, engineVars>>
  BY DEF cancelTable, rewardsVars
<1>2. tables \in [TableIds -> Table] /\ tables[t] \in Table /\ TableInv(tables[t])
  BY DEF IInv, TablesInv
<1>3. tables' = [tables EXCEPT ![t] = over]
  BY <1>2 DEF cancelTable
<1>4. TableInv(over)
  BY <1>1, <1>2, CancelledTableInv
<1>5. over.closed /\ over.settled /\ over.totalPlayerTake = 0
  BY <1>1, <1>2 DEF Table
<1> HIDE DEF over
<1>6. t < nextTableId
  <2>1. tables[t] # NoTable
    BY <1>1 DEF exists, NoTable
  <2>2. QED BY <2>1, UsedTable DEF IInv
<1>7. TablesInv'
  BY <1>1, <1>3, <1>4, <1>6, UpdateTable DEF IInv
<1>8. RequestsInv' /\ FinalRounds /\ UNCHANGED resolutions
  BY <1>1 DEF IInv, RequestsInv, engineVars, FinalRounds
<1>9. LinkInv'
  <2>1. resolutions[t].requestId = 0
    BY <1>1 DEF IInv, LinkInv
  <2>2. resolutions'[t].requestId # 0 <=> over.closed /\ over.totalPlayerTake > 0
    BY <2>1, <1>5, <1>8
  <2>3. QED BY <2>2, <1>3, <1>5, <1>8, LinkStep DEF IInv
<1>10. FinalTables
  BY <1>1, <1>3, OneOpenTableFinal DEF IInv
<1>11. QED BY <1>7, <1>8, <1>9, <1>10 DEF IInv

LEMMA SettleStep ==
  ASSUME IInv, NEW t \in TableIds, settle(t)
  PROVE  IInv' /\ FinalTables /\ FinalRounds
<1> DEFINE over == [tables[t] EXCEPT !.settled = TRUE]
<1>1. /\ exists(t) /\ tables[t].closed /\ ~tables[t].settled
      /\ UNCHANGED <<nextTableId, takerAmounts, engineVars>>
  BY DEF settle
<1>2. now' = now
  BY DEF settle, accrueDeveloperForExpression, rewardsVars, accrue
<1>3. tables \in [TableIds -> Table] /\ tables[t] \in Table /\ TableInv(tables[t])
  BY DEF IInv, TablesInv
<1>4. tables' = [tables EXCEPT ![t] = over]
  BY <1>3 DEF settle
<1>5. TableInv(over)
  BY <1>1, <1>3, SettledTableInv
<1>6. over.closed /\ over.settled /\ over.totalPlayerTake = tables[t].totalPlayerTake
  BY <1>1, <1>3 DEF Table
<1>7. \A u \in TableIds : u # t => tables'[u] = tables[u]
  BY <1>3, <1>4
<1>8. FinalTables
  <2>1. tables'[t] = over /\ tables'[t] = [tables[t] EXCEPT !.settled = tables'[t].settled]
    BY <1>3, <1>4, <1>6
  <2>2. QED BY <2>1, <1>1, <1>3, <1>6, <1>7, SameRecord DEF FinalTables
<1> HIDE DEF over
<1>9. t < nextTableId
  <2>1. tables[t] # NoTable
    BY <1>1 DEF exists, NoTable
  <2>2. QED BY <2>1, UsedTable DEF IInv
<1>10. TablesInv'
  BY <1>1, <1>2, <1>4, <1>5, <1>9, UpdateTable DEF IInv
<1>11. RequestsInv' /\ FinalRounds /\ UNCHANGED resolutions
  BY <1>1 DEF IInv, RequestsInv, engineVars, FinalRounds
<1>12. LinkInv'
  <2>1. resolutions[t].requestId # 0 <=> over.closed /\ over.totalPlayerTake > 0
    BY <1>1, <1>6 DEF IInv, LinkInv
  <2>2. QED BY <2>1, <1>4, <1>6, <1>11, LinkStep DEF IInv
<1>13. QED BY <1>8, <1>10, <1>11, <1>12 DEF IInv

LEMMA FulfillStep ==
  ASSUME IInv, NEW id \in RequestIds, NEW outcome \in BaccaratOutcome,
         rawFulfillRandomWords(id, outcome)
  PROVE  IInv' /\ FinalTables /\ FinalRounds
<1> DEFINE t == requestToTableId[id]
<1>1. /\ t \in TableIds /\ ~resolutions[t].resolved
      /\ resolutions' = [resolutions EXCEPT ![t].resolved = TRUE,
                                            ![t].outcome = outcome]
      /\ UNCHANGED <<now, controllerVars, requestToTableId, requestCounter>>
  BY CheminAssumption
  DEF rawFulfillRandomWords, IInv, RequestsInv, TableIds, protocolVars, rewardsVars
<1>2. /\ resolutions' \in [TableIds -> [requestId: 0..MaxRequests,
                                        resolved: BOOLEAN,
                                        outcome: BaccaratOutcome]]
      /\ \A u \in TableIds : resolutions'[u].requestId = resolutions[u].requestId
      /\ \A u \in TableIds : u # t => resolutions'[u] = resolutions[u]
  <2> DEFINE round == [resolutions[t] EXCEPT !.resolved = TRUE, !.outcome = outcome]
  <2>1. resolutions \in [TableIds -> [requestId: 0..MaxRequests, resolved: BOOLEAN,
                                      outcome: BaccaratOutcome]]
    BY DEF IInv, RequestsInv
  <2>2. resolutions' = [resolutions EXCEPT ![t] = round]
    BY <1>1, <2>1
  <2>3. /\ round \in [requestId: 0..MaxRequests, resolved: BOOLEAN,
                      outcome: BaccaratOutcome]
        /\ round.requestId = resolutions[t].requestId
    BY <1>1, <2>1
  <2> HIDE DEF round, t
  <2>4. QED BY <1>1, <2>1, <2>2, <2>3
<1>3. resolutions[t].requestId # 0
  <2>1. resolutions[t].requestId = id
    BY <1>1 DEF IInv, RequestsInv, TableIds
  <2>2. QED BY <2>1 DEF RequestIds
<1> HIDE DEF t
<1>4. RequestsInv' /\ FinalRounds
  <2>1. \A u \in TableIds :
          resolutions'[u].resolved => resolutions'[u].requestId # 0
    BY <1>2, <1>3 DEF IInv, RequestsInv
  <2>2. \A i \in RequestIds : requestToTableId[i] # 0 =>
          requestToTableId[i] \in TableIds
    BY CheminAssumption DEF IInv, RequestsInv, TableIds
  <2>3. QED BY <2>1, <2>2, <1>1, <1>2 DEF IInv, RequestsInv, FinalRounds
<1>5. TablesInv' /\ LinkInv'
  BY <1>1, <1>2
  DEF IInv, TablesInv, LinkInv, controllerVars, TableInv, playerTakeCap,
      matchedBankerRisk
<1>6. FinalTables
  BY <1>1, SameTablesFinal DEF IInv, controllerVars
<1>7. QED BY <1>4, <1>5, <1>6 DEF IInv

\* Steps that leave the tables and the rounds alone.
LEMMA OtherStep ==
  ASSUME IInv, now' \in Nat, UNCHANGED <<controllerVars, resolutions, requestToTableId>>,
         requestCounter' \in requestCounter..MaxRequests
  PROVE  IInv' /\ FinalTables /\ FinalRounds
<1>1. TablesInv' /\ LinkInv'
  BY DEF IInv, TablesInv, LinkInv, controllerVars, TableInv, playerTakeCap,
         matchedBankerRisk
<1>2. RequestsInv' /\ FinalRounds
  BY CheminAssumption DEF IInv, RequestsInv, FinalRounds
<1>3. FinalTables
  BY SameTablesFinal DEF IInv, controllerVars
<1>4. QED BY <1>1, <1>2, <1>3 DEF IInv

LEMMA StepIInv == IInv /\ [Next]_vars => IInv' /\ FinalTables /\ FinalRounds
<1> SUFFICES ASSUME IInv, [Next]_vars PROVE IInv' /\ FinalTables /\ FinalRounds
  OBVIOUS
<1>1. ASSUME NEW p \in Players, NEW bet \in Bets, NEW x \in 1..MaxExpressions,
             openTable(p, bet, x)
      PROVE  IInv' /\ FinalTables /\ FinalRounds
  <2>1. x \in Nat
    BY SettlementAssumption DEF Registry!RegistryAssumption
  <2>2. QED BY <1>1, <2>1, OpenTableStep
<1>2. ASSUME NEW t \in TableIds, NEW p \in Players, NEW amount \in Takes,
             take(t, p, amount)
      PROVE  IInv' /\ FinalTables /\ FinalRounds
  BY <1>2, TakeStep
<1>3. ASSUME NEW t \in TableIds, NEW p \in Players, closeTable(t, p)
      PROVE  IInv' /\ FinalTables /\ FinalRounds
  BY <1>3, CloseTableStep DEF closeTable
<1>4. ASSUME NEW t \in TableIds, NEW p \in Players, cancelTable(t, p)
      PROVE  IInv' /\ FinalTables /\ FinalRounds
  BY <1>4, CancelTableStep
<1>5. ASSUME NEW t \in TableIds, forceCloseTable(t)
      PROVE  IInv' /\ FinalTables /\ FinalRounds
  BY <1>5, CloseTableStep DEF forceCloseTable
<1>6. ASSUME NEW t \in TableIds, settle(t)
      PROVE  IInv' /\ FinalTables /\ FinalRounds
  BY <1>6, SettleStep
<1>7. ASSUME NEW id \in RequestIds, NEW outcome \in BaccaratOutcome,
             rawFulfillRandomWords(id, outcome)
      PROVE  IInv' /\ FinalTables /\ FinalRounds
  BY <1>7, FulfillStep
<1>8. CASE OtherEngineRequests
  <2> DEFINE unasked == {t \in TableIds : resolutions[t].requestId = 0}
  <2>1. /\ requestCounter + Cardinality(unasked) < MaxRequests
        /\ requestCounter' = requestCounter + 1
        /\ UNCHANGED <<controllerVars, resolutions, requestToTableId, now>>
    BY <1>8 DEF OtherEngineRequests, protocolVars, rewardsVars
  <2>2. Cardinality(unasked) \in Nat
    <3>1. IsFiniteSet(TableIds)
      BY FS_Interval, CheminAssumption DEF TableIds
    <3>2. IsFiniteSet(unasked)
      BY <3>1, FS_Subset
    <3>3. QED BY <3>2, FS_CardinalityType
  <2> HIDE DEF unasked
  <2>3. requestCounter' \in requestCounter..MaxRequests
    BY <2>1, <2>2, CheminAssumption DEF IInv, RequestsInv
  <2>4. now' \in Nat
    BY <2>1 DEF IInv, TablesInv
  <2>5. QED BY <2>1, <2>3, <2>4, OtherStep
<1>9. CASE ProtocolNext /\ UNCHANGED <<controllerVars, engineVars>>
  <2>1. now' = now \/ now' = now + 1
    BY <1>9
    DEF ProtocolNext, Govern, ManageExpressions, Approve, RunEpochs, Claim,
        rewardsVars, Tick, closeCurrentEpoch,
        setEpochDuration, claim
  <2>2. QED
    BY <1>9, <2>1, OtherStep, CheminAssumption
    DEF engineVars, IInv, TablesInv, RequestsInv
<1>10. CASE UNCHANGED vars
  BY <1>10, OtherStep, CheminAssumption
  DEF vars, protocolVars, rewardsVars, engineVars, IInv, TablesInv, RequestsInv
<1>11. QED
  BY <1>1, <1>2, <1>3, <1>4, <1>5, <1>6, <1>7, <1>8, <1>9, <1>10
  DEF Next, TableNext

-----------------------------------------------------------------------------
(* The shares of a pool.                                                   *)

LEMMA ProductCancels ==
  ASSUME NEW T \in Nat \ {0}, NEW x \in Int, NEW y \in Int, T * x <= T * y
  PROVE  x <= y
<1> SUFFICES ASSUME x > y PROVE FALSE
  OBVIOUS
<1>1. x = y + (x - y) /\ x - y \in Nat \ {0}
  OBVIOUS
<1>2. \A d \in Nat \ {0} : T * (y + d) = T * y + T * d /\ T * d > 0 /\ T * d \in Nat
  OBVIOUS
<1>3. T * x = T * y + T * (x - y) /\ T * (x - y) > 0 /\ T * (x - y) \in Nat
  BY <1>1, <1>2
<1>4. T * y \in Int
  OBVIOUS
<1>5. QED BY <1>3, <1>4

\* Rounded-down shares of a pool, cut in proportion to stakes, add up to no
\* more than the proportion of all the stakes they are cut for.
LEMMA SharesFit ==
  ASSUME NEW S, IsFiniteSet(S), NEW stake, NEW share,
         NEW pool \in Nat, NEW T \in Nat \ {0},
         \A p \in S : stake[p] \in Nat /\ share[p] = (pool * stake[p]) \div T
  PROVE  /\ SumFunctionOnSet(share, S) \in Nat
         /\ T * SumFunctionOnSet(share, S) <= pool * SumFunctionOnSet(stake, S)
<1> DEFINE lhs == [p \in S |-> T * share[p]]
           rhs == [p \in S |-> pool * stake[p]]
<1>1. ASSUME NEW p \in S
      PROVE  /\ share[p] \in Nat /\ stake[p] \in Nat
             /\ lhs[p] = T * share[p] /\ rhs[p] = pool * stake[p]
             /\ lhs[p] \in Int /\ rhs[p] \in Int /\ lhs[p] <= rhs[p]
  <2>1. pool * stake[p] \in Nat
    OBVIOUS
  <2>2. share[p] \in Nat /\ T * share[p] <= pool * stake[p]
    BY <2>1, QuotientBounds
  <2>3. T * share[p] \in Nat
    BY <2>2
  <2>4. QED BY <2>1, <2>2, <2>3
<1> HIDE DEF lhs, rhs
<1>2. SumFunctionOnSet(share, S) \in Nat
  BY <1>1, SumOfNaturals
<1>3. SumFunctionOnSet(lhs, S) = T * SumFunctionOnSet(share, S)
  <2>1. \A p \in S : share[p] \in Int /\ lhs[p] = T * share[p]
    BY <1>1
  <2>2. QED BY <2>1, SumScaled
<1>4. SumFunctionOnSet(rhs, S) = pool * SumFunctionOnSet(stake, S)
  <2>1. \A p \in S : stake[p] \in Int /\ rhs[p] = pool * stake[p]
    BY <1>1
  <2>2. QED BY <2>1, SumScaled
<1>5. SumFunctionOnSet(lhs, S) <= SumFunctionOnSet(rhs, S)
  BY <1>1, SumOrdered
<1>6. QED BY <1>2, <1>3, <1>4, <1>5

\* The last of the stakes is paid what the shares of the others leave: never
\* less than nothing, and twice the stake if the pool is twice all the stakes.
LEMMA LastShare ==
  ASSUME NEW others \in Nat, NEW last \in Nat, NEW paidToOthers \in Nat,
         NEW pool \in Nat, NEW T \in Nat \ {0}, T = others + last,
         T * paidToOthers <= pool * others, pool >= 2 * T
  PROVE  pool - paidToOthers \in Nat /\ pool - paidToOthers >= 2 * last
<1> DEFINE left == pool - paidToOthers
<1>1. T * left = T * pool - T * paidToOthers
  OBVIOUS
<1>2. T * pool = pool * others + pool * last
  OBVIOUS
<1>3. pool * last >= (2 * T) * last /\ (2 * T) * last = T * (2 * last)
  OBVIOUS
<1>4. /\ T * pool \in Nat /\ T * paidToOthers \in Nat /\ pool * others \in Nat
      /\ pool * last \in Nat /\ T * (2 * last) \in Nat
  OBVIOUS
<1>5. T * (2 * last) <= T * left
  BY <1>1, <1>2, <1>3, <1>4
<1>6. 2 * last <= left
  BY <1>5, ProductCancels
<1>7. QED BY <1>6

\* A rounded-down share of such a pool doubles its stake too.
LEMMA OtherShare ==
  ASSUME NEW stake \in Nat, NEW pool \in Nat, NEW T \in Nat \ {0}, pool >= 2 * T
  PROVE  (pool * stake) \div T \in Nat /\ (pool * stake) \div T >= 2 * stake
<1>1. pool * stake \in Nat /\ (2 * T) * stake <= pool * stake
  BY ProductOrdered
<1>2. T * (2 * stake) <= pool * stake
  BY <1>1
<1>3. 2 * stake <= (pool * stake) \div T
  BY <1>1, <1>2, QuotientIsLargest
<1>4. QED BY <1>1, <1>3, QuotientBounds

-----------------------------------------------------------------------------
(* The takers of a table.                                                  *)

TakersInv ==
  /\ takerAmounts \in [TableIds -> [Players -> Nat]]
  /\ tableTakers \in [TableIds -> Seq(Players)]
  /\ \A t \in TableIds :
       /\ IsInjective(tableTakers[t])
       /\ Range(tableTakers[t]) = takersOf(t)
       /\ tables[t].banker \notin takersOf(t)
       /\ SumFunction(takerAmounts[t]) = tables[t].totalPlayerTake
       /\ exists(t) => tables[t].bankerEscrow > 0

\* The whole invariant: tables, requests, takers and the settlement layer.
CheminInv == IInv /\ SettlementInv /\ TakersInv

LEMMA StakesSummable ==
  ASSUME TakersInv, NEW t \in TableIds
  PROVE  /\ DOMAIN takerAmounts[t] = Players /\ IsFiniteSet(Players)
         /\ Summable(takerAmounts[t])
         /\ \A p \in Players : /\ takerAmounts[t][p] \in Nat
                               /\ takerAmounts[t][p] <= tables[t].totalPlayerTake
<1>1. DOMAIN takerAmounts[t] = Players /\ \A p \in Players : takerAmounts[t][p] \in Nat
  BY DEF TakersInv
<1>2. IsFiniteSet(Players)
  BY SettlementAssumption
<1>3. SumFunction(takerAmounts[t]) = tables[t].totalPlayerTake
  BY DEF TakersInv
<1>4. QED BY <1>1, <1>2, <1>3, SumOfNats

LEMMA NobodyTook ==
  ASSUME TakersInv, NEW t \in TableIds, tables[t].totalPlayerTake = 0
  PROVE  takersOf(t) = {}
<1>1. ASSUME NEW p \in Players PROVE ~(takerAmounts[t][p] > 0)
  BY StakesSummable
<1>2. QED BY <1>1 DEF takersOf

\* The stakes of the takers are the stakes of all players.
LEMMA TakersStake ==
  ASSUME TakersInv, NEW t \in TableIds
  PROVE  /\ takersOf(t) \subseteq Players /\ IsFiniteSet(takersOf(t))
         /\ SumFunctionOnSet(takerAmounts[t], takersOf(t)) = tables[t].totalPlayerTake
<1> DEFINE a == takerAmounts[t]
<1>1. /\ takersOf(t) \subseteq Players
      /\ \A p \in Players \ takersOf(t) : ~(a[p] > 0)
  BY DEF takersOf
<1>2. DOMAIN a = Players /\ IsFiniteSet(Players) /\ \A p \in Players : a[p] \in Nat
  BY StakesSummable
<1>3. \A p \in Players \ takersOf(t) : a[p] = 0
  BY <1>1, <1>2
<1>4. SumFunction(a) = tables[t].totalPlayerTake
  BY DEF TakersInv
<1>5. \A p \in takersOf(t) : a[p] \in Int
  BY <1>1, <1>2
<1> HIDE DEF a
<1>6. SumFunction(a) = SumFunctionOnSet(a, takersOf(t))
  BY <1>1, <1>2, <1>3, <1>5, SumOfSupport
<1>7. IsFiniteSet(takersOf(t))
  BY <1>1, <1>2, FS_Subset
<1>8. QED BY <1>1, <1>4, <1>6, <1>7 DEF a

\* Steps that leave the stakes, the bankers and the totals alone.
LEMMA SameTakers ==
  ASSUME TakersInv, UNCHANGED <<tableTakers, takerAmounts>>,
         \A t \in TableIds :
           /\ tables'[t].banker = tables[t].banker
           /\ tables'[t].bankerEscrow = tables[t].bankerEscrow
           /\ tables'[t].totalPlayerTake = tables[t].totalPlayerTake
  PROVE  TakersInv'
<1> SUFFICES ASSUME NEW t \in TableIds
             PROVE  TakersInv!3!(t)'
  BY DEF TakersInv
<1>1. takersOf(t)' = takersOf(t)
  BY DEF takersOf
<1>2. QED BY <1>1 DEF TakersInv, exists

LEMMA OpenedKeepsTakers ==
  ASSUME TakersInv, NEW t \in TableIds, NEW banker \in Players, NEW bet \in Nat,
         bet > 0, UNCHANGED <<tableTakers, takerAmounts>>,
         tables[t].totalPlayerTake = 0,
         tables'[t].banker = banker, tables'[t].bankerEscrow = bet,
         tables'[t].totalPlayerTake = 0,
         \A u \in TableIds : u # t => tables'[u] = tables[u]
  PROVE  TakersInv'
<1> SUFFICES ASSUME NEW u \in TableIds
             PROVE  TakersInv!3!(u)'
  BY DEF TakersInv
<1>1. takersOf(u)' = takersOf(u)
  BY DEF takersOf
<1>2. CASE u # t
  BY <1>1, <1>2 DEF TakersInv, exists
<1>3. CASE u = t
  <2>1. takersOf(t) = {}
    BY NobodyTook
  <2>2. QED BY <1>1, <1>3, <2>1 DEF TakersInv, exists
<1>4. QED BY <1>2, <1>3

LEMMA AppendListed ==
  ASSUME NEW S, NEW s \in Seq(S), NEW p \in S, IsInjective(s), p \notin Range(s)
  PROVE  /\ Append(s, p) \in Seq(S) /\ IsInjective(Append(s, p))
         /\ Range(Append(s, p)) = Range(s) \cup {p}
<1> DEFINE n == Len(s)
           r == Append(s, p)
<1>1. /\ r \in Seq(S) /\ n \in Nat /\ DOMAIN s = 1..n /\ DOMAIN r = 1..(n + 1)
      /\ r[n + 1] = p /\ \A i \in 1..n : r[i] = s[i]
  OBVIOUS
<1>2. \A i \in 1..n : s[i] # p
  BY <1>1 DEF Range
<1>3. \A i, j \in 1..n : s[i] = s[j] => i = j
  BY <1>1 DEF IsInjective
<1> HIDE DEF n, r
<1>4. IsInjective(r)
  <2>1. ASSUME NEW i \in 1..(n + 1), NEW j \in 1..(n + 1), r[i] = r[j]
        PROVE  i = j
    <3>1. (i \in 1..n \/ i = n + 1) /\ (j \in 1..n \/ j = n + 1)
      BY <1>1
    <3>2. QED BY <1>1, <1>2, <1>3, <2>1, <3>1
  <2>2. QED BY <1>1, <2>1 DEF IsInjective
<1>5. Range(r) = Range(s) \cup {p}
  <2>1. 1..(n + 1) = 1..n \cup {n + 1}
    BY <1>1
  <2>2. QED BY <1>1, <2>1 DEF Range
<1>6. QED BY <1>1, <1>4, <1>5 DEF r

LEMMA TakenKeepsTakers ==
  ASSUME TakersInv, NEW t \in TableIds, NEW taker \in Players, NEW amount \in Nat,
         amount > 0, taker # tables[t].banker,
         tableTakers' = IF takerAmounts[t][taker] = 0
                          THEN [tableTakers EXCEPT ![t] = Append(tableTakers[t], taker)]
                          ELSE tableTakers,
         takerAmounts' = [takerAmounts EXCEPT ![t][taker] = @ + amount],
         tables'[t].banker = tables[t].banker,
         tables'[t].bankerEscrow = tables[t].bankerEscrow,
         tables'[t].totalPlayerTake = tables[t].totalPlayerTake + amount,
         \A u \in TableIds : u # t => tables'[u] = tables[u]
  PROVE  TakersInv'
<1> DEFINE a == takerAmounts[t]
           b == [a EXCEPT ![taker] = a[taker] + amount]
           s == tableTakers[t]
<1>1. /\ a \in [Players -> Nat] /\ b \in [Players -> Nat]
      /\ takerAmounts' = [takerAmounts EXCEPT ![t] = b]
      /\ takerAmounts' \in [TableIds -> [Players -> Nat]]
      /\ takerAmounts'[t] = b
      /\ \A u \in TableIds : u # t => takerAmounts'[u] = takerAmounts[u]
  BY DEF TakersInv
<1>2. /\ b[taker] = a[taker] + amount
      /\ \A p \in Players \ {taker} : b[p] = a[p]
  BY <1>1
<1>3. s \in Seq(Players) /\ IsInjective(s) /\ Range(s) = takersOf(t)
  BY DEF TakersInv
<1>4. takersOf(t) = {p \in Players : a[p] > 0} /\ takersOf(t)' = {p \in Players : b[p] > 0}
  BY <1>1 DEF takersOf
<1> HIDE DEF a, b
<1>5. takersOf(t)' = takersOf(t) \cup {taker}
  BY <1>1, <1>2, <1>4
<1>6. /\ tableTakers' \in [TableIds -> Seq(Players)]
      /\ IsInjective(tableTakers'[t]) /\ Range(tableTakers'[t]) = takersOf(t)'
      /\ \A u \in TableIds : u # t => tableTakers'[u] = tableTakers[u]
  <2>1. CASE a[taker] = 0
    <3> DEFINE r == Append(s, taker)
    <3>1. tableTakers' = [tableTakers EXCEPT ![t] = r]
      BY <2>1 DEF a
    <3>2. taker \notin Range(s)
      BY <1>1, <1>3, <1>4, <2>1
    <3>3. r \in Seq(Players) /\ IsInjective(r) /\ Range(r) = Range(s) \cup {taker}
      BY <1>3, <3>2, AppendListed
    <3> HIDE DEF r, s
    <3>4. QED BY <1>3, <1>5, <3>1, <3>3 DEF TakersInv
  <2>2. CASE a[taker] # 0
    <3>1. tableTakers' = tableTakers
      BY <2>2 DEF a
    <3>2. taker \in takersOf(t)
      BY <1>1, <1>4, <2>2
    <3>3. QED BY <1>3, <1>5, <3>1, <3>2 DEF TakersInv
  <2>3. QED BY <2>1, <2>2
<1>7. SumFunction(b) = SumFunction(a) + amount
  <2>1. /\ DOMAIN a = Players /\ DOMAIN b = Players /\ Summable(a)
        /\ a[taker] \in Int /\ b[taker] \in Int
    BY <1>1, <1>2, StakesSummable DEF a
  <2>2. SumFunction(b) = SumFunction(a) - a[taker] + b[taker]
    BY <1>2, <2>1, SumChanged
  <2>3. SumFunction(a) \in Int
    BY <2>1, SumIsInteger
  <2>4. QED BY <1>2, <2>1, <2>2, <2>3
<1>8. SumFunction(a) = tables[t].totalPlayerTake
  BY DEF TakersInv, a
<1>9. ASSUME NEW u \in TableIds PROVE TakersInv!3!(u)'
  <2>1. CASE u = t
    <3>1. tables'[t].banker \notin takersOf(t)'
      BY <1>5 DEF TakersInv
    <3>2. SumFunction(takerAmounts'[t]) = tables'[t].totalPlayerTake
      BY <1>1, <1>7, <1>8
    <3>3. exists(t)' => tables'[t].bankerEscrow > 0
      BY DEF TakersInv, exists
    <3>4. QED BY <1>6, <2>1, <3>1, <3>2, <3>3
  <2>2. CASE u # t
    <3>1. takersOf(u)' = takersOf(u)
      BY <1>1, <2>2 DEF takersOf
    <3>2. /\ tables'[u] = tables[u] /\ tableTakers'[u] = tableTakers[u]
          /\ takerAmounts'[u] = takerAmounts[u]
      BY <1>1, <1>6, <2>2
    <3>3. exists(u)' <=> exists(u)
      BY <3>2 DEF exists
    <3>4. TakersInv!3!(u)
      BY DEF TakersInv
    <3>5. QED BY <3>1, <3>2, <3>3, <3>4
  <2>3. QED BY <2>1, <2>2
<1>10. QED BY <1>1, <1>6, <1>9 DEF TakersInv

-----------------------------------------------------------------------------
(* What settlement pays.                                                   *)

\* A table that is closed and was asked for has a pool of at least twice its
\* stakes.
Pooled(t) ==
  /\ tables[t].banker \in Players
  /\ tables[t].closed /\ tables[t].totalPlayerTake > 0

LEMMA PoolDoubles ==
  ASSUME IInv, NEW t \in TableIds, Pooled(t)
  PROVE  /\ tables[t].totalPlayerTake \in Nat \ {0}
         /\ matchedExposure(t) \in Nat
         /\ matchedExposure(t) >= 2 * tables[t].totalPlayerTake
         /\ tables[t].matchedBankerRisk \in Nat
         /\ matchedExposure(t) = tables[t].matchedBankerRisk + tables[t].totalPlayerTake
         /\ tables[t].unmatchedBankerRefund \in Nat /\ tables[t].bankerEscrow \in Nat
         /\ tables[t].unmatchedBankerRefund + tables[t].matchedBankerRisk
              = tables[t].bankerEscrow
<1> DEFINE T == tables[t].totalPlayerTake
           R == BANKER_RISK_PER_PLAYER_WAD
<1>1. /\ TableInv(tables[t]) /\ T \in Nat \ {0}
      /\ tables[t].matchedBankerRisk \in Nat
      /\ tables[t].unmatchedBankerRefund \in Nat /\ tables[t].bankerEscrow \in Nat
  BY DEF IInv, TablesInv, Table, Pooled
<1>2. /\ tables[t].matchedBankerRisk = (T * R) \div Wad
      /\ tables[t].unmatchedBankerRefund + tables[t].matchedBankerRisk
           = tables[t].bankerEscrow
  <2>1. /\ tables[t].matchedBankerRisk = matchedBankerRisk(T)
        /\ tables[t].unmatchedBankerRefund
             = tables[t].bankerEscrow - tables[t].matchedBankerRisk
    BY <1>1 DEF TableInv, Pooled
  <2> HIDE DEF T
  <2>2. tables[t].unmatchedBankerRefund + tables[t].matchedBankerRisk
          = tables[t].bankerEscrow
    BY <1>1, <2>1
  <2>3. QED BY <2>1, <2>2 DEF matchedBankerRisk
<1> HIDE DEF T
<1>3. T <= (T * R) \div Wad
  <2>1. R \in Nat /\ R >= Wad /\ Wad \in Nat \ {0}
    BY CheminAssumption
  <2> HIDE DEF R
  <2>2. Wad * T <= R * T /\ R * T = T * R /\ T * R \in Nat
    BY <1>1, <2>1, ProductOrdered
  <2>3. Wad * T <= T * R
    BY <2>2
  <2>4. QED BY <1>1, <2>1, <2>2, <2>3, QuotientIsLargest
<1>4. matchedExposure(t) = tables[t].matchedBankerRisk + T
  BY DEF matchedExposure, T
<1>5. QED BY <1>1, <1>2, <1>3, <1>4 DEF T

\* When the players win, every taker's share doubles the stake, and the shares
\* add up to the pool.
LEMMA SharesOfPool ==
  ASSUME IInv, TakersInv, NEW t \in TableIds, Pooled(t),
         NEW f, \A p \in takersOf(t) : f[p] = winningShare(t, p)
  PROVE  /\ \A p \in takersOf(t) :
              f[p] \in Nat /\ f[p] >= 2 * takerAmounts[t][p]
         /\ SumFunctionOnSet(f, takersOf(t)) = matchedExposure(t)
<1> DEFINE T == tables[t].totalPlayerTake
           pool == matchedExposure(t)
           a == takerAmounts[t]
           s == tableTakers[t]
           last == s[Len(s)]
           S == takersOf(t)
           O == S \ {last}
           share == [p \in O |-> proRata(t, p)]
<1>1. /\ T \in Nat \ {0} /\ pool \in Nat /\ pool >= 2 * T
  BY PoolDoubles
<1>2. /\ S \subseteq Players /\ IsFiniteSet(S)
      /\ SumFunctionOnSet(a, S) = T
      /\ \A p \in S : a[p] \in Nat
  BY TakersStake, StakesSummable
<1>3. Range(s) = S /\ s \in Seq(Players)
  BY DEF TakersInv
<1>4. last \in S
  <2>1. S # {}
    <3>1. SumFunctionOnSet(a, {}) = 0
      BY SumOfNothing
    <3>2. QED BY <1>1, <1>2, <3>1
  <2>2. Len(s) \in DOMAIN s
    BY <1>3, <2>1 DEF Range
  <2>3. QED BY <1>3, <2>2 DEF Range
<1>5. /\ \A p \in O : share[p] = (pool * a[p]) \div T
      /\ DOMAIN share = O
  BY DEF proRata
<1>6. /\ \A p \in O : f[p] = share[p]
      /\ f[last] = pool - SumFunctionOnSet(share, O)
  <2>1. Range(s) \ {last} = O
    BY <1>3
  <2>2. f[last] = pool - SumFunction(share)
    BY <1>4, <2>1 DEF winningShare
  <2>3. \A p \in O : f[p] = proRata(t, p)
    BY DEF winningShare
  <2>4. QED BY <1>5, <2>2, <2>3 DEF SumFunction
<1> HIDE DEF share, last, a, pool, T, S
<1>7. IsFiniteSet(O) /\ O \subseteq S /\ \A p \in O : a[p] \in Nat
  BY <1>2, FS_Subset
<1> HIDE DEF O
<1>8. /\ SumFunctionOnSet(share, O) \in Nat
      /\ T * SumFunctionOnSet(share, O) <= pool * SumFunctionOnSet(a, O)
  BY <1>1, <1>5, <1>7, SharesFit
<1>9. /\ T = SumFunctionOnSet(a, O) + a[last]
      /\ SumFunctionOnSet(a, O) \in Nat /\ a[last] \in Nat
  <2>1. SumFunctionOnSet(a, S) = a[last] + SumFunctionOnSet(a, S \ {last})
    <3>1. \A p \in S : a[p] \in Int
      BY <1>2
    <3>2. QED BY <1>2, <1>4, <3>1, SumTakeOut
  <2>2. SumFunctionOnSet(a, O) \in Nat
    BY <1>7, SumOfNaturals
  <2>3. QED BY <1>2, <1>4, <2>1, <2>2 DEF O
<1>10. f[last] \in Nat /\ f[last] >= 2 * a[last]
  <2> DEFINE others == SumFunctionOnSet(a, O)
             paidToOthers == SumFunctionOnSet(share, O)
             mine == a[last]
  <2>1. /\ others \in Nat /\ mine \in Nat /\ paidToOthers \in Nat
        /\ T = others + mine /\ T * paidToOthers <= pool * others
        /\ f[last] = pool - paidToOthers
    BY <1>6, <1>8, <1>9
  <2> HIDE DEF others, paidToOthers, mine
  <2>2. pool - paidToOthers \in Nat /\ pool - paidToOthers >= 2 * mine
    BY <1>1, <2>1, LastShare
  <2>3. QED BY <2>1, <2>2 DEF mine
<1>11. ASSUME NEW p \in O PROVE f[p] \in Nat /\ f[p] >= 2 * a[p]
  BY <1>1, <1>5, <1>6, <1>7, OtherShare
<1>12. SumFunctionOnSet(f, S) = pool
  <2>1. \A p \in S : f[p] \in Int
    BY <1>10, <1>11 DEF O
  <2>2. SumFunctionOnSet(f, S) = f[last] + SumFunctionOnSet(f, S \ {last})
    BY <1>2, <1>4, <2>1, SumTakeOut
  <2>3. SumFunctionOnSet(f, O) = SumFunctionOnSet(share, O)
    <3>1. \A p \in O : share[p] \in Int /\ f[p] = share[p]
      BY <1>6, <1>11
    <3>2. QED BY <1>7, <3>1, SumSame
  <2>4. QED BY <1>1, <1>6, <1>8, <2>2, <2>3 DEF O
<1>13. \A p \in S : f[p] \in Nat /\ f[p] >= 2 * a[p]
  BY <1>10, <1>11 DEF O
<1>14. QED BY <1>12, <1>13 DEF S, a, pool

\* Whatever the outcome, the rewards return the table's escrow, no more and no
\* less.
LEMMA RewardsReturnEscrow ==
  ASSUME IInv, TakersInv, NEW t \in TableIds, Pooled(t),
         NEW outcome \in BaccaratOutcome
  PROVE  /\ rewards(t, outcome) \in [Accounts -> Nat]
         /\ SumFunction(rewards(t, outcome))
              = tables[t].bankerEscrow + tables[t].totalPlayerTake
         /\ outcome = "PlayerWin" => \A p \in takersOf(t) :
              rewards(t, outcome)[p] >= 2 * takerAmounts[t][p]
<1> DEFINE r == rewards(t, outcome)
           a == takerAmounts[t]
           S == takersOf(t)
           banker == tables[t].banker
           T == tables[t].totalPlayerTake
           pool == matchedExposure(t)
<1>1. /\ T \in Nat \ {0} /\ pool \in Nat /\ tables[t].matchedBankerRisk \in Nat
      /\ pool = tables[t].matchedBankerRisk + T
      /\ tables[t].unmatchedBankerRefund \in Nat
      /\ tables[t].bankerEscrow \in Nat
      /\ tables[t].unmatchedBankerRefund + tables[t].matchedBankerRisk
           = tables[t].bankerEscrow
  BY PoolDoubles
<1>2. /\ S \subseteq Players /\ IsFiniteSet(S)
      /\ SumFunctionOnSet(a, S) = T
      /\ \A p \in S : a[p] \in Nat
  BY TakersStake, StakesSummable
<1>3. /\ Range(tableTakers[t]) = S /\ banker \notin S /\ banker \in Accounts
      /\ S \subseteq Accounts
  BY <1>2 DEF TakersInv, Pooled, Accounts
<1>4. /\ DOMAIN r = Accounts
      /\ r[banker] = bankerReward(t, outcome)
      /\ \A p \in S : r[p] = takerReward(t, outcome, p)
      /\ \A x \in Accounts \ (S \cup {banker}) : r[x] = 0
  BY <1>3 DEF rewards
<1>5. bankerReward(t, outcome) =
        tables[t].unmatchedBankerRefund +
          (IF outcome = "BankerWin" THEN pool
           ELSE IF outcome = "Tie" THEN tables[t].matchedBankerRisk ELSE 0)
  BY DEF bankerReward, BaccaratOutcome
<1> HIDE DEF r, S, banker, T, pool, a
<1>6. r[banker] \in Nat
  BY <1>1, <1>4, <1>5
<1>7. /\ \A p \in S : r[p] \in Nat
      /\ SumFunctionOnSet(r, S) = bankerReward(t, "BankerWin") - bankerReward(t, outcome)
      /\ bankerReward(t, "BankerWin") = tables[t].bankerEscrow + T
      /\ outcome = "PlayerWin" => \A p \in S : r[p] >= 2 * a[p]
  <2>1. bankerReward(t, "BankerWin") = tables[t].bankerEscrow + T
    <3>1. bankerReward(t, "BankerWin") = tables[t].unmatchedBankerRefund + pool
      BY DEF bankerReward, pool
    <3>2. QED BY <1>1, <3>1
  <2>2. CASE outcome = "BankerWin"
    <3>1. \A p \in S : r[p] = 0
      BY <1>4, <2>2 DEF takerReward
    <3>2. SumFunctionOnSet(r, S) = 0 * Cardinality(S) /\ Cardinality(S) \in Nat
      BY <1>2, <3>1, SumOfConstant, FS_CardinalityType
    <3>3. SumFunctionOnSet(r, S) = 0
      BY <3>2
    <3>4. QED BY <1>1, <2>1, <2>2, <3>1, <3>3
  <2>3. CASE outcome = "Tie"
    <3>1. \A p \in S : r[p] = a[p]
      BY <1>4, <2>3 DEF takerReward, a
    <3>2. SumFunctionOnSet(r, S) = T
      <4>1. \A p \in S : a[p] \in Int /\ r[p] = a[p]
        BY <1>2, <3>1
      <4>2. QED BY <1>2, <4>1, SumSame
    <3>3. bankerReward(t, outcome)
            = tables[t].unmatchedBankerRefund + tables[t].matchedBankerRisk
      BY <1>5, <2>3
    <3>4. QED BY <1>1, <1>2, <2>1, <2>3, <3>1, <3>2, <3>3
  <2>4. CASE outcome = "PlayerWin"
    <3>1. \A p \in S : r[p] = winningShare(t, p)
      BY <1>4, <2>4 DEF takerReward
    <3>2. /\ \A p \in S : r[p] \in Nat /\ r[p] >= 2 * a[p]
          /\ SumFunctionOnSet(r, S) = pool
      BY <3>1, SharesOfPool DEF S, a, pool
    <3>3. bankerReward(t, outcome) = tables[t].unmatchedBankerRefund + 0
      BY <1>5, <2>4
    <3>4. QED BY <1>1, <2>1, <2>4, <3>2, <3>3
  <2>5. QED BY <2>2, <2>3, <2>4 DEF BaccaratOutcome
<1>8. ASSUME NEW x \in Accounts PROVE r[x] \in Nat
  BY <1>4, <1>6, <1>7
<1>9. r \in [Accounts -> Nat]
  BY <1>4, <1>8 DEF r, rewards
<1>10. SumFunction(r) = r[banker] + SumFunctionOnSet(r, S)
  <2> DEFINE B == S \cup {banker}
  <2>1. /\ IsFiniteSet(Accounts) /\ B \subseteq Accounts
        /\ \A x \in B : r[x] \in Int
        /\ \A x \in Accounts \ B : r[x] = 0
        /\ B \ {banker} = S /\ banker \in B
    BY <1>3, <1>4, <1>8, FiniteAccounts
  <2> HIDE DEF B
  <2>2. SumFunction(r) = SumFunctionOnSet(r, B)
    BY <1>4, <2>1, SumOfSupport
  <2>3. IsFiniteSet(B)
    BY <2>1, FS_Subset
  <2>4. SumFunctionOnSet(r, B) = r[banker] + SumFunctionOnSet(r, B \ {banker})
    BY <2>1, <2>3, SumTakeOut
  <2>5. QED BY <2>1, <2>2, <2>4
<1>11. SumFunction(r) = tables[t].bankerEscrow + T
  <2>1. bankerReward(t, outcome) \in Int /\ bankerReward(t, "BankerWin") \in Int
    BY <1>1, <1>4, <1>6, <1>7
  <2>2. QED BY <1>4, <1>7, <1>10, <2>1
<1>12. QED BY <1>7, <1>9, <1>11 DEF r, S, a, T

-----------------------------------------------------------------------------
(* What each operation does to takers, money and the escrow it implements. *)

escrows == [t \in TableIds |-> openEscrow(t)]
overs == [t \in TableIds |-> tables[t].settled]

\* The step formula of WinnersDoubled.
Doubled ==
  \A t \in TableIds :
    ~tables[t].settled /\ tables'[t].settled
      /\ ~cancelled(t)' /\ resolutions[t].outcome = "PlayerWin" =>
      \A p \in takersOf(t) :
        token'.balance[p] - token.balance[p] >= 2 * takerAmounts[t][p]

EscrowStep == [Escrow!Next]_(Escrow!vars)

MoneyStep == SettlementInv' /\ TakersInv' /\ EscrowStep /\ Doubled

\* One table changes.
LEMMA OneEscrow ==
  ASSUME TablesInv, NEW t \in TableIds, NEW table,
         tables' = [tables EXCEPT ![t] = table]
  PROVE  /\ escrows' = [escrows EXCEPT ![t] =
                          IF table.settled
                            THEN 0 ELSE table.bankerEscrow + table.totalPlayerTake]
         /\ overs' = [overs EXCEPT ![t] = table.settled]
         /\ tables'[t] = table
         /\ \A u \in TableIds : u # t => tables'[u] = tables[u]
         /\ openEscrow(t) \in Nat
<1> DEFINE left == IF table.settled
                      THEN 0 ELSE table.bankerEscrow + table.totalPlayerTake
<1>1. /\ tables \in [TableIds -> Table] /\ tables'[t] = table
      /\ \A u \in TableIds : u # t => tables'[u] = tables[u]
  BY DEF TablesInv
<1>2. /\ openEscrow(t)' = left
      /\ \A u \in TableIds : u # t => openEscrow(u)' = openEscrow(u)
  BY <1>1 DEF openEscrow
<1>3. openEscrow(t) \in Nat
  BY <1>1 DEF openEscrow, Table
<1> HIDE DEF left
<1>4. escrows' = [escrows EXCEPT ![t] = left]
  BY <1>2 DEF escrows
<1>5. overs' = [overs EXCEPT ![t] = table.settled]
  BY <1>1 DEF overs
<1>6. QED BY <1>1, <1>3, <1>4, <1>5 DEF left

LEMMA Deposits ==
  ASSUME TablesInv, NEW t \in TableIds, NEW table,
         tables' = [tables EXCEPT ![t] = table],
         ~tables[t].settled, table.settled = FALSE,
         NEW amount \in Nat, amount > 0, amount <= token.totalSupply,
         table.bankerEscrow + table.totalPlayerTake
           = tables[t].bankerEscrow + tables[t].totalPlayerTake + amount,
         token'.totalSupply = token.totalSupply - amount,
         token.totalSupply \in Nat, claimMinted' = claimMinted
  PROVE  EscrowStep /\ Doubled
<1>1. /\ escrows' = [escrows EXCEPT ![t] = openEscrow(t) + amount]
      /\ overs' = overs
      /\ \A u \in TableIds : tables'[u].settled = tables[u].settled
  <2>1. openEscrow(t) + amount = table.bankerEscrow + table.totalPlayerTake
    BY DEF openEscrow
  <2>2. escrows' = [escrows EXCEPT ![t] = openEscrow(t) + amount]
    BY <2>1, OneEscrow
  <2>3. tables[t].settled = FALSE
    BY DEF TablesInv, Table
  <2>4. \A u \in TableIds : tables'[u].settled = tables[u].settled
    BY <2>3, OneEscrow
  <2>5. QED BY <2>2, <2>4 DEF overs
<1>2. escrows[t] = openEscrow(t) /\ ~overs[t] /\ amount \in 1..token.totalSupply
  BY DEF escrows, overs
<1>3. Escrow!Deposit(t)
  BY <1>1, <1>2 DEF Escrow!Deposit, escrows, overs
<1>4. Doubled
  BY <1>1 DEF Doubled
<1>5. QED BY <1>3, <1>4 DEF EscrowStep, Escrow!Next

LEMMA Releases ==
  ASSUME TablesInv, NEW t \in TableIds,
         tables' = [tables EXCEPT ![t] = [tables[t] EXCEPT !.settled = TRUE]]
           \/ tables' = [tables EXCEPT ![t] =
                           [tables[t] EXCEPT !.closed = TRUE, !.settled = TRUE]],
         ~tables[t].settled, tables[t].bankerEscrow > 0,
         token'.totalSupply = token.totalSupply
                                + (tables[t].bankerEscrow + tables[t].totalPlayerTake),
         claimMinted' = claimMinted
  PROVE  EscrowStep
<1>1. /\ escrows' = [escrows EXCEPT ![t] = 0]
      /\ overs' = [overs EXCEPT ![t] = TRUE]
  <2>1. ASSUME NEW table, tables' = [tables EXCEPT ![t] = table], table.settled = TRUE
        PROVE  /\ escrows' = [escrows EXCEPT ![t] = 0]
               /\ overs' = [overs EXCEPT ![t] = TRUE]
    BY <2>1, OneEscrow
  <2>2. tables[t] \in Table
    BY DEF TablesInv
  <2>3. /\ [tables[t] EXCEPT !.settled = TRUE].settled = TRUE
        /\ [tables[t] EXCEPT !.closed = TRUE, !.settled = TRUE].settled = TRUE
    BY <2>2 DEF Table
  <2>4. QED BY <2>1, <2>3
<1>2. /\ openEscrow(t) = tables[t].bankerEscrow + tables[t].totalPlayerTake
      /\ openEscrow(t) > 0
  BY DEF openEscrow, TablesInv, Table
<1>3. escrows[t] = openEscrow(t) /\ ~overs[t]
  BY DEF escrows, overs
<1>4. Escrow!Release(t)
  BY <1>1, <1>2, <1>3 DEF Escrow!Release, escrows, overs
<1>5. QED BY <1>4 DEF EscrowStep, Escrow!Next

\* Steps that move no money between tables and circulation.
LEMMA KeepsEscrow ==
  ASSUME \A t \in TableIds :
           /\ openEscrow(t)' = openEscrow(t)
           /\ tables'[t].settled = tables[t].settled,
         token'.totalSupply = token.totalSupply, claimMinted' = claimMinted
  PROVE  EscrowStep /\ Doubled
<1>1. Doubled
  BY DEF Doubled
<1>2. UNCHANGED Escrow!vars
  BY DEF Escrow!vars
<1>3. QED BY <1>1, <1>2 DEF EscrowStep

\* A wager is burned.
LEMMA WagerBurned ==
  ASSUME SettlementInv, NEW p \in Players, NEW amount \in Nat, NEW c,
         canBurnPlayerWager(c, p, amount), token' = burnPlayerWager(token, p, amount),
         UNCHANGED <<catalogVars, registryVars, rewardsVars>>
  PROVE  /\ SettlementInv' /\ claimMinted' = claimMinted
         /\ amount <= token.totalSupply /\ token.totalSupply \in Nat
         /\ token'.totalSupply = token.totalSupply - amount
<1>1. /\ LedgerInv(token)' /\ token'.totalSupply = token.totalSupply - amount
      /\ token.balance[p] >= amount /\ p \in Accounts
  <2>1. p \in Accounts /\ Token!canSpend(token, p, "settlement", amount)
    BY DEF Accounts, canBurnPlayerWager
  <2>2. LET m == burnPlayerWager(token, p, amount)
        IN  LedgerInv(m) /\ m.totalSupply = token.totalSupply - amount
    BY <2>1, BurnKeepsLedger DEF SettlementInv
  <2>3. QED BY <2>1, <2>2 DEF LedgerInv, Token!canSpend
<1>2. CatalogInv' /\ RegistryInv' /\ RewardsInv' /\ claimMinted' = claimMinted
  BY SameCatalog, SameRegistry, SameRewards DEF SettlementInv
<1>3. /\ token \in Token!Ledger /\ token.totalSupply = SumFunction(token.balance)
      /\ token.totalSupply \in Nat /\ token.balance[p] \in Nat
  BY <1>1, SupplyIsSum DEF SettlementInv, LedgerInv, Token!Ledger
<1>4. token.balance[p] <= token.totalSupply
  BY <1>1, <1>3, BalancesSummable
<1>5. QED BY <1>1, <1>2, <1>3, <1>4 DEF SettlementInv

LEMMA OpenTableMoney ==
  ASSUME CheminInv, NEW banker \in Players, NEW bet \in Bets, NEW x,
         openTable(banker, bet, x)
  PROVE  MoneyStep
<1> DEFINE n == nextTableId
           opened == [NoTable EXCEPT !.banker = banker, !.bankerEscrow = bet,
                                     !.joinDeadline = now + JOIN_WINDOW,
                                     !.unmatchedBankerRefund = bet,
                                     !.expressionTokenId = x]
<1>1. /\ n \in TableIds /\ bet \in Nat /\ bet > 0
      /\ canBurnPlayerWager(cheminController, banker, bet)
      /\ token' = burnPlayerWager(token, banker, bet)
      /\ tables' = [tables EXCEPT ![n] = opened]
      /\ UNCHANGED <<catalogVars, registryVars, rewardsVars, tableTakers, takerAmounts>>
  BY CheminAssumption DEF openTable, CheminInv, IInv, TablesInv, TableIds
<1>2. tables[n] = NoTable /\ TablesInv /\ TakersInv /\ SettlementInv
  BY <1>1 DEF CheminInv, IInv, TablesInv
<1>3. /\ ~tables[n].settled /\ tables[n].totalPlayerTake = 0 /\ tables[n].bankerEscrow = 0
      /\ opened.settled = FALSE /\ opened.totalPlayerTake = 0
      /\ opened.bankerEscrow = bet
      /\ opened.banker = banker
  BY <1>2 DEF NoTable
<1> HIDE DEF opened, n
<1>4. /\ SettlementInv' /\ claimMinted' = claimMinted
      /\ bet <= token.totalSupply /\ token.totalSupply \in Nat
      /\ token'.totalSupply = token.totalSupply - bet
  BY <1>1, <1>2, WagerBurned
<1>5. EscrowStep /\ Doubled
  <2>1. opened.bankerEscrow + opened.totalPlayerTake
          = tables[n].bankerEscrow + tables[n].totalPlayerTake + bet
    BY <1>1, <1>3
  <2>2. QED BY <1>1, <1>2, <1>3, <1>4, <2>1, Deposits
<1>6. tables'[n] = opened /\ \A u \in TableIds : u # n => tables'[u] = tables[u]
  BY <1>1, <1>2, OneEscrow
<1>7. TakersInv'
  BY <1>1, <1>2, <1>3, <1>6, OpenedKeepsTakers
<1>8. QED BY <1>4, <1>5, <1>7 DEF MoneyStep

LEMMA TakeMoney ==
  ASSUME CheminInv, NEW t \in TableIds, NEW taker \in Players, NEW amount \in Takes,
         take(t, taker, amount)
  PROVE  MoneyStep
<1> DEFINE taken == [tables[t] EXCEPT !.totalPlayerTake = @ + amount]
<1>1. /\ amount \in Nat /\ amount > 0 /\ exists(t) /\ ~tables[t].closed
      /\ taker # tables[t].banker
      /\ taken.totalPlayerTake <= playerTakeCap(tables[t].bankerEscrow)
      /\ canBurnPlayerWager(cheminController, taker, amount)
      /\ token' = burnPlayerWager(token, taker, amount)
      /\ tableTakers' = IF takerAmounts[t][taker] = 0
                          THEN [tableTakers EXCEPT ![t] = Append(tableTakers[t], taker)]
                          ELSE tableTakers
      /\ takerAmounts' = [takerAmounts EXCEPT ![t][taker] = @ + amount]
      /\ \/ tables' = [tables EXCEPT ![t] = closedTable(taken)]
         \/ tables' = [tables EXCEPT ![t] = taken]
      /\ UNCHANGED <<catalogVars, registryVars, rewardsVars>>
  BY CheminAssumption DEF take
<1>2. /\ TablesInv /\ TakersInv /\ SettlementInv
      /\ TableInv(tables[t]) /\ tables[t] \in Table
      /\ ~tables[t].settled
  BY <1>1 DEF CheminInv, IInv, TablesInv, TableInv
<1>3. /\ taken \in Table /\ taken.settled = FALSE
      /\ taken.banker = tables[t].banker
      /\ taken.bankerEscrow = tables[t].bankerEscrow
      /\ taken.totalPlayerTake = tables[t].totalPlayerTake + amount
      /\ tables[t].totalPlayerTake \in Nat /\ tables[t].bankerEscrow \in Nat
  BY <1>1, <1>2, SMTT(60) DEF Table
<1> HIDE DEF taken
<1>4. PICK table : /\ tables' = [tables EXCEPT ![t] = table]
                   /\ table.settled = FALSE
                   /\ table.banker = tables[t].banker
                   /\ table.bankerEscrow = tables[t].bankerEscrow
                   /\ table.totalPlayerTake = tables[t].totalPlayerTake + amount
  <2>1. CASE tables' = [tables EXCEPT ![t] = taken]
    BY <2>1, <1>3
  <2>2. CASE tables' = [tables EXCEPT ![t] = closedTable(taken)]
    <3>1. /\ closedTable(taken).settled = FALSE
          /\ closedTable(taken).banker = taken.banker
          /\ closedTable(taken).bankerEscrow = taken.bankerEscrow
          /\ closedTable(taken).totalPlayerTake = taken.totalPlayerTake
      BY <1>3 DEF closedTable, Table
    <3>2. QED BY <2>2, <3>1, <1>3
  <2>3. QED BY <2>1, <2>2, <1>1
<1>5. /\ SettlementInv' /\ claimMinted' = claimMinted
      /\ amount <= token.totalSupply /\ token.totalSupply \in Nat
      /\ token'.totalSupply = token.totalSupply - amount
  BY <1>1, <1>2, WagerBurned
<1>6. EscrowStep /\ Doubled
  <2>1. table.bankerEscrow + table.totalPlayerTake
          = tables[t].bankerEscrow + tables[t].totalPlayerTake + amount
    BY <1>1, <1>3, <1>4
  <2>2. QED BY <1>1, <1>2, <1>4, <1>5, <2>1, Deposits
<1>7. tables'[t] = table /\ \A u \in TableIds : u # t => tables'[u] = tables[u]
  BY <1>2, <1>4, OneEscrow
<1>8. TakersInv'
  BY <1>1, <1>2, <1>4, <1>7, TakenKeepsTakers
<1>9. QED BY <1>5, <1>6, <1>8 DEF MoneyStep

LEMMA CloseTableMoney ==
  ASSUME CheminInv, NEW t \in TableIds, closeAndRequestResolution(t)
  PROVE  MoneyStep
<1> DEFINE table == closedTable(tables[t])
<1>1. /\ tables' = [tables EXCEPT ![t] = table]
      /\ UNCHANGED <<protocolVars, tableTakers, takerAmounts>>
  BY DEF closeAndRequestResolution
<1>2. TablesInv /\ TakersInv /\ SettlementInv /\ tables[t] \in Table
  BY DEF CheminInv, IInv, TablesInv
<1>3. /\ table.settled = tables[t].settled /\ table.banker = tables[t].banker
      /\ table.bankerEscrow = tables[t].bankerEscrow
      /\ table.totalPlayerTake = tables[t].totalPlayerTake
  BY <1>2 DEF closedTable, Table
<1> HIDE DEF table
<1>4. tables'[t] = table /\ \A u \in TableIds : u # t => tables'[u] = tables[u]
  BY <1>1, <1>2, OneEscrow
<1>5. \A u \in TableIds : /\ tables'[u].settled = tables[u].settled
                          /\ tables'[u].banker = tables[u].banker
                          /\ tables'[u].bankerEscrow = tables[u].bankerEscrow
                          /\ tables'[u].totalPlayerTake = tables[u].totalPlayerTake
  BY <1>3, <1>4
<1>6. TakersInv'
  BY <1>1, <1>2, <1>5, SameTakers
<1>7. SettlementInv' /\ UNCHANGED <<token, claimMinted>>
  <2>1. UNCHANGED <<token, catalogVars, registryVars, rewardsVars>>
    BY <1>1 DEF protocolVars
  <2>2. CatalogInv' /\ RegistryInv' /\ RewardsInv' /\ claimMinted' = claimMinted
    BY <1>2, <2>1, SameCatalog, SameRegistry, SameRewards DEF SettlementInv
  <2>3. QED BY <1>2, <2>1, <2>2 DEF SettlementInv, LedgerInv
<1>8. EscrowStep /\ Doubled
  <2>1. \A u \in TableIds : /\ openEscrow(u)' = openEscrow(u)
                            /\ tables'[u].settled = tables[u].settled
    BY <1>5 DEF openEscrow
  <2>2. QED BY <1>7, <2>1, KeepsEscrow
<1>9. QED BY <1>6, <1>7, <1>8 DEF MoneyStep

LEMMA CancelTableMoney ==
  ASSUME CheminInv, NEW t \in TableIds, NEW caller, cancelTable(t, caller)
  PROVE  MoneyStep
<1> DEFINE over == [tables[t] EXCEPT !.closed = TRUE, !.settled = TRUE]
           banker == tables[t].banker
           bet == tables[t].bankerEscrow
<1>1. TablesInv /\ TakersInv /\ SettlementInv /\ tables[t] \in Table /\ TableInv(tables[t])
  BY DEF CheminInv, IInv, TablesInv
<1>2. /\ exists(t) /\ ~tables[t].closed /\ tables[t].totalPlayerTake = 0
      /\ token' = mintPlayerReward(token, banker, bet)
      /\ UNCHANGED <<catalogVars, registryVars, rewardsVars, tableTakers, takerAmounts>>
  BY DEF cancelTable
<1>3. tables' = [tables EXCEPT ![t] = over]
  BY <1>1 DEF cancelTable, TablesInv
<1>4. /\ ~tables[t].settled /\ bet \in Nat /\ bet > 0 /\ banker \in Accounts
      /\ over.banker = banker /\ over.bankerEscrow = bet
      /\ over.totalPlayerTake = 0
  BY <1>1, <1>2 DEF TableInv, Table, TakersInv, exists, Accounts
<1>5. /\ SettlementInv' /\ claimMinted' = claimMinted
      /\ token'.totalSupply = token.totalSupply + bet
  <2>1. LET m == Token!mint(token, banker, bet)
        IN  /\ LedgerInv(m)
            /\ m.balance = [token.balance EXCEPT ![banker] = @ + bet]
            /\ m.totalSupply = token.totalSupply + bet
    <3>1. LedgerInv(token)
      BY <1>1 DEF SettlementInv
    <3> HIDE DEF banker, bet
    <3>2. QED BY <1>4, <3>1, MintKeepsLedger
  <2>2. LedgerInv(token)' /\ token'.totalSupply = token.totalSupply + bet
    BY <1>2, <2>1 DEF mintPlayerReward, LedgerInv
  <2>3. CatalogInv' /\ RegistryInv' /\ RewardsInv' /\ claimMinted' = claimMinted
    BY <1>1, <1>2, SameCatalog, SameRegistry, SameRewards DEF SettlementInv
  <2>4. QED BY <2>2, <2>3 DEF SettlementInv
<1>6. EscrowStep
  <2>1. token'.totalSupply = token.totalSupply
                               + (tables[t].bankerEscrow + tables[t].totalPlayerTake)
    BY <1>2, <1>4, <1>5
  <2>2. QED BY <1>1, <1>3, <1>4, <1>5, <2>1, Releases
<1> HIDE DEF over
<1>7. tables'[t] = over /\ \A u \in TableIds : u # t => tables'[u] = tables[u]
  BY <1>1, <1>3, OneEscrow
<1>8. TakersInv'
  <2>1. \A u \in TableIds : /\ tables'[u].banker = tables[u].banker
                            /\ tables'[u].bankerEscrow = tables[u].bankerEscrow
                            /\ tables'[u].totalPlayerTake = tables[u].totalPlayerTake
    BY <1>2, <1>4, <1>7
  <2>2. QED BY <1>1, <1>2, <2>1, SameTakers
<1>9. Doubled
  <2>1. takersOf(t) = {}
    BY <1>1, <1>2, NobodyTook
  <2>2. QED BY <1>7, <2>1 DEF Doubled
<1>10. QED BY <1>5, <1>6, <1>8, <1>9 DEF MoneyStep

LEMMA SettleMoney ==
  ASSUME CheminInv, NEW t \in TableIds, settle(t)
  PROVE  MoneyStep
<1> DEFINE over == [tables[t] EXCEPT !.settled = TRUE]
           outcome == resolutions[t].outcome
           r == rewards(t, outcome)
<1>1. /\ IInv /\ TablesInv /\ TakersInv /\ SettlementInv
      /\ tables[t] \in Table /\ TableInv(tables[t])
  BY DEF CheminInv, IInv, TablesInv
<1>2. /\ exists(t) /\ tables[t].closed /\ ~tables[t].settled /\ resolutions[t].resolved
      /\ token' = mintPlayerRewards(token, r)
      /\ accrueDeveloperForExpression(cheminController, tables[t].expressionTokenId,
                                      matchedExposure(t))
      /\ UNCHANGED <<catalogVars, registryVars, tableTakers, takerAmounts>>
  BY DEF settle
<1>3. tables' = [tables EXCEPT ![t] = over]
  BY <1>1 DEF settle, TablesInv
<1>4. outcome \in BaccaratOutcome /\ Pooled(t) /\ tables[t].bankerEscrow > 0
  <2>1. resolutions[t] \in [requestId: 0..MaxRequests, resolved: BOOLEAN,
                            outcome: BaccaratOutcome]
    BY <1>1 DEF IInv, RequestsInv
  <2>2. tables[t].totalPlayerTake > 0
    BY <1>1, <1>2 DEF IInv, RequestsInv, LinkInv
  <2>3. tables[t].banker \in Players /\ tables[t].bankerEscrow > 0
    BY <1>1, <1>2 DEF Table, exists, TakersInv
  <2>4. QED BY <1>2, <2>1, <2>2, <2>3 DEF Pooled
<1>5. /\ r \in [Accounts -> Nat]
      /\ SumFunction(r) = tables[t].bankerEscrow + tables[t].totalPlayerTake
      /\ outcome = "PlayerWin" =>
           \A p \in takersOf(t) : r[p] >= 2 * takerAmounts[t][p]
  BY <1>1, <1>4, RewardsReturnEscrow
<1>6. /\ over.banker = tables[t].banker
      /\ over.bankerEscrow = tables[t].bankerEscrow
      /\ over.totalPlayerTake = tables[t].totalPlayerTake
  BY <1>1 DEF Table
<1> HIDE DEF r
<1>7. /\ LedgerInv(token)'
      /\ token'.balance = [a \in Accounts |-> token.balance[a] + r[a]]
      /\ token'.totalSupply = token.totalSupply + SumFunction(r)
  <2>1. LET m == mintPlayerRewards(token, r)
        IN  /\ LedgerInv(m)
            /\ m.balance = [a \in Accounts |-> token.balance[a] + r[a]]
            /\ m.totalSupply = token.totalSupply + SumFunction(r)
    BY <1>1, <1>5, RewardsKeepLedger DEF SettlementInv
  <2>2. QED BY <1>2, <2>1 DEF LedgerInv
<1>8. SettlementInv' /\ claimMinted' = claimMinted
  <2>1. CatalogInv' /\ RegistryInv'
    BY <1>1, <1>2, SameCatalog, SameRegistry DEF SettlementInv
  <2>2. RewardsInv' /\ claimMinted' = claimMinted
    <3>1. cheminController \in Controllers /\ matchedExposure(t) \in Nat
      BY <1>1, <1>4, CheminAssumption, PoolDoubles
    <3>2. QED BY <1>1, <1>2, <3>1, AccrualKeepsRewards
  <2>3. QED BY <1>7, <2>1, <2>2 DEF SettlementInv
<1>9. EscrowStep
  BY <1>1, <1>2, <1>3, <1>4, <1>5, <1>7, <1>8, Releases
<1> HIDE DEF over
<1>10. tables'[t] = over /\ \A u \in TableIds : u # t => tables'[u] = tables[u]
  BY <1>1, <1>3, OneEscrow
<1>11. TakersInv'
  <2>1. \A u \in TableIds : /\ tables'[u].banker = tables[u].banker
                            /\ tables'[u].bankerEscrow = tables[u].bankerEscrow
                            /\ tables'[u].totalPlayerTake = tables[u].totalPlayerTake
    BY <1>6, <1>10
  <2>2. QED BY <1>1, <1>2, <2>1, SameTakers
<1>12. Doubled
  <2>1. ASSUME outcome = "PlayerWin", NEW p \in takersOf(t)
        PROVE  token'.balance[p] - token.balance[p] >= 2 * takerAmounts[t][p]
    <3>1. p \in Accounts
      BY DEF takersOf, Accounts
    <3>2. token.balance[p] \in Nat /\ r[p] \in Nat
      BY <1>1, <1>5, <3>1 DEF SettlementInv, LedgerInv, Token!Ledger
    <3>3. token'.balance[p] = token.balance[p] + r[p] /\ r[p] >= 2 * takerAmounts[t][p]
      BY <1>5, <1>7, <2>1, <3>1
    <3>4. QED BY <3>2, <3>3
  <2>2. \A u \in TableIds : ~tables[u].settled /\ tables'[u].settled => u = t
    BY <1>10
  <2>3. QED BY <2>1, <2>2 DEF Doubled
<1>13. QED BY <1>8, <1>9, <1>11, <1>12 DEF MoneyStep

\* Steps that leave the tables and the settlement layer alone.
LEMMA QuietMoney ==
  ASSUME CheminInv, UNCHANGED <<protocolVars, controllerVars>>
  PROVE  MoneyStep
<1>1. /\ UNCHANGED <<token, catalogVars, registryVars, rewardsVars>>
      /\ UNCHANGED <<tables, tableTakers, takerAmounts>>
  BY DEF protocolVars, controllerVars
<1>2. SettlementInv' /\ claimMinted' = claimMinted
  <2>1. CatalogInv' /\ RegistryInv' /\ RewardsInv' /\ claimMinted' = claimMinted
    BY <1>1, SameCatalog, SameRegistry, SameRewards DEF CheminInv, SettlementInv
  <2>2. QED BY <1>1, <2>1 DEF CheminInv, SettlementInv, LedgerInv
<1>3. TakersInv'
  BY <1>1, SameTakers DEF CheminInv
<1>4. EscrowStep /\ Doubled
  <2>1. \A t \in TableIds : openEscrow(t)' = openEscrow(t)
    BY <1>1 DEF openEscrow
  <2>2. QED BY <1>1, <1>2, <2>1, KeepsEscrow
<1>5. QED BY <1>2, <1>3, <1>4 DEF MoneyStep

\* A claim issues what it mints, within the cap.
LEMMA ClaimIssues ==
  ASSUME SettlementInv, NEW d \in Developers, NEW epochs \in ClaimLists,
         Claim(d, epochs), UNCHANGED tables
  PROVE  EscrowStep
<1> DEFINE total == claimTotal(d, epochs)
           before == SumFunction(claimMinted)
           after == SumFunction(claimMinted')
<1>1. total \in Nat
  BY ClaimKeepsPaid DEF Claim, SettlementInv
<1>2. /\ token.totalSupply \in Nat /\ MaxSupply \in Nat
      /\ token.totalSupply + total <= MaxSupply
      /\ token'.totalSupply = token.totalSupply + total
  <2>1. LedgerInv(token) /\ d \in Accounts
    BY DEF SettlementInv, Accounts
  <2>2. token' = Token!mint(token, d, total) /\ Token!canMint(token, total)
    BY DEF Claim
  <2>3. MaxSupply \in Nat
    BY SettlementAssumption DEF Token!TokenAssumption
  <2> HIDE DEF total
  <2>4. token'.totalSupply = token.totalSupply + total
    BY <1>1, <2>1, <2>2, MintKeepsLedger
  <2>5. token.totalSupply \in Nat
    BY <2>1 DEF LedgerInv, Token!Ledger
  <2>6. QED BY <2>2, <2>3, <2>4, <2>5 DEF Token!canMint
<1>3. /\ SettlementInv'
      /\ token'.totalSupply = token.totalSupply + after - before
  BY OutsideStepsKeepSettlement DEF ProtocolNext, OutsideStep
<1>4. before \in Nat /\ after \in Nat
  <2>1. IsFiniteSet(Developers)
    BY SettlementAssumption
  <2>2. claimMinted \in [Developers -> Nat] /\ claimMinted' \in [Developers -> Nat]
    BY <1>3 DEF SettlementInv, RewardsInv, RewardsTypeOK
  <2>3. QED BY <2>1, <2>2, SumOfNats
<1> HIDE DEF total, before, after
<1>5. after = before + total
  BY <1>1, <1>2, <1>3, <1>4
<1>6. escrows' = escrows /\ overs' = overs
  BY DEF escrows, overs, openEscrow
<1>7. CASE total = 0
  <2>1. UNCHANGED Escrow!vars
    BY <1>2, <1>4, <1>5, <1>6, <1>7 DEF Escrow!vars, escrows, overs, before, after
  <2>2. QED BY <2>1 DEF EscrowStep
<1>8. CASE total # 0
  <2>1. total \in 1..(MaxSupply - token.totalSupply)
    BY <1>1, <1>2, <1>8
  <2>2. Escrow!Issue
    BY <1>2, <1>5, <1>6, <2>1 DEF Escrow!Issue, escrows, overs, before, after
  <2>3. QED BY <2>2 DEF EscrowStep, Escrow!Next
<1>9. QED BY <1>7, <1>8

LEMMA OutsideMoney ==
  ASSUME CheminInv, ProtocolNext, UNCHANGED controllerVars
  PROVE  MoneyStep
<1>1. UNCHANGED <<tables, tableTakers, takerAmounts>>
  BY DEF controllerVars
<1>2. SettlementInv'
  BY OutsideStepsKeepSettlement DEF CheminInv
<1>3. TakersInv'
  BY <1>1, SameTakers DEF CheminInv
<1>4. Doubled
  BY <1>1 DEF Doubled
<1>5. EscrowStep
  <2>1. ASSUME token'.totalSupply = token.totalSupply, claimMinted' = claimMinted
        PROVE  EscrowStep
    <3>1. \A t \in TableIds : openEscrow(t)' = openEscrow(t)
      BY <1>1 DEF openEscrow
    <3>2. QED BY <1>1, <2>1, <3>1, KeepsEscrow
  <2>2. CASE Govern
    BY <2>1, <2>2 DEF Govern, rewardsVars
  <2>3. CASE ManageExpressions
    BY <2>1, <2>3 DEF ManageExpressions, rewardsVars
  <2>4. CASE Approve
    <3>1. token \in Token!Ledger /\ claimMinted' = claimMinted
      BY <2>4 DEF Approve, rewardsVars, CheminInv, SettlementInv, LedgerInv
    <3>2. \E p, amount : token' = Token!approve(token, p, "settlement", amount)
      BY <2>4 DEF Approve
    <3>3. token'.totalSupply = token.totalSupply
      BY <3>1, <3>2 DEF Token!approve, Token!Ledger
    <3>4. QED BY <2>1, <3>1, <3>3
  <2>5. CASE RunEpochs
    BY <2>1, <2>5 DEF RunEpochs, Tick, closeCurrentEpoch, setEpochDuration
  <2>6. ASSUME NEW d \in Developers, NEW epochs \in ClaimLists, Claim(d, epochs)
        PROVE  EscrowStep
    BY <1>1, <2>6, ClaimIssues DEF CheminInv
  <2>7. QED BY <2>2, <2>3, <2>4, <2>5, <2>6 DEF ProtocolNext
<1>6. QED BY <1>2, <1>3, <1>4, <1>5 DEF MoneyStep

LEMMA StepCheminInv == CheminInv /\ [Next]_vars => CheminInv' /\ EscrowStep /\ Doubled
<1> SUFFICES ASSUME CheminInv, [Next]_vars PROVE IInv' /\ MoneyStep
  BY DEF CheminInv, MoneyStep
<1>1. IInv'
  BY StepIInv DEF CheminInv
<1>2. ASSUME NEW p \in Players, NEW bet \in Bets, NEW x \in 1..MaxExpressions,
             openTable(p, bet, x)
      PROVE  MoneyStep
  BY <1>2, OpenTableMoney
<1>3. ASSUME NEW t \in TableIds, NEW p \in Players, NEW amount \in Takes,
             take(t, p, amount)
      PROVE  MoneyStep
  BY <1>3, TakeMoney
<1>4. ASSUME NEW t \in TableIds, NEW p \in Players,
             closeTable(t, p) \/ cancelTable(t, p)
      PROVE  MoneyStep
  BY <1>4, CloseTableMoney, CancelTableMoney DEF closeTable
<1>5. ASSUME NEW t \in TableIds, forceCloseTable(t) \/ settle(t)
      PROVE  MoneyStep
  BY <1>5, CloseTableMoney, SettleMoney DEF forceCloseTable
<1>6. ASSUME NEW id \in RequestIds, NEW outcome \in BaccaratOutcome,
             rawFulfillRandomWords(id, outcome)
      PROVE  MoneyStep
  BY <1>6, QuietMoney DEF rawFulfillRandomWords, protocolVars, controllerVars
<1>7. CASE OtherEngineRequests
  BY <1>1, <1>7, QuietMoney DEF OtherEngineRequests, protocolVars, controllerVars
<1>8. CASE ProtocolNext /\ UNCHANGED <<controllerVars, engineVars>>
  BY <1>1, <1>8, OutsideMoney DEF controllerVars
<1>9. CASE UNCHANGED vars
  BY <1>1, <1>9, QuietMoney DEF vars, protocolVars, controllerVars
<1>10. QED
  BY <1>1, <1>2, <1>3, <1>4, <1>5, <1>6, <1>7, <1>8, <1>9 DEF Next, TableNext

LEMMA InitCheminInv == Init => CheminInv /\ Escrow!Init
<1> SUFFICES ASSUME Init PROVE CheminInv /\ Escrow!Init
  OBVIOUS
<1>1. IInv /\ SettlementInv
  BY InitIInv, InitSettlementInv DEF Init
<1>2. /\ tables = [t \in TableIds |-> NoTable]
      /\ tableTakers = [t \in TableIds |-> <<>>]
      /\ takerAmounts = [t \in TableIds |-> [p \in Players |-> 0]]
  BY DEF Init
<1>3. TakersInv
  <2>1. SumFunction([p \in Players |-> 0]) = 0
    <3>1. IsFiniteSet(Players)
      BY SettlementAssumption
    <3> DEFINE f == [p \in Players |-> 0]
    <3>2. DOMAIN f = Players /\ \A p \in Players : f[p] = 0
      OBVIOUS
    <3> HIDE DEF f
    <3>3. SumFunction(f) = 0
      BY <3>1, <3>2, SumOfZeros
    <3>4. QED BY <3>3 DEF f
  <2>2. takerAmounts \in [TableIds -> [Players -> Nat]]
    BY <1>2
  <2>3. tableTakers \in [TableIds -> Seq(Players)]
    BY <1>2
  <2> SUFFICES ASSUME NEW t \in TableIds PROVE TakersInv!3!(t)
    BY <2>2, <2>3 DEF TakersInv
  <2>4. takersOf(t) = {}
    BY <1>2 DEF takersOf
  <2>5. IsInjective(tableTakers[t]) /\ Range(tableTakers[t]) = {}
    BY <1>2 DEF IsInjective, Range
  <2>6. SumFunction(takerAmounts[t]) = tables[t].totalPlayerTake
    BY <1>2, <2>1 DEF NoTable
  <2>7. ~exists(t)
    BY <1>2 DEF exists, NoTable
  <2>8. QED BY <2>4, <2>5, <2>6, <2>7
<1>4. Escrow!Init
  <2>1. SumFunction(claimMinted) = 0
    <3>1. IsFiniteSet(Developers)
      BY SettlementAssumption
    <3>2. DOMAIN claimMinted = Developers /\ \A d \in Developers : claimMinted[d] = 0
      BY DEF Init, ProtocolInit, RewardsInit
    <3>3. QED BY <3>1, <3>2, SumOfZeros
  <2>2. token.totalSupply = InitialBalance * Cardinality(Players)
    BY DEF Init, ProtocolInit
  <2>3. /\ [t \in TableIds |-> openEscrow(t)] = [t \in TableIds |-> 0]
        /\ [t \in TableIds |-> tables[t].settled] = [t \in TableIds |-> FALSE]
    BY <1>2 DEF openEscrow, NoTable
  <2>4. QED BY <2>1, <2>2, <2>3 DEF Escrow!Init
<1>5. QED BY <1>1, <1>3, <1>4 DEF CheminInv

-----------------------------------------------------------------------------
(* What the escrow promises.                                               *)

LEMMA EscrowSum ==
  ASSUME NEW f
  PROVE  Escrow!SumFunction(f) = SumFunction(f)
  BY DEF Escrow!SumFunction, Escrow!SumFunctionOnSet, Escrow!FoldFunctionOnSet,
         Escrow!MapThenFoldSet, SumFunction, SumFunctionOnSet, FoldFunctionOnSet,
         MapThenFoldSet

ConservedInv ==
  /\ token.totalSupply \in Nat /\ SumFunction(claimMinted) \in Nat
  /\ escrows \in [TableIds -> Nat]
  /\ token.totalSupply + SumFunction(escrows)
       = InitialBalance * Cardinality(Players) + SumFunction(claimMinted)

\* The argument is about the escrow's own steps.
LEMMA EscrowConserves ==
  /\ Escrow!Init => ConservedInv
  /\ ConservedInv /\ EscrowStep => ConservedInv'
  /\ ConservedInv => Escrow!Conserved
<1> DEFINE supply == InitialBalance * Cardinality(Players)
<1>1. supply \in Nat /\ IsFiniteSet(TableIds)
  <2>1. InitialBalance \in Nat /\ IsFiniteSet(Players)
    BY SettlementAssumption
  <2>2. Cardinality(Players) \in Nat
    BY <2>1, FS_CardinalityType
  <2>3. IsFiniteSet(TableIds)
    BY CheminAssumption, FS_Interval DEF TableIds
  <2>4. QED BY <2>1, <2>2, <2>3
<1>2. ASSUME NEW f \in [TableIds -> Nat]
      PROVE  /\ DOMAIN f = TableIds /\ Summable(f)
             /\ SumFunction(f) \in Nat
  BY <1>1, SumOfNats
<1>3. ASSUME Escrow!Init PROVE ConservedInv
  <2>1. /\ escrows = [t \in TableIds |-> 0] /\ token.totalSupply = supply
        /\ SumFunction(claimMinted) = 0
    BY <1>3 DEF Escrow!Init, escrows
  <2>2. escrows \in [TableIds -> Nat] /\ SumFunction(escrows) = 0
    BY <1>1, <2>1, SumOfZeros
  <2>3. QED BY <1>1, <2>1, <2>2 DEF ConservedInv
<1>4. ASSUME ConservedInv, EscrowStep PROVE ConservedInv'
  <2>1. ASSUME NEW t \in TableIds, NEW x \in Nat,
               escrows' = [escrows EXCEPT ![t] = x]
        PROVE  /\ escrows' \in [TableIds -> Nat]
               /\ SumFunction(escrows') = SumFunction(escrows) - escrows[t] + x
               /\ escrows[t] \in Nat /\ SumFunction(escrows) \in Nat
    <3>1. /\ escrows' \in [TableIds -> Nat] /\ escrows \in [TableIds -> Nat]
          /\ escrows'[t] = x /\ \A u \in TableIds \ {t} : escrows'[u] = escrows[u]
      BY <1>4, <2>1 DEF ConservedInv
    <3>2. /\ DOMAIN escrows = TableIds /\ DOMAIN escrows' = TableIds
          /\ Summable(escrows) /\ SumFunction(escrows) \in Nat
      BY <1>2, <3>1
    <3>3. escrows'[t] \in Int /\ t \in DOMAIN escrows
      BY <3>1, <3>2
    <3>4. SumFunction(escrows') = SumFunction(escrows) - escrows[t] + escrows'[t]
      BY <3>1, <3>2, <3>3, SumChanged
    <3>5. QED BY <3>1, <3>2, <3>4
  <2>2. ASSUME NEW t \in TableIds, Escrow!Deposit(t) PROVE ConservedInv'
    <3>1. PICK amount \in 1..token.totalSupply :
            /\ escrows' = [escrows EXCEPT ![t] = escrows[t] + amount]
            /\ token'.totalSupply = token.totalSupply - amount
      BY <2>2 DEF Escrow!Deposit, escrows
    <3>2. SumFunction(claimMinted') = SumFunction(claimMinted)
      BY <2>2 DEF Escrow!Deposit
    <3>3. escrows[t] + amount \in Nat /\ token'.totalSupply \in Nat
      BY <1>4, <3>1 DEF ConservedInv
    <3>4. /\ escrows' \in [TableIds -> Nat]
          /\ SumFunction(escrows') = SumFunction(escrows) - escrows[t]
                                       + (escrows[t] + amount)
          /\ escrows[t] \in Nat /\ SumFunction(escrows) \in Nat
      BY <2>1, <3>1, <3>3
    <3>5. QED BY <1>1, <1>4, <3>1, <3>2, <3>3, <3>4 DEF ConservedInv
  <2>3. ASSUME NEW t \in TableIds, Escrow!Release(t) PROVE ConservedInv'
    <3>1. /\ escrows' = [escrows EXCEPT ![t] = 0]
          /\ token'.totalSupply = token.totalSupply + escrows[t]
          /\ SumFunction(claimMinted') = SumFunction(claimMinted)
      BY <2>3 DEF Escrow!Release, escrows
    <3>2. /\ escrows' \in [TableIds -> Nat]
          /\ SumFunction(escrows') = SumFunction(escrows) - escrows[t] + 0
          /\ escrows[t] \in Nat /\ SumFunction(escrows) \in Nat
      BY <2>1, <3>1
    <3>3. QED BY <1>1, <1>4, <3>1, <3>2 DEF ConservedInv
  <2>4. CASE Escrow!Issue
    <3>1. MaxSupply \in Nat
      BY SettlementAssumption DEF Token!TokenAssumption
    <3>2. PICK amount \in 1..(MaxSupply - token.totalSupply) :
            /\ token'.totalSupply = token.totalSupply + amount
            /\ SumFunction(claimMinted') = SumFunction(claimMinted) + amount
      BY <2>4 DEF Escrow!Issue
    <3>3. escrows' = escrows
      BY <2>4 DEF Escrow!Issue, escrows
    <3>4. SumFunction(escrows) \in Nat
      BY <1>2, <1>4 DEF ConservedInv
    <3>5. amount \in Nat
      BY <1>4, <3>1, <3>2 DEF ConservedInv
    <3>6. QED BY <1>1, <1>4, <3>2, <3>3, <3>4, <3>5 DEF ConservedInv
  <2>5. CASE UNCHANGED Escrow!vars
    <3>1. /\ token'.totalSupply = token.totalSupply /\ escrows' = escrows
          /\ SumFunction(claimMinted') = SumFunction(claimMinted)
      BY <2>5 DEF Escrow!vars, escrows
    <3>2. QED BY <1>4, <3>1 DEF ConservedInv
  <2>6. QED BY <1>4, <2>2, <2>3, <2>4, <2>5 DEF EscrowStep, Escrow!Next
<1>5. ASSUME ConservedInv PROVE Escrow!Conserved
  BY <1>5, EscrowSum DEF ConservedInv, Escrow!Conserved, escrows
<1>6. QED BY <1>3, <1>4, <1>5

-----------------------------------------------------------------------------
\* At every table, at any time: takers never outgrow what the escrow matches,
\* and matched risk and refund add up to the escrow (_closeAndRequestResolution
\* can neither underflow nor strand a unit).
THEOREM EscrowAlwaysSplit == Spec => []EscrowSplit
<1>1. IInv => EscrowSplit
  BY TableInvSplits DEF IInv
<1>2. IInv /\ [Next]_vars => IInv'
  BY StepIInv
<1>3. QED BY <1>1, <1>2, InitIInv, PTL DEF Spec

\* However requests of the deployment interleave, an answer resolves the table
\* that asked for it, and a table asks exactly once, when it closes with takers.
THEOREM RequestsAlwaysAddressed == Spec => []RequestsAddressed
<1>1. IInv /\ [Next]_vars => IInv'
  BY StepIInv
<1>2. QED BY <1>1, InitIInv, InvImpliesRequestsAddressed, PTL DEF Spec

\* No operation of the protocol reopens a closed table, takes a stake at it or
\* changes its split, its outcome or its settled mark.
THEOREM ClosedTablesFinal == Spec => TablesFinal
<1>1. IInv /\ [Next]_vars => IInv'
  BY StepIInv
<1>2. IInv /\ [Next]_vars =>
        [ \A t \in TableIds :
            /\ tables[t].closed =>
                 /\ tables'[t] = [tables[t] EXCEPT !.settled = tables'[t].settled]
                 /\ takerAmounts'[t] = takerAmounts[t]
                 /\ tables[t].settled => tables'[t].settled
            /\ resolutions[t].resolved => resolutions'[t] = resolutions[t] ]_vars
  BY StepIInv DEF FinalTables, FinalRounds
<1>3. QED BY <1>1, <1>2, InitIInv, PTL DEF Spec, TablesFinal

\* The list _payWinningTakers walks is exactly the accounts that staked, each
\* once and never the banker, and their stakes are the total it divides by.
THEOREM TakersAlwaysListed == Spec => []TakersListed
<1>1. CheminInv => TakersListed
  BY DEF CheminInv, TakersInv, TakersListed
<1>2. CheminInv /\ [Next]_vars => CheminInv'
  BY StepCheminInv
<1>3. QED BY <1>1, <1>2, InitCheminInv, PTL DEF Spec

\* Whatever the stakes, their order and the rounding of each share, settle pays
\* every taker of a table the players won at least twice the stake.
THEOREM WinnersAlwaysDoubled == Spec => WinnersDoubled
<1>1. CheminInv /\ [Next]_vars => CheminInv'
  BY StepCheminInv
<1>2. CheminInv /\ [Next]_vars =>
        [ \A t \in TableIds :
            ~tables[t].settled /\ tables'[t].settled
              /\ ~cancelled(t)' /\ resolutions[t].outcome = "PlayerWin" =>
              \A p \in takersOf(t) :
                token'.balance[p] - token.balance[p] >= 2 * takerAmounts[t][p] ]_vars
  BY StepCheminInv DEF Doubled
<1>3. QED BY <1>1, <1>2, InitCheminInv, PTL DEF Spec, WinnersDoubled

\* The controller's tables implement an escrow: wagers burned are held by a
\* table, and settle or cancelTable mints all of a table's escrow back, once.
THEOREM TablesImplementEscrow == Spec => ImplementsEscrow
<1>1. CheminInv /\ [Next]_vars => CheminInv' /\ [Escrow!Next]_(Escrow!vars)
  BY StepCheminInv DEF EscrowStep
<1>2. QED BY <1>1, InitCheminInv, PTL DEF Spec, ImplementsEscrow, Escrow!Spec

\* What circulates and what the tables hold is, at any time, what was deployed
\* and what developers have claimed: tables neither create nor lose a unit.
THEOREM TablesConserve == Spec => []Escrow!Conserved
<1>1. Escrow!Init => ConservedInv
  BY EscrowConserves
<1>2. ConservedInv /\ [Escrow!Next]_(Escrow!vars) => ConservedInv'
  BY EscrowConserves DEF EscrowStep
<1>3. ConservedInv => Escrow!Conserved
  BY EscrowConserves
<1>4. Escrow!Spec => []Escrow!Conserved
  BY <1>1, <1>2, <1>3, PTL DEF Escrow!Spec
<1>5. QED BY <1>4, TablesImplementEscrow DEF ImplementsEscrow
=============================================================================
