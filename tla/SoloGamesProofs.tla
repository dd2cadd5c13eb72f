--------------------------- MODULE SoloGamesProofs ---------------------------
(***************************************************************************)
(* Proofs about the two solo games on one coordinator, for every set of    *)
(* players, developers and modules, every wager, multiplier and roll, any  *)
(* number of requests, and whatever governance, developers and the clock   *)
(* do in between: every balance and every accrual is explained by sessions, *)
(* a round that was answered is final, and picks pay in order.             *)
(*                                                                         *)
(* And, at the end, about the slot machine: for every preset managers may  *)
(* register, what a spin resolves to fits the preset, every balance is     *)
(* explained by spins, each paid once, and a spin on a preset whose caps   *)
(* cover its features can always be answered.                              *)
(***************************************************************************)
EXTENDS SoloGames, SlotMachine, SettlementProofs

-----------------------------------------------------------------------------
(* The engines' modules extend the settlement layer on their own; their    *)
(* calls of it are the calls of this one.                                  *)

LEMMA BaccaratSettlement ==
  ASSUME NEW l, NEW c, NEW p, NEW x, NEW amount
  PROVE  /\ Baccarat!burnPlayerWager(l, p, amount) = burnPlayerWager(l, p, amount)
         /\ Baccarat!mintPlayerReward(l, p, amount) = mintPlayerReward(l, p, amount)
         /\ Baccarat!canBurnPlayerWager(c, p, amount)
              <=> canBurnPlayerWager(c, p, amount)
         /\ Baccarat!accrueDeveloperForExpression(c, x, amount)
              <=> accrueDeveloperForExpression(c, x, amount)
         /\ Baccarat!nextRequestId = requestCounter + 1
         /\ Baccarat!RequestIds = RequestIds
<1>1. /\ Baccarat!burnPlayerWager(l, p, amount) = burnPlayerWager(l, p, amount)
      /\ Baccarat!mintPlayerReward(l, p, amount) = mintPlayerReward(l, p, amount)
  BY DEF Baccarat!burnPlayerWager, burnPlayerWager, Baccarat!mintPlayerReward,
         mintPlayerReward, Baccarat!Token!burnFrom, Token!burnFrom,
         Baccarat!Token!burn, Token!burn, Baccarat!Token!spendAllowance,
         Token!spendAllowance, Baccarat!Token!mint, Token!mint
<1>2. Baccarat!canBurnPlayerWager(c, p, amount) <=> canBurnPlayerWager(c, p, amount)
  BY DEF Baccarat!canBurnPlayerWager, canBurnPlayerWager,
         Baccarat!Token!canSpend, Token!canSpend,
         Baccarat!Catalog!isSettlableController, Catalog!isSettlableController
<1>3. Baccarat!accrueDeveloperForExpression(c, x, amount)
        <=> accrueDeveloperForExpression(c, x, amount)
  BY DEF Baccarat!accrueDeveloperForExpression, accrueDeveloperForExpression,
         Baccarat!accrue, accrue, Baccarat!developerAccrual, developerAccrual,
         Baccarat!Catalog!isSettlableController, Catalog!isSettlableController,
         Baccarat!Catalog!getModuleByController, Catalog!getModuleByController,
         Baccarat!Registry!isExpressionCompatible, Registry!isExpressionCompatible,
         Baccarat!Registry!exists, Registry!exists,
         Baccarat!Registry!ExpressionIds, Registry!ExpressionIds,
         Baccarat!rewardsVars, rewardsVars, Baccarat!Epochs, Epochs
<1>4. Baccarat!nextRequestId = requestCounter + 1 /\ Baccarat!RequestIds = RequestIds
  BY DEF Baccarat!nextRequestId, Baccarat!RequestIds, RequestIds
<1>5. QED BY <1>1, <1>2, <1>3, <1>4

LEMMA PickerSettlement ==
  ASSUME NEW l, NEW c, NEW p, NEW x, NEW amount
  PROVE  /\ Picker!burnPlayerWager(l, p, amount) = burnPlayerWager(l, p, amount)
         /\ Picker!mintPlayerReward(l, p, amount) = mintPlayerReward(l, p, amount)
         /\ Picker!canBurnPlayerWager(c, p, amount)
              <=> canBurnPlayerWager(c, p, amount)
         /\ Picker!accrueDeveloperForExpression(c, x, amount)
              <=> accrueDeveloperForExpression(c, x, amount)
         /\ Picker!nextRequestId = requestCounter + 1
         /\ Picker!RequestIds = RequestIds
<1>1. /\ Picker!burnPlayerWager(l, p, amount) = burnPlayerWager(l, p, amount)
      /\ Picker!mintPlayerReward(l, p, amount) = mintPlayerReward(l, p, amount)
  BY DEF Picker!burnPlayerWager, burnPlayerWager, Picker!mintPlayerReward,
         mintPlayerReward, Picker!Token!burnFrom, Token!burnFrom,
         Picker!Token!burn, Token!burn, Picker!Token!spendAllowance,
         Token!spendAllowance, Picker!Token!mint, Token!mint
<1>2. Picker!canBurnPlayerWager(c, p, amount) <=> canBurnPlayerWager(c, p, amount)
  BY DEF Picker!canBurnPlayerWager, canBurnPlayerWager,
         Picker!Token!canSpend, Token!canSpend,
         Picker!Catalog!isSettlableController, Catalog!isSettlableController
<1>3. Picker!accrueDeveloperForExpression(c, x, amount)
        <=> accrueDeveloperForExpression(c, x, amount)
  BY DEF Picker!accrueDeveloperForExpression, accrueDeveloperForExpression,
         Picker!accrue, accrue, Picker!developerAccrual, developerAccrual,
         Picker!Catalog!isSettlableController, Catalog!isSettlableController,
         Picker!Catalog!getModuleByController, Catalog!getModuleByController,
         Picker!Registry!isExpressionCompatible, Registry!isExpressionCompatible,
         Picker!Registry!exists, Registry!exists,
         Picker!Registry!ExpressionIds, Registry!ExpressionIds,
         Picker!rewardsVars, rewardsVars, Picker!Epochs, Epochs
<1>4. Picker!nextRequestId = requestCounter + 1 /\ Picker!RequestIds = RequestIds
  BY DEF Picker!nextRequestId, Picker!RequestIds, RequestIds
<1>5. QED BY <1>1, <1>2, <1>3, <1>4

-----------------------------------------------------------------------------
(* Sums over requests.                                                     *)

staked(requests, S) == SumFunction([id \in S |-> requests[id].wager])
paid(requests, S) == SumFunction([id \in S |-> requests[id].payout])

LEMMA FiniteRequests ==
  ASSUME NEW S \in SUBSET RequestIds
  PROVE  IsFiniteSet(S)
<1>1. MaxRequests \in Nat
  BY SoloAssumption
<1>2. IsFiniteSet(RequestIds)
  BY <1>1, FS_Interval DEF RequestIds
<1>3. QED BY <1>2, FS_Subset

\* A request is filed.
LEMMA StakedMore ==
  ASSUME NEW S \in SUBSET RequestIds, NEW n \in RequestIds \ S, NEW f,
         \A id \in S \cup {n} : f[id].wager \in Nat
  PROVE  staked(f, S \cup {n}) = staked(f, S) + f[n].wager
<1> DEFINE before == [id \in S |-> f[id].wager]
           after == [id \in S \cup {n} |-> f[id].wager]
<1>1. /\ DOMAIN before = S /\ DOMAIN after = S \cup {n}
      /\ \A id \in S : before[id] \in Nat /\ after[id] = before[id]
      /\ after[n] = f[n].wager /\ after[n] \in Nat
  OBVIOUS
<1>2. staked(f, S) = SumFunction(before) /\ staked(f, S \cup {n}) = SumFunction(after)
  BY DEF staked
<1> HIDE DEF before, after
<1>3. Summable(before) /\ SumFunction(before) \in Nat
  BY <1>1, FiniteRequests, SumOfNats
<1>4. SumFunction(after) = SumFunction(before) + after[n]
  BY <1>1, <1>3, SumExtended
<1>5. QED BY <1>1, <1>2, <1>4

\* A request is paid.
LEMMA PaidMore ==
  ASSUME NEW S \in SUBSET RequestIds, NEW n \in RequestIds \ S, NEW f,
         \A id \in S \cup {n} : f[id].payout \in Nat
  PROVE  paid(f, S \cup {n}) = paid(f, S) + f[n].payout
<1> DEFINE before == [id \in S |-> f[id].payout]
           after == [id \in S \cup {n} |-> f[id].payout]
<1>1. /\ DOMAIN before = S /\ DOMAIN after = S \cup {n}
      /\ \A id \in S : before[id] \in Nat /\ after[id] = before[id]
      /\ after[n] = f[n].payout /\ after[n] \in Nat
  OBVIOUS
<1>2. paid(f, S) = SumFunction(before) /\ paid(f, S \cup {n}) = SumFunction(after)
  BY DEF paid
<1> HIDE DEF before, after
<1>3. Summable(before) /\ SumFunction(before) \in Nat
  BY <1>1, FiniteRequests, SumOfNats
<1>4. SumFunction(after) = SumFunction(before) + after[n]
  BY <1>1, <1>3, SumExtended
<1>5. QED BY <1>1, <1>2, <1>4

LEMMA SumsAreNatural ==
  ASSUME NEW S \in SUBSET RequestIds, NEW f,
         \A id \in S : f[id].wager \in Nat /\ f[id].payout \in Nat
  PROVE  staked(f, S) \in Nat /\ paid(f, S) \in Nat
<1> DEFINE wagers == [id \in S |-> f[id].wager]
           payouts == [id \in S |-> f[id].payout]
<1>1. /\ DOMAIN wagers = S /\ DOMAIN payouts = S
      /\ \A id \in S : wagers[id] \in Nat /\ payouts[id] \in Nat
  OBVIOUS
<1> HIDE DEF wagers, payouts
<1>2. SumFunction(wagers) \in Nat /\ SumFunction(payouts) \in Nat
  BY <1>1, FiniteRequests, SumOfNats
<1>3. QED BY <1>2 DEF staked, paid, wagers, payouts

LEMMA StakedSame ==
  ASSUME NEW S, NEW f, NEW g, \A id \in S : g[id].wager = f[id].wager
  PROVE  staked(g, S) = staked(f, S)
<1>1. [id \in S |-> g[id].wager] = [id \in S |-> f[id].wager]
  OBVIOUS
<1>2. QED BY <1>1 DEF staked

LEMMA PaidSame ==
  ASSUME NEW S, NEW f, NEW g, \A id \in S : g[id].payout = f[id].payout
  PROVE  paid(g, S) = paid(f, S)
<1>1. [id \in S |-> g[id].payout] = [id \in S |-> f[id].payout]
  OBVIOUS
<1>2. QED BY <1>1 DEF paid

-----------------------------------------------------------------------------
(* The inductive invariant.                                                *)

BaccaratRequest == [player: Players \cup {Nobody}, wager: Nat,
                    side: {"Player", "Banker", "Tie"}, payout: Nat,
                    fulfilled: BOOLEAN]

PickerRequest == [player: Players \cup {Nobody}, wager: Nat, selection: Nat,
                  payout: Nat, isWin: BOOLEAN, fulfilled: BOOLEAN]

SoloTypes ==
  /\ requestCounter \in 0..MaxRequests
  /\ sessionSettled \in [SoloControllers -> [RequestIds -> BOOLEAN]]
  /\ baccaratRequests \in [RequestIds -> BaccaratRequest]
  /\ pickerRequests \in [RequestIds -> PickerRequest]

\* Every id the coordinator has given out belongs to one game.  A baccarat
\* session is answered before it is settled; a pick is both from the start, so
\* there is none while the coordinator answers later.
SessionsInv ==
  \A id \in RequestIds :
    LET round == baccaratRequests[id]
        pick == pickerRequests[id]
    IN  /\ id <= requestCounter <=> (round.player # Nobody \/ pick.player # Nobody)
        /\ round.player = Nobody \/ pick.player = Nobody
        /\ round.fulfilled => round.player # Nobody
        /\ sessionSettled[baccaratController][id] =>
             round.fulfilled /\ registered(baccaratController)
        /\ sessionSettled[pickerController][id] <=> pick.player # Nobody
        /\ pick.fulfilled <=> pick.player # Nobody
        /\ pick.player # Nobody => registered(pickerController) /\ ~DelayedVRF

\* What a pick pays is fixed by its wager, its selection and whether it won.
PicksInv ==
  \A id \in RequestIds :
    LET pick == pickerRequests[id]
    IN  pick.player # Nobody =>
          /\ pick.selection \in 1..99
          /\ pick.payout = IF pick.isWin THEN (pick.wager * 100) \div pick.selection
                                         ELSE 0

rounds(p) == {id \in RequestIds : baccaratRequests[id].player = p}
picks(p) == {id \in RequestIds : pickerRequests[id].player = p}
baccaratSettled == {id \in RequestIds : sessionSettled[baccaratController][id]}
pickerSettled == {id \in RequestIds : sessionSettled[pickerController][id]}
claims(p) == IF p \in Developers THEN claimMinted[p] ELSE 0

Explained(p) ==
  token.balance[p] + staked(baccaratRequests, rounds(p)) + staked(pickerRequests, picks(p))
    = InitialBalance + paid(baccaratRequests, rounds(p) \cap baccaratSettled)
        + paid(pickerRequests, picks(p)) + claims(p)

baccaratDues == [id \in baccaratSettled |->
                   developerAccrual(baccaratController, baccaratRequests[id].wager)]
pickerDues == [id \in pickerSettled |->
                 developerAccrual(pickerController, pickerRequests[id].wager)]

DuesExplained == owed = SumFunction(baccaratDues) + SumFunction(pickerDues)

SoloInv ==
  /\ SettlementInv /\ SoloTypes /\ SessionsInv /\ PicksInv
  /\ \A p \in Players : Explained(p)
  /\ DuesExplained

LEMMA Games ==
  /\ baccaratController \in SoloControllers /\ baccaratController \in Controllers
  /\ pickerController \in SoloControllers /\ pickerController \in Controllers
  /\ baccaratController # pickerController
  /\ MaxRequests \in Nat /\ Wagers \subseteq Nat /\ Nobody \notin Players
  /\ InitialBalance \in Nat
<1>1. Nobody \notin Players /\ InitialBalance \in Nat
  BY SettlementAssumption
<1>2. QED BY <1>1, GamesAssumption, SoloAssumption

\* Everything the equations speak of is a natural number.
LEMMA PartsAreNatural ==
  ASSUME SoloInv, NEW p \in Players
  PROVE  /\ token.balance[p] \in Nat /\ claims(p) \in Nat /\ InitialBalance \in Nat
         /\ staked(baccaratRequests, rounds(p)) \in Nat
         /\ staked(pickerRequests, picks(p)) \in Nat
         /\ paid(baccaratRequests, rounds(p) \cap baccaratSettled) \in Nat
         /\ paid(pickerRequests, picks(p)) \in Nat
<1>1. token.balance[p] \in Nat
  BY DEF SoloInv, SettlementInv, LedgerInv, Token!Ledger, Accounts
<1>2. claims(p) \in Nat
  BY DEF SoloInv, SettlementInv, RewardsInv, RewardsTypeOK, claims
<1>3. \A id \in RequestIds :
        /\ baccaratRequests[id].wager \in Nat /\ baccaratRequests[id].payout \in Nat
        /\ pickerRequests[id].wager \in Nat /\ pickerRequests[id].payout \in Nat
  BY DEF SoloInv, SoloTypes, BaccaratRequest, PickerRequest
<1>4. /\ rounds(p) \in SUBSET RequestIds /\ picks(p) \in SUBSET RequestIds
      /\ rounds(p) \cap baccaratSettled \in SUBSET RequestIds
  BY DEF rounds, picks
<1>5. QED BY <1>1, <1>2, <1>3, <1>4, SumsAreNatural, Games

LEMMA DuesAreNatural ==
  ASSUME SoloInv
  PROVE  /\ \A id \in baccaratSettled : baccaratDues[id] \in Nat
         /\ \A id \in pickerSettled : pickerDues[id] \in Nat
         /\ SumFunction(baccaratDues) \in Nat /\ SumFunction(pickerDues) \in Nat
<1>1. ASSUME NEW id \in baccaratSettled PROVE baccaratDues[id] \in Nat
  <2>1. baccaratRequests[id].wager \in Nat /\ registered(baccaratController)
    BY DEF SoloInv, SoloTypes, SessionsInv, BaccaratRequest, baccaratSettled
  <2>2. QED BY <2>1, RateType, Games DEF SoloInv, SettlementInv, baccaratDues
<1>2. ASSUME NEW id \in pickerSettled PROVE pickerDues[id] \in Nat
  <2>1. pickerRequests[id].wager \in Nat /\ registered(pickerController)
    BY DEF SoloInv, SoloTypes, SessionsInv, PickerRequest, pickerSettled
  <2>2. QED BY <2>1, RateType, Games DEF SoloInv, SettlementInv, pickerDues
<1>3. /\ IsFiniteSet(baccaratSettled) /\ IsFiniteSet(pickerSettled)
      /\ DOMAIN baccaratDues = baccaratSettled /\ DOMAIN pickerDues = pickerSettled
  BY FiniteRequests DEF baccaratSettled, pickerSettled, baccaratDues, pickerDues
<1>4. SumFunction(baccaratDues) \in Nat
  BY <1>1, <1>3, SumOfNats
<1>5. SumFunction(pickerDues) \in Nat
  BY <1>2, <1>3, SumOfNats
<1>6. QED BY <1>1, <1>2, <1>4, <1>5

\* Rates and the wagers of settled sessions do not change, so what was booked
\* for them does not either.
LEMMA BaccaratDuesSame ==
  ASSUME SoloInv, RatesKept, baccaratSettled' = baccaratSettled,
         \A id \in baccaratSettled :
           baccaratRequests'[id].wager = baccaratRequests[id].wager
  PROVE  baccaratDues' = baccaratDues
<1>1. ASSUME NEW id \in baccaratSettled
      PROVE  rate(baccaratController)' = rate(baccaratController)
  BY Games DEF RatesKept, SoloInv, SessionsInv, baccaratSettled
<1>2. QED BY <1>1 DEF baccaratDues, developerAccrual, rate

LEMMA PickerDuesSame ==
  ASSUME SoloInv, RatesKept, pickerSettled' = pickerSettled,
         \A id \in pickerSettled :
           pickerRequests'[id].wager = pickerRequests[id].wager
  PROVE  pickerDues' = pickerDues
<1>1. ASSUME NEW id \in pickerSettled
      PROVE  rate(pickerController)' = rate(pickerController)
  BY Games DEF RatesKept, SoloInv, SessionsInv, pickerSettled
<1>2. QED BY <1>1 DEF pickerDues, developerAccrual, rate

-----------------------------------------------------------------------------
(* Playing a round of baccarat.                                            *)

LEMMA BaccaratPlayKeepsInv ==
  ASSUME SoloInv, NEW player \in Players, NEW wager \in Wagers, NEW side \in Sides,
         NEW x, Baccarat!play(player, wager, side, x), UNCHANGED pickerRequests
  PROVE  SoloInv'
<1> DEFINE n == requestCounter + 1
           opened == [player |-> player, wager |-> wager, side |-> side,
                      payout |-> 0, fulfilled |-> FALSE]
<1>1. /\ canBurnPlayerWager(baccaratController, player, wager)
      /\ token' = burnPlayerWager(token, player, wager)
      /\ requestCounter < MaxRequests /\ requestCounter' = n
      /\ baccaratRequests' = [baccaratRequests EXCEPT ![n] = opened]
      /\ UNCHANGED <<catalogVars, registryVars, rewardsVars, sessionSettled>>
  BY BaccaratSettlement
  DEF Baccarat!play, Baccarat!requestRandomWords, Baccarat!catalogVars, catalogVars,
      Baccarat!registryVars, registryVars, Baccarat!rewardsVars, rewardsVars
<1>2. /\ wager \in Nat /\ side \in {"Player", "Banker", "Tie"}
      /\ player \in Accounts /\ player # Nobody
      /\ n \in RequestIds /\ requestCounter \in Nat
  BY <1>1, Games, GamesAssumption DEF SoloInv, SoloTypes, Accounts, RequestIds
<1> HIDE DEF opened
<1>3. /\ baccaratRequests[n].player = Nobody /\ pickerRequests[n].player = Nobody
      /\ ~sessionSettled[baccaratController][n]
      /\ ~sessionSettled[pickerController][n]
  BY <1>2 DEF SoloInv, SessionsInv
<1>4. /\ opened \in BaccaratRequest /\ opened.player = player
      /\ opened.wager = wager /\ ~opened.fulfilled
  BY <1>2 DEF opened, BaccaratRequest
<1>5. /\ baccaratRequests'[n] = opened
      /\ \A id \in RequestIds \ {n} : baccaratRequests'[id] = baccaratRequests[id]
      /\ SoloTypes'
  <2>1. baccaratRequests \in [RequestIds -> BaccaratRequest]
    BY DEF SoloInv, SoloTypes
  <2>2. baccaratRequests' \in [RequestIds -> BaccaratRequest]
    BY <1>1, <1>2, <1>4, <2>1
  <2>3. requestCounter' \in 0..MaxRequests
    BY <1>1, <1>2, Games
  <2>4. QED BY <1>1, <1>2, <2>1, <2>2, <2>3 DEF SoloInv, SoloTypes
<1>6. LET spent == burnPlayerWager(token, player, wager)
      IN  LedgerInv(spent) /\ spent.balance = [token.balance EXCEPT ![player] = @ - wager]
  BY <1>1, <1>2, BurnKeepsLedger DEF canBurnPlayerWager, SoloInv, SettlementInv
<1>7. SettlementInv' /\ claimMinted' = claimMinted /\ owed' = owed /\ RatesKept
      /\ controllerModuleIds' = controllerModuleIds
  <2>1. /\ CatalogInv' /\ RegistryInv' /\ RewardsInv' /\ RatesKept
        /\ UNCHANGED <<claimMinted, epochAccrual, controllerModuleIds>>
    BY <1>1, SameCatalog, SameRegistry, SameRewards DEF SoloInv, SettlementInv, RatesKept
  <2>2. LedgerInv(token)'
    BY <1>1, <1>6 DEF LedgerInv
  <2>3. QED BY <2>1, <2>2 DEF SettlementInv, owed
<1>8. SessionsInv'
  <2> SUFFICES ASSUME NEW id \in RequestIds
               PROVE  SessionsInv!(id)'
    BY DEF SessionsInv
  <2>1. CASE id = n
    BY <1>1, <1>2, <1>3, <1>4, <1>5, <1>7, <2>1 DEF SoloInv, SessionsInv, registered
  <2>2. CASE id # n
    BY <1>1, <1>2, <1>5, <1>7, <2>2 DEF SoloInv, SessionsInv, registered, RequestIds
  <2>3. QED BY <2>1, <2>2
<1>9. PicksInv'
  BY DEF SoloInv, PicksInv
<1>10. pickerDues' = pickerDues /\ baccaratDues' = baccaratDues
  <2>1. pickerSettled' = pickerSettled /\ baccaratSettled' = baccaratSettled
    BY <1>1 DEF pickerSettled, baccaratSettled
  <2>2. \A id \in baccaratSettled : baccaratRequests'[id] = baccaratRequests[id]
    BY <1>3, <1>5 DEF baccaratSettled
  <2>3. QED BY <1>7, <2>1, <2>2, BaccaratDuesSame, PickerDuesSame
<1>11. DuesExplained'
  BY <1>7, <1>10 DEF SoloInv, DuesExplained
<1>12. ASSUME NEW p \in Players
       PROVE  Explained(p)'
  <2> DEFINE R == rounds(p)
             S == rounds(p) \cap baccaratSettled
  <2>1. /\ picks(p)' = picks(p) /\ claims(p)' = claims(p)
        /\ baccaratSettled' = baccaratSettled
    BY <1>1, <1>7 DEF picks, claims, baccaratSettled
  <2>2. /\ staked(pickerRequests, picks(p))' = staked(pickerRequests, picks(p))
        /\ paid(pickerRequests, picks(p))' = paid(pickerRequests, picks(p))
    BY <2>1 DEF staked, paid
  <2>3. /\ R \in SUBSET RequestIds /\ n \notin R
        /\ \A id \in R : baccaratRequests'[id] = baccaratRequests[id]
        /\ \A id \in R : baccaratRequests[id].wager \in Nat
    BY <1>3, <1>5, Games DEF rounds, SoloInv, SoloTypes, BaccaratRequest
  <2>4. (rounds(p) \cap baccaratSettled)' = S
    BY <1>3, <1>4, <1>5, <2>1 DEF rounds, baccaratSettled
  <2>5. paid(baccaratRequests, rounds(p) \cap baccaratSettled)' = paid(baccaratRequests, S)
    <3>1. paid(baccaratRequests', S) = paid(baccaratRequests, S)
      BY <2>3, PaidSame
    <3>2. QED BY <2>4, <3>1 DEF paid
  <2>6. CASE p = player
    <3>1. rounds(p)' = R \cup {n}
      BY <1>2, <1>4, <1>5, <2>6 DEF rounds
    <3>2. staked(baccaratRequests', R \cup {n}) = staked(baccaratRequests, R) + wager
      <4>1. /\ n \in RequestIds \ R /\ R \in SUBSET RequestIds
            /\ \A id \in R \cup {n} : baccaratRequests'[id].wager \in Nat
            /\ baccaratRequests'[n].wager = wager
        BY <1>2, <1>4, <1>5, <2>3
      <4>2. staked(baccaratRequests', R) = staked(baccaratRequests, R)
        BY <2>3, StakedSame
      <4> HIDE DEF R, n
      <4>3. staked(baccaratRequests', R \cup {n})
              = staked(baccaratRequests', R) + baccaratRequests'[n].wager
        BY <4>1, StakedMore
      <4>4. QED BY <4>1, <4>2, <4>3
    <3>3. staked(baccaratRequests, rounds(p))' = staked(baccaratRequests, R) + wager
      BY <3>1, <3>2 DEF staked
    <3>4. token'.balance[p] = token.balance[p] - wager
      BY <1>1, <1>2, <1>6, <2>6 DEF SoloInv, SettlementInv, LedgerInv, Token!Ledger
    <3> HIDE DEF R, S
    <3>5. QED BY <1>2, <2>1, <2>2, <2>5, <3>3, <3>4, PartsAreNatural
           DEF SoloInv, Explained, R, S
  <2>7. CASE p # player
    <3>1. rounds(p)' = R
      BY <1>2, <1>3, <1>4, <1>5, <2>7, Games DEF rounds
    <3>2. staked(baccaratRequests, rounds(p))' = staked(baccaratRequests, R)
      <4>1. staked(baccaratRequests', R) = staked(baccaratRequests, R)
        BY <2>3, StakedSame
      <4>2. QED BY <3>1, <4>1 DEF staked
    <3>3. token'.balance[p] = token.balance[p]
      BY <1>1, <1>2, <1>6, <2>7 DEF SoloInv, SettlementInv, LedgerInv, Token!Ledger, Accounts
    <3>4. QED BY <2>1, <2>2, <2>5, <3>2, <3>3 DEF SoloInv, Explained
  <2>8. QED BY <2>6, <2>7
<1>13. QED BY <1>5, <1>7, <1>8, <1>9, <1>11, <1>12 DEF SoloInv

-----------------------------------------------------------------------------
(* The coordinator's answer to a round.                                    *)

LEMMA BaccaratPayoutType ==
  ASSUME NEW wager \in Nat, NEW side \in {"Player", "Banker", "Tie"},
         NEW outcome \in Baccarat!BaccaratOutcome
  PROVE  Baccarat!computePayout(wager, side, outcome) \in Nat
<1> DEFINE multiplier == Baccarat!payoutMultiplierWad(side)
<1>1. multiplier \in Nat /\ Wad \in Nat \ {0}
  BY GamesAssumption DEF Baccarat!payoutMultiplierWad
<1>2. (wager * multiplier) \div Wad \in Nat
  BY <1>1, QuotientIsNatural
<1>3. QED BY <1>2 DEF Baccarat!computePayout

LEMMA BaccaratAnswerKeepsInv ==
  ASSUME SoloInv, NEW n \in RequestIds, NEW outcome \in Baccarat!BaccaratOutcome,
         Baccarat!rawFulfillRandomWords(n, outcome), UNCHANGED pickerRequests
  PROVE  SoloInv'
<1> DEFINE request == baccaratRequests[n]
           answered == Baccarat!resolved(request, outcome)
<1>1. /\ request.player # Nobody /\ ~request.fulfilled
      /\ baccaratRequests' = [baccaratRequests EXCEPT ![n] = answered]
      /\ UNCHANGED <<token, catalogVars, registryVars, rewardsVars>>
      /\ UNCHANGED <<requestCounter, sessionSettled>>
  BY DEF Baccarat!rawFulfillRandomWords, Baccarat!protocolVars, Baccarat!soloVars,
         Baccarat!catalogVars, catalogVars, Baccarat!registryVars, registryVars,
         Baccarat!rewardsVars, rewardsVars
<1>2. /\ baccaratRequests \in [RequestIds -> BaccaratRequest]
      /\ request \in BaccaratRequest
  BY DEF SoloInv, SoloTypes
<1>3. /\ answered \in BaccaratRequest /\ answered.player = request.player
      /\ answered.wager = request.wager /\ answered.fulfilled
  <2>1. Baccarat!computePayout(request.wager, request.side, outcome) \in Nat
    BY <1>2, BaccaratPayoutType DEF BaccaratRequest
  <2> HIDE DEF request
  <2>2. QED BY <1>2, <2>1 DEF Baccarat!resolved, BaccaratRequest
<1> HIDE DEF answered
<1>4. /\ baccaratRequests'[n] = answered
      /\ \A id \in RequestIds \ {n} : baccaratRequests'[id] = baccaratRequests[id]
      /\ SoloTypes'
  <2>1. baccaratRequests' \in [RequestIds -> BaccaratRequest]
    BY <1>1, <1>2, <1>3
  <2>2. QED BY <1>1, <1>2, <2>1 DEF SoloInv, SoloTypes
<1>5. n \notin baccaratSettled
  BY <1>1 DEF SoloInv, SessionsInv, baccaratSettled
<1>6. SettlementInv' /\ claimMinted' = claimMinted /\ owed' = owed /\ RatesKept
      /\ controllerModuleIds' = controllerModuleIds
  <2>1. /\ CatalogInv' /\ RegistryInv' /\ RewardsInv' /\ RatesKept
        /\ UNCHANGED <<claimMinted, epochAccrual, controllerModuleIds>>
    BY <1>1, SameCatalog, SameRegistry, SameRewards DEF SoloInv, SettlementInv, RatesKept
  <2>2. LedgerInv(token)'
    BY <1>1 DEF LedgerInv, SoloInv, SettlementInv
  <2>3. QED BY <2>1, <2>2 DEF SettlementInv, owed
<1>7. SessionsInv'
  <2> SUFFICES ASSUME NEW id \in RequestIds
               PROVE  SessionsInv!(id)'
    BY DEF SessionsInv
  <2>1. CASE id = n
    BY <1>1, <1>3, <1>4, <1>5, <1>6, <2>1
    DEF SoloInv, SessionsInv, registered, baccaratSettled
  <2>2. CASE id # n
    BY <1>1, <1>4, <1>6, <2>2 DEF SoloInv, SessionsInv, registered
  <2>3. QED BY <2>1, <2>2
<1>8. PicksInv'
  BY DEF SoloInv, PicksInv
<1>9. pickerDues' = pickerDues /\ baccaratDues' = baccaratDues
  <2>1. pickerSettled' = pickerSettled /\ baccaratSettled' = baccaratSettled
    BY <1>1 DEF pickerSettled, baccaratSettled
  <2>2. \A id \in baccaratSettled : baccaratRequests'[id] = baccaratRequests[id]
    BY <1>4, <1>5 DEF baccaratSettled
  <2>3. QED BY <1>6, <2>1, <2>2, BaccaratDuesSame, PickerDuesSame
<1>10. DuesExplained'
  BY <1>6, <1>9 DEF SoloInv, DuesExplained
<1>11. ASSUME NEW p \in Players
       PROVE  Explained(p)'
  <2> DEFINE S == rounds(p) \cap baccaratSettled
  <2>1. /\ picks(p)' = picks(p) /\ claims(p)' = claims(p) /\ rounds(p)' = rounds(p)
        /\ baccaratSettled' = baccaratSettled /\ token' = token
    BY <1>1, <1>3, <1>4, <1>6 DEF picks, claims, baccaratSettled, rounds
  <2>2. /\ staked(pickerRequests, picks(p))' = staked(pickerRequests, picks(p))
        /\ paid(pickerRequests, picks(p))' = paid(pickerRequests, picks(p))
    BY <2>1 DEF staked, paid
  <2>3. staked(baccaratRequests, rounds(p))' = staked(baccaratRequests, rounds(p))
    <3>1. staked(baccaratRequests', rounds(p)) = staked(baccaratRequests, rounds(p))
      <4>1. \A id \in rounds(p) :
              baccaratRequests'[id].wager = baccaratRequests[id].wager
        BY <1>3, <1>4 DEF rounds
      <4>2. QED BY <4>1, StakedSame
    <3>2. QED BY <2>1, <3>1 DEF staked
  <2>4. paid(baccaratRequests, rounds(p) \cap baccaratSettled)' = paid(baccaratRequests, S)
    <3>1. paid(baccaratRequests', S) = paid(baccaratRequests, S)
      <4>1. \A id \in S : baccaratRequests'[id].payout = baccaratRequests[id].payout
        BY <1>4, <1>5 DEF rounds
      <4>2. QED BY <4>1, PaidSame
    <3>2. QED BY <2>1, <3>1 DEF paid
  <2>5. QED BY <2>1, <2>2, <2>3, <2>4 DEF SoloInv, Explained
<1>12. QED BY <1>4, <1>6, <1>7, <1>8, <1>10, <1>11 DEF SoloInv

-----------------------------------------------------------------------------
(* Settling a session.                                                     *)

LEMMA BaccaratSettleKeepsInv ==
  ASSUME SoloInv, NEW n \in RequestIds, Baccarat!settle(n), UNCHANGED pickerRequests
  PROVE  SoloInv'
<1> DEFINE request == baccaratRequests[n]
           due == developerAccrual(baccaratController, request.wager)
<1>1. /\ request.fulfilled /\ ~sessionSettled[baccaratController][n]
      /\ sessionSettled' = [sessionSettled EXCEPT ![baccaratController][n] = TRUE]
      /\ UNCHANGED <<catalogVars, registryVars, requestCounter, baccaratRequests>>
      /\ token' = mintPlayerReward(token, request.player, request.payout)
      /\ \E x : accrueDeveloperForExpression(baccaratController, x, request.wager)
  BY BaccaratSettlement
  DEF Baccarat!settle, Baccarat!markSettled, Baccarat!mintAndAccrue,
      Baccarat!catalogVars, catalogVars, Baccarat!registryVars, registryVars
<1>2. /\ request.player \in Players /\ request.payout \in Nat /\ request.wager \in Nat
      /\ pickerRequests[n].player = Nobody
  BY <1>1 DEF SoloInv, SoloTypes, SessionsInv, BaccaratRequest
<1>3. /\ SettlementInv' /\ RatesKept /\ registered(baccaratController)
      /\ token'.balance =
           [token.balance EXCEPT ![request.player] = token.balance[request.player]
                                                       + request.payout]
      /\ UNCHANGED <<controllerModuleIds, claimMinted>>
      /\ due \in Nat /\ owed' = owed + due
  <2>1. PICK x : accrueDeveloperForExpression(baccaratController, x, request.wager)
    BY <1>1
  <2>2. SettlementInv /\ LedgerInv(token) /\ UNCHANGED <<catalogVars, registryVars>>
    BY <1>1 DEF SoloInv, SettlementInv
  <2> HIDE DEF request
  <2>3. QED BY <1>1, <1>2, <2>1, <2>2, Games, PaymentKeepsSettlement
<1>4. /\ sessionSettled \in [SoloControllers -> [RequestIds -> BOOLEAN]]
      /\ sessionSettled'[baccaratController][n]
      /\ \A id \in RequestIds \ {n} : sessionSettled'[baccaratController][id]
                                     = sessionSettled[baccaratController][id]
      /\ sessionSettled'[pickerController] = sessionSettled[pickerController]
      /\ SoloTypes'
  BY <1>1, Games DEF SoloInv, SoloTypes
<1>5. SessionsInv' /\ PicksInv'
  <2> SUFFICES ASSUME NEW id \in RequestIds
               PROVE  SessionsInv!(id)' /\ PicksInv!(id)'
    BY DEF SessionsInv, PicksInv
  <2>1. CASE id = n
    BY <1>1, <1>2, <1>3, <1>4, <2>1 DEF SoloInv, SessionsInv, PicksInv, registered
  <2>2. CASE id # n
    BY <1>1, <1>3, <1>4, <2>2 DEF SoloInv, SessionsInv, PicksInv, registered
  <2>3. QED BY <2>1, <2>2
<1>6. /\ baccaratSettled' = baccaratSettled \cup {n} /\ n \notin baccaratSettled
      /\ pickerSettled' = pickerSettled
  BY <1>1, <1>4 DEF baccaratSettled, pickerSettled
<1>7. DuesExplained'
  <2>1. pickerDues' = pickerDues
    BY <1>3, <1>6, PickerDuesSame
  <2>2. /\ DOMAIN baccaratDues = baccaratSettled
        /\ DOMAIN baccaratDues' = baccaratSettled \cup {n}
        /\ \A id \in baccaratSettled : baccaratDues'[id] = baccaratDues[id]
        /\ baccaratDues'[n] = due
    <3>1. rate(baccaratController)' = rate(baccaratController)
      BY <1>3, Games DEF RatesKept
    <3>2. QED BY <1>1, <1>6, <3>1 DEF baccaratDues, developerAccrual, rate
  <2>3. /\ IsFiniteSet(baccaratSettled) /\ SumFunction(baccaratDues) \in Nat
        /\ SumFunction(pickerDues) \in Nat
        /\ \A id \in baccaratSettled : baccaratDues[id] \in Nat
    BY DuesAreNatural, FiniteRequests DEF baccaratSettled
  <2>4. SumFunction(baccaratDues') = SumFunction(baccaratDues) + due
    <3>1. Summable(baccaratDues)
      BY <2>2, <2>3, SumOfNats
    <3>2. SumFunction(baccaratDues') = SumFunction(baccaratDues) + baccaratDues'[n]
      BY <1>3, <1>6, <2>2, <3>1, SumExtended
    <3>3. QED BY <2>2, <3>2
  <2>5. SumFunction(baccaratDues)' = SumFunction(baccaratDues) + due
    BY <2>4
  <2> HIDE DEF due
  <2>6. QED BY <1>3, <2>1, <2>3, <2>5 DEF SoloInv, DuesExplained
<1>8. ASSUME NEW p \in Players
      PROVE  Explained(p)'
  <2> DEFINE S == rounds(p) \cap baccaratSettled
  <2>1. /\ picks(p)' = picks(p) /\ claims(p)' = claims(p) /\ rounds(p)' = rounds(p)
    BY <1>1, <1>3 DEF picks, claims, rounds
  <2>2. /\ staked(pickerRequests, picks(p))' = staked(pickerRequests, picks(p))
        /\ paid(pickerRequests, picks(p))' = paid(pickerRequests, picks(p))
        /\ staked(baccaratRequests, rounds(p))' = staked(baccaratRequests, rounds(p))
    BY <1>1, <2>1 DEF staked, paid
  <2>3. /\ token.balance \in [Accounts -> Nat]
        /\ p \in Accounts /\ request.player \in Accounts
    BY <1>2 DEF SoloInv, SettlementInv, LedgerInv, Token!Ledger, Accounts
  <2>4. CASE p = request.player
    <3>1. (rounds(p) \cap baccaratSettled)' = S \cup {n}
      BY <1>6, <2>1, <2>4 DEF rounds
    <3>2. /\ n \in RequestIds \ S /\ S \in SUBSET RequestIds
          /\ \A id \in S \cup {n} : baccaratRequests[id].payout \in Nat
      BY <1>6 DEF rounds, SoloInv, SoloTypes, BaccaratRequest
    <3> HIDE DEF S
    <3>3. paid(baccaratRequests, S \cup {n}) = paid(baccaratRequests, S) + request.payout
      BY <3>2, PaidMore
    <3>4. paid(baccaratRequests, rounds(p) \cap baccaratSettled)'
            = paid(baccaratRequests, S) + request.payout
      BY <1>1, <3>1, <3>3 DEF paid
    <3>5. token'.balance[p] = token.balance[p] + request.payout
      BY <1>3, <2>3, <2>4
    <3> HIDE DEF request
    <3>6. QED BY <1>2, <2>1, <2>2, <3>4, <3>5, PartsAreNatural DEF SoloInv, Explained, S
  <2>5. CASE p # request.player
    <3>1. (rounds(p) \cap baccaratSettled)' = S
      BY <1>6, <2>1, <2>5 DEF rounds
    <3>2. paid(baccaratRequests, rounds(p) \cap baccaratSettled)' = paid(baccaratRequests, S)
      BY <1>1, <3>1 DEF paid
    <3>3. token'.balance[p] = token.balance[p]
      BY <1>3, <2>3, <2>5
    <3>4. QED BY <2>1, <2>2, <3>2, <3>3 DEF SoloInv, Explained
  <2>6. QED BY <2>4, <2>5
<1>9. QED BY <1>3, <1>4, <1>5, <1>7, <1>8 DEF SoloInv

-----------------------------------------------------------------------------
(* A pick: played, answered and settled in one transaction.                *)

\* The request as play opens it, and as the answer leaves it.
openedPick(player, wager, selection) ==
  [player |-> player, wager |-> wager, selection |-> selection,
   payout |-> 0, isWin |-> FALSE, fulfilled |-> FALSE]

LEMMA PickedType ==
  ASSUME NEW player \in Players, NEW wager \in Nat, NEW selection \in 1..99,
         NEW roll \in Rolls
  PROVE  LET pick == Picker!resolved(openedPick(player, wager, selection), roll)
         IN  /\ pick \in PickerRequest /\ pick.player = player /\ pick.wager = wager
             /\ pick.selection = selection /\ pick.fulfilled
             /\ pick.payout = IF pick.isWin THEN (wager * 100) \div selection ELSE 0
<1> DEFINE open == openedPick(player, wager, selection)
           prize == IF roll > selection THEN (wager * 100) \div selection ELSE 0
<1>1. selection \in Nat \ {0} /\ roll \in Nat
  BY GamesAssumption
<1>2. prize \in Nat
  <2>1. (wager * 100) \div selection \in Nat
    BY <1>1, QuotientIsNatural
  <2>2. QED BY <2>1
<1>3. /\ open \in PickerRequest /\ open.player = player /\ open.wager = wager
      /\ open.selection = selection
  BY <1>1 DEF openedPick, PickerRequest
<1> HIDE DEF open
<1>4. ASSUME NEW won \in BOOLEAN
      PROVE  LET pick == [open EXCEPT !.isWin = won, !.fulfilled = TRUE,
                                      !.payout = prize]
             IN  /\ pick \in PickerRequest
                 /\ pick.player = player /\ pick.wager = wager
                 /\ pick.selection = selection /\ pick.fulfilled
                 /\ pick.isWin = won /\ pick.payout = prize
  <2> HIDE DEF prize
  <2>1. QED BY <1>2, <1>3 DEF PickerRequest
<1>5. CASE roll > selection
  <2>1. Picker!resolved(open, roll) =
          [open EXCEPT !.isWin = TRUE, !.fulfilled = TRUE, !.payout = prize]
    BY <1>3, <1>5 DEF Picker!resolved
  <2>2. prize = (wager * 100) \div selection
    BY <1>5
  <2> HIDE DEF prize
  <2>3. QED BY <1>4, <2>1, <2>2 DEF open
<1>6. CASE ~(roll > selection)
  <2>1. Picker!resolved(open, roll) =
          [open EXCEPT !.isWin = FALSE, !.fulfilled = TRUE, !.payout = prize]
    <3>1. (roll > selection) = FALSE
      BY <1>1, <1>6
    <3>2. QED BY <1>3, <3>1, Zenon DEF Picker!resolved
  <2>2. prize = 0
    BY <1>6
  <2> HIDE DEF prize
  <2>3. QED BY <1>4, <2>1, <2>2 DEF open
<1>7. QED BY <1>5, <1>6

LEMMA PickKeepsInv ==
  ASSUME SoloInv, NEW player \in Players, NEW wager \in Wagers,
         NEW selection \in Selections, NEW y, NEW roll \in Rolls,
         Picker!play(player, wager, selection, y, roll), UNCHANGED baccaratRequests
  PROVE  SoloInv'
<1> DEFINE n == requestCounter + 1
           request == Picker!resolved(openedPick(player, wager, selection), roll)
           due == developerAccrual(pickerController, wager)
           spent == burnPlayerWager(token, player, wager)
<1>1. /\ canBurnPlayerWager(pickerController, player, wager)
      /\ selection \in 1..99
      /\ requestCounter < MaxRequests /\ requestCounter' = n
      /\ pickerRequests' = [pickerRequests EXCEPT ![n] =
           IF DelayedVRF THEN openedPick(player, wager, selection) ELSE request]
      /\ pickerRequests'[n].fulfilled
      /\ ~sessionSettled[pickerController][n]
      /\ sessionSettled' = [sessionSettled EXCEPT ![pickerController][n] = TRUE]
      /\ UNCHANGED <<catalogVars, registryVars>>
      /\ token' = mintPlayerReward(spent, pickerRequests'[n].player,
                                   pickerRequests'[n].payout)
      /\ \E x : accrueDeveloperForExpression(pickerController, x,
                                              pickerRequests'[n].wager)
  <2>1. /\ Picker!canBurnPlayerWager(pickerController, player, wager)
        /\ Picker!requestRandomWords
        /\ UNCHANGED <<catalogVars, registryVars>>
        /\ selection \in 1..99
        /\ Picker!finalizeRequest(Picker!nextRequestId,
                                  Picker!burnPlayerWager(token, player, wager))
    BY DEF Picker!play, Picker!catalogVars, catalogVars, Picker!registryVars, registryVars
  <2>2. /\ canBurnPlayerWager(pickerController, player, wager)
        /\ Picker!nextRequestId = n
        /\ Picker!burnPlayerWager(token, player, wager) = spent
    BY <2>1, PickerSettlement
  <2>3. requestCounter < MaxRequests /\ requestCounter' = n
    BY <2>1, <2>2 DEF Picker!requestRandomWords
  <2>4. pickerRequests' = [pickerRequests EXCEPT ![n] =
          IF DelayedVRF THEN openedPick(player, wager, selection) ELSE request]
    <3>1. pickerRequests' = [pickerRequests EXCEPT ![Picker!nextRequestId] =
            IF DelayedVRF THEN openedPick(player, wager, selection) ELSE request]
      BY DEF Picker!play, openedPick
    <3>2. QED BY <2>2, <3>1
  <2> HIDE DEF n, spent, request
  <2>5. /\ pickerRequests'[n].fulfilled
        /\ ~sessionSettled[pickerController][n]
        /\ sessionSettled' = [sessionSettled EXCEPT ![pickerController][n] = TRUE]
        /\ Picker!mintAndAccrue(pickerController, spent, pickerRequests'[n].player,
                                pickerRequests'[n].payout, pickerRequests'[n].wager, n)
    BY <2>1, <2>2 DEF Picker!finalizeRequest, Picker!markSettled
  <2>6. /\ token' = mintPlayerReward(spent, pickerRequests'[n].player,
                                    pickerRequests'[n].payout)
        /\ \E x : accrueDeveloperForExpression(pickerController, x,
                                               pickerRequests'[n].wager)
    BY <2>5, PickerSettlement DEF Picker!mintAndAccrue
  <2>7. QED BY <2>1, <2>2, <2>3, <2>4, <2>5, <2>6
<1>2. /\ wager \in Nat /\ player \in Accounts /\ player # Nobody
      /\ n \in RequestIds /\ requestCounter \in Nat
  BY <1>1, Games DEF SoloInv, SoloTypes, Accounts, RequestIds
<1>3. /\ baccaratRequests[n].player = Nobody /\ pickerRequests[n].player = Nobody
      /\ ~sessionSettled[baccaratController][n]
  BY <1>2 DEF SoloInv, SessionsInv
<1>4. /\ request \in PickerRequest /\ request.player = player
      /\ request.wager = wager /\ request.fulfilled
      /\ request.selection = selection
      /\ request.payout = IF request.isWin THEN (request.wager * 100) \div request.selection
                                          ELSE 0
  <2>1. /\ request \in PickerRequest /\ request.player = player
        /\ request.wager = wager /\ request.fulfilled
        /\ request.selection = selection
        /\ request.payout = IF request.isWin THEN (wager * 100) \div selection ELSE 0
    BY <1>1, <1>2, PickedType, SMTT(60)
  <2> HIDE DEF request
  <2>2. QED BY <2>1
<1> HIDE DEF request, spent
<1>5. /\ pickerRequests'[n] = request /\ ~DelayedVRF
      /\ \A id \in RequestIds \ {n} : pickerRequests'[id] = pickerRequests[id]
      /\ pickerRequests' \in [RequestIds -> PickerRequest]
  <2>1. pickerRequests \in [RequestIds -> PickerRequest]
    BY DEF SoloInv, SoloTypes
  <2>2. ~DelayedVRF
    BY <1>1, <1>2, <2>1 DEF openedPick
  <2>3. pickerRequests' = [pickerRequests EXCEPT ![n] = request]
    BY <1>1, <2>2
  <2>4. QED BY <1>2, <1>4, <2>1, <2>2, <2>3
<1>6. /\ sessionSettled \in [SoloControllers -> [RequestIds -> BOOLEAN]]
      /\ sessionSettled'[pickerController][n]
      /\ \A id \in RequestIds \ {n} : sessionSettled'[pickerController][id]
                                     = sessionSettled[pickerController][id]
      /\ sessionSettled'[baccaratController] = sessionSettled[baccaratController]
      /\ SoloTypes'
  <2>1. requestCounter' \in 0..MaxRequests
    BY <1>1, <1>2, Games
  <2>2. QED BY <1>1, <1>2, <1>5, <2>1, Games DEF SoloInv, SoloTypes
<1>7. /\ LedgerInv(spent)
      /\ spent.balance = [token.balance EXCEPT ![player] = token.balance[player] - wager]
  BY <1>1, <1>2, BurnKeepsLedger DEF canBurnPlayerWager, SoloInv, SettlementInv, spent
<1>8. /\ SettlementInv' /\ RatesKept /\ registered(pickerController)
      /\ token'.balance =
           [spent.balance EXCEPT ![player] = spent.balance[player] + request.payout]
      /\ UNCHANGED <<controllerModuleIds, claimMinted>>
      /\ due \in Nat /\ owed' = owed + due
  <2>1. PICK x : accrueDeveloperForExpression(pickerController, x, wager)
    BY <1>1, <1>4, <1>5
  <2>2. /\ SettlementInv /\ UNCHANGED <<catalogVars, registryVars>>
        /\ token' = mintPlayerReward(spent, player, request.payout)
        /\ request.payout \in Nat
    BY <1>1, <1>4, <1>5 DEF SoloInv, PickerRequest
  <2>3. QED BY <1>2, <1>7, <2>1, <2>2, Games, PaymentKeepsSettlement
<1>9. SessionsInv' /\ PicksInv'
  <2> SUFFICES ASSUME NEW id \in RequestIds
               PROVE  SessionsInv!(id)' /\ PicksInv!(id)'
    BY DEF SessionsInv, PicksInv
  <2>1. CASE id = n
    <3>1. SessionsInv!(id)'
      BY <1>1, <1>2, <1>3, <1>4, <1>5, <1>6, <1>8, <2>1
      DEF SoloInv, SessionsInv, registered
    <3>2. PicksInv!(id)'
      BY <1>1, <1>4, <1>5, <2>1
    <3>3. QED BY <3>1, <3>2
  <2>2. CASE id # n
    <3>1. SessionsInv!(id)'
      BY <1>1, <1>2, <1>5, <1>6, <1>8, <2>2
      DEF SoloInv, SessionsInv, registered, RequestIds
    <3>2. PicksInv!(id)'
      BY <1>5, <2>2 DEF SoloInv, PicksInv
    <3>3. QED BY <3>1, <3>2
  <2>3. QED BY <2>1, <2>2
<1>10. /\ pickerSettled' = pickerSettled \cup {n} /\ n \notin pickerSettled
       /\ baccaratSettled' = baccaratSettled
  BY <1>1, <1>2, <1>6 DEF baccaratSettled, pickerSettled
<1>11. DuesExplained'
  <2>1. baccaratDues' = baccaratDues
    BY <1>8, <1>10, BaccaratDuesSame
  <2>2. /\ DOMAIN pickerDues = pickerSettled
        /\ DOMAIN pickerDues' = pickerSettled \cup {n}
        /\ \A id \in pickerSettled : pickerDues'[id] = pickerDues[id]
        /\ pickerDues'[n] = due
    <3>1. rate(pickerController)' = rate(pickerController)
      BY <1>8, Games DEF RatesKept
    <3>2. \A id \in pickerSettled : pickerRequests'[id] = pickerRequests[id]
      BY <1>5, <1>10 DEF pickerSettled
    <3>3. QED BY <1>4, <1>5, <1>10, <3>1, <3>2 DEF pickerDues, developerAccrual, rate
  <2>3. /\ IsFiniteSet(pickerSettled) /\ SumFunction(pickerDues) \in Nat
        /\ SumFunction(baccaratDues) \in Nat
        /\ \A id \in pickerSettled : pickerDues[id] \in Nat
    BY DuesAreNatural, FiniteRequests DEF pickerSettled
  <2>4. SumFunction(pickerDues') = SumFunction(pickerDues) + due
    <3>1. Summable(pickerDues)
      BY <2>2, <2>3, SumOfNats
    <3>2. SumFunction(pickerDues') = SumFunction(pickerDues) + pickerDues'[n]
      BY <1>8, <1>10, <2>2, <3>1, SumExtended
    <3>3. QED BY <2>2, <3>2
  <2>5. SumFunction(pickerDues)' = SumFunction(pickerDues) + due
    BY <2>4
  <2> HIDE DEF due
  <2>6. QED BY <1>8, <2>1, <2>3, <2>5 DEF SoloInv, DuesExplained
<1>12. ASSUME NEW p \in Players
       PROVE  Explained(p)'
  <2> DEFINE R == picks(p)
             S == rounds(p) \cap baccaratSettled
  <2>1. /\ rounds(p)' = rounds(p) /\ claims(p)' = claims(p)
        /\ (rounds(p) \cap baccaratSettled)' = S
    BY <1>8, <1>10 DEF rounds, claims
  <2>2. /\ staked(baccaratRequests, rounds(p))' = staked(baccaratRequests, rounds(p))
        /\ paid(baccaratRequests, rounds(p) \cap baccaratSettled)' = paid(baccaratRequests, S)
    BY <2>1 DEF staked, paid
  <2>3. /\ R \in SUBSET RequestIds /\ n \in RequestIds \ R
        /\ \A id \in R : pickerRequests'[id] = pickerRequests[id]
    BY <1>2, <1>3, <1>5, Games DEF picks
  <2>4. /\ staked(pickerRequests', R) = staked(pickerRequests, R)
        /\ paid(pickerRequests', R) = paid(pickerRequests, R)
    BY <2>3, StakedSame, PaidSame
  <2>5. /\ token.balance \in [Accounts -> Nat] /\ p \in Accounts
        /\ request.payout \in Nat
    BY <1>4 DEF SoloInv, SettlementInv, LedgerInv, Token!Ledger, Accounts, PickerRequest
  <2>6. CASE p = player
    <3>1. picks(p)' = R \cup {n}
      BY <1>2, <1>4, <1>5, <2>6 DEF picks
    <3>2. \A id \in R \cup {n} : /\ pickerRequests'[id].wager \in Nat
                                /\ pickerRequests'[id].payout \in Nat
      BY <1>5, <2>3 DEF PickerRequest
    <3> HIDE DEF R, S, n
    <3>3. /\ staked(pickerRequests', R \cup {n}) = staked(pickerRequests, R) + wager
          /\ paid(pickerRequests', R \cup {n}) = paid(pickerRequests, R) + request.payout
      <4>1. staked(pickerRequests', R \cup {n})
              = staked(pickerRequests', R) + pickerRequests'[n].wager
        BY <2>3, <3>2, StakedMore
      <4>2. paid(pickerRequests', R \cup {n})
              = paid(pickerRequests', R) + pickerRequests'[n].payout
        BY <2>3, <3>2, PaidMore
      <4>3. QED BY <1>4, <1>5, <2>4, <4>1, <4>2
    <3>4. /\ staked(pickerRequests, picks(p))' = staked(pickerRequests, R) + wager
          /\ paid(pickerRequests, picks(p))' = paid(pickerRequests, R) + request.payout
      BY <3>1, <3>3 DEF staked, paid
    <3>5. token'.balance[p] = token.balance[p] - wager + request.payout
      BY <1>2, <1>7, <1>8, <2>5, <2>6
    <3>6. QED BY <1>2, <2>1, <2>2, <2>5, <3>4, <3>5, PartsAreNatural
           DEF SoloInv, Explained, R, S
  <2>7. CASE p # player
    <3>1. picks(p)' = R
      BY <1>2, <1>3, <1>4, <1>5, <2>7, Games DEF picks
    <3>2. /\ staked(pickerRequests, picks(p))' = staked(pickerRequests, R)
          /\ paid(pickerRequests, picks(p))' = paid(pickerRequests, R)
      BY <2>4, <3>1 DEF staked, paid
    <3>3. token'.balance[p] = token.balance[p]
      BY <1>2, <1>7, <1>8, <2>5, <2>7
    <3>4. QED BY <2>1, <2>2, <3>2, <3>3 DEF SoloInv, Explained
  <2>8. QED BY <2>6, <2>7
<1>13. QED BY <1>6, <1>8, <1>9, <1>11, <1>12 DEF SoloInv

-----------------------------------------------------------------------------
(* Everything else, and the steps together.                                *)

LEMMA OutsideKeepsInv ==
  ASSUME SoloInv, ProtocolNext, UNCHANGED <<soloVars, baccaratRequests, pickerRequests>>
  PROVE  SoloInv'
<1>1. SettlementInv' /\ OutsideStep
  BY OutsideStepsKeepSettlement DEF SoloInv
<1>2. /\ UNCHANGED <<requestCounter, sessionSettled>>
      /\ UNCHANGED <<baccaratRequests, pickerRequests>>
      /\ controllerModuleIds' = controllerModuleIds /\ owed' = owed /\ RatesKept
  BY <1>1 DEF soloVars, OutsideStep, owed, RatesKept
<1>3. SoloTypes' /\ PicksInv'
  BY <1>2 DEF SoloInv, SoloTypes, PicksInv
<1>4. SessionsInv'
  BY <1>2 DEF SoloInv, SessionsInv, registered
<1>5. DuesExplained'
  <2>1. pickerSettled' = pickerSettled /\ baccaratSettled' = baccaratSettled
    BY <1>2 DEF pickerSettled, baccaratSettled
  <2>2. baccaratDues' = baccaratDues /\ pickerDues' = pickerDues
    BY <1>2, <2>1, BaccaratDuesSame, PickerDuesSame
  <2>3. QED BY <1>2, <2>2 DEF SoloInv, DuesExplained
<1>6. ASSUME NEW p \in Players
      PROVE  Explained(p)'
  <2>1. /\ staked(baccaratRequests, rounds(p))' = staked(baccaratRequests, rounds(p))
        /\ staked(pickerRequests, picks(p))' = staked(pickerRequests, picks(p))
        /\ paid(baccaratRequests, rounds(p) \cap baccaratSettled)'
             = paid(baccaratRequests, rounds(p) \cap baccaratSettled)
        /\ paid(pickerRequests, picks(p))' = paid(pickerRequests, picks(p))
    BY <1>2 DEF staked, paid, rounds, picks, baccaratSettled
  <2>2. token'.balance[p] - claims(p)' = token.balance[p] - claims(p)
    <3>1. token.balance[p] \in Nat /\ p \in Accounts
      BY PartsAreNatural DEF Accounts
    <3>2. /\ claimMinted \in [Developers -> Nat] /\ claimMinted' \in [Developers -> Nat]
      BY <1>1 DEF SoloInv, SettlementInv, RewardsInv, RewardsTypeOK
    <3>3. token'.balance[p] = token.balance[p]
            + (IF p \in Developers THEN claimMinted'[p] - claimMinted[p] ELSE 0)
      BY <1>1, <3>1 DEF OutsideStep
    <3>4. QED BY <3>1, <3>2, <3>3 DEF claims
  <2>3. token'.balance[p] \in Nat /\ claims(p)' \in Nat
    BY <1>1 DEF SettlementInv, LedgerInv, Token!Ledger, Accounts, RewardsInv,
                RewardsTypeOK, claims
  <2>4. QED BY <2>1, <2>2, <2>3, PartsAreNatural DEF SoloInv, Explained
<1>7. QED BY <1>1, <1>3, <1>4, <1>5, <1>6 DEF SoloInv

\* The steps a later answer would open are never enabled: no pick waits for one.
LEMMA NoPickWaits ==
  ASSUME SoloInv
  PROVE  ~Picker!NumberPickerLater
<1>1. ASSUME NEW id \in RequestIds, NEW roll \in Rolls,
             Picker!rawFulfillRandomWords(id, roll)
      PROVE  FALSE
  BY <1>1 DEF Picker!rawFulfillRandomWords, SoloInv, SessionsInv
<1>2. ASSUME NEW id \in RequestIds, Picker!finalize(id)
      PROVE  FALSE
  <2>1. ~sessionSettled[pickerController][id] /\ pickerRequests[id].fulfilled
    BY <1>2 DEF Picker!finalize, Picker!finalizeRequest, Picker!markSettled
  <2>2. QED BY <2>1 DEF SoloInv, SessionsInv
<1>3. Picker!RequestIds = RequestIds
  BY DEF Picker!RequestIds, RequestIds
<1>4. QED BY <1>1, <1>2, <1>3 DEF Picker!NumberPickerLater

LEMMA EmptySums ==
  ASSUME NEW f
  PROVE  staked(f, {}) = 0 /\ paid(f, {}) = 0
<1>1. ASSUME NEW g, DOMAIN g = {} PROVE SumFunction(g) = 0
  BY <1>1, SumOfZeros, FS_EmptySet
<1>2. DOMAIN [id \in {} |-> f[id].wager] = {} /\ DOMAIN [id \in {} |-> f[id].payout] = {}
  OBVIOUS
<1>3. QED BY <1>1, <1>2 DEF staked, paid

LEMMA InitSoloInv == Init => SoloInv
<1> SUFFICES ASSUME Init PROVE SoloInv
  OBVIOUS
<1>1. SettlementInv
  BY InitSettlementInv DEF Init
<1>2. /\ requestCounter = 0
      /\ sessionSettled = [c \in SoloControllers |-> [id \in RequestIds |-> FALSE]]
      /\ baccaratRequests = [id \in RequestIds |->
           [player |-> Nobody, wager |-> 0, side |-> "Player", payout |-> 0,
            fulfilled |-> FALSE]]
      /\ pickerRequests = [id \in RequestIds |->
           [player |-> Nobody, wager |-> 0, selection |-> 0, payout |-> 0,
            isWin |-> FALSE, fulfilled |-> FALSE]]
  BY DEF Init, SoloInit, Baccarat!SuperBaccaratInit, Baccarat!NoRequest,
         Baccarat!RequestIds, Picker!NumberPickerInit, Picker!NoRequest,
         Picker!RequestIds, RequestIds
<1>3. SoloTypes
  BY <1>2, Games DEF SoloTypes, BaccaratRequest, PickerRequest
<1>4. SessionsInv /\ PicksInv
  BY <1>2, Games DEF SessionsInv, PicksInv, RequestIds
<1>5. /\ baccaratSettled = {} /\ pickerSettled = {}
      /\ \A p \in Players : rounds(p) = {} /\ picks(p) = {}
  BY <1>2, Games DEF baccaratSettled, pickerSettled, rounds, picks
<1>6. DuesExplained
  <2>1. ASSUME NEW g, DOMAIN g = {} PROVE SumFunction(g) = 0
    BY <2>1, SumOfZeros, FS_EmptySet
  <2>2. SumFunction(baccaratDues) = 0 /\ SumFunction(pickerDues) = 0
    BY <1>5, <2>1 DEF baccaratDues, pickerDues
  <2>3. owed = 0
    <3>1. IsFiniteSet(Developers) /\ IsFiniteSet(Epochs)
      <4>1. IsFiniteSet(Developers)
        BY SettlementAssumption
      <4>2. QED BY <4>1, RewardsAssumption, FS_Interval DEF Epochs
    <3>2. ASSUME NEW e \in Epochs PROVE SumFunction(epochAccrual[e]) = 0
      <4>1. epochAccrual[e] = [d \in Developers |-> 0]
        BY DEF Init, ProtocolInit, RewardsInit
      <4>2. DOMAIN epochAccrual[e] = Developers
            /\ \A d \in Developers : epochAccrual[e][d] = 0
        BY <4>1
      <4>3. QED BY <3>1, <4>2, SumOfZeros
    <3> DEFINE totals == [e \in Epochs |-> SumFunction(epochAccrual[e])]
    <3>3. DOMAIN totals = Epochs /\ \A e \in Epochs : totals[e] = 0
      BY <3>2
    <3>4. owed = SumFunction(totals)
      BY DEF owed
    <3> HIDE DEF totals
    <3>5. QED BY <3>1, <3>3, <3>4, SumOfZeros
  <2>4. QED BY <2>2, <2>3 DEF DuesExplained
<1>7. ASSUME NEW p \in Players PROVE Explained(p)
  <2>1. token.balance[p] = InitialBalance /\ claims(p) = 0
    BY DEF Init, ProtocolInit, RewardsInit, Accounts, claims
  <2>2. rounds(p) \cap baccaratSettled = {}
    BY <1>5
  <2>3. QED BY <1>5, <2>1, <2>2, EmptySums, Games DEF Explained
<1>8. QED BY <1>1, <1>3, <1>4, <1>6, <1>7 DEF SoloInv

LEMMA StepSoloInv == SoloInv /\ [NextDelayed]_vars => SoloInv'
<1> SUFFICES ASSUME SoloInv, [NextDelayed]_vars PROVE SoloInv'
  OBVIOUS
<1>1. Baccarat!RequestIds = RequestIds
  BY DEF Baccarat!RequestIds, RequestIds
<1>2. CASE Baccarat!SuperBaccaratNext /\ UNCHANGED pickerRequests
  <2>1. CASE Baccarat!SuperBaccaratPlay
    BY <1>2, <2>1, BaccaratPlayKeepsInv DEF Baccarat!SuperBaccaratPlay
  <2>2. ASSUME NEW id \in RequestIds, NEW outcome \in Baccarat!BaccaratOutcome,
               Baccarat!rawFulfillRandomWords(id, outcome)
        PROVE  SoloInv'
    BY <1>2, <2>2, BaccaratAnswerKeepsInv
  <2>3. ASSUME NEW id \in RequestIds, Baccarat!settle(id)
        PROVE  SoloInv'
    BY <1>2, <2>3, BaccaratSettleKeepsInv
  <2>4. QED BY <1>1, <1>2, <2>1, <2>2, <2>3 DEF Baccarat!SuperBaccaratNext
<1>3. CASE PickerPlays
  BY <1>3, PickKeepsInv DEF PickerPlays, Picker!NumberPickerPlay
<1>4. CASE ProtocolNext /\ UNCHANGED <<soloVars, baccaratRequests, pickerRequests>>
  BY <1>4, OutsideKeepsInv
<1>5. CASE Picker!NumberPickerLater
  BY <1>5, NoPickWaits
<1>6. CASE UNCHANGED vars
  <2>1. UNCHANGED <<token, catalogVars, registryVars, rewardsVars>>
        /\ UNCHANGED <<soloVars, baccaratRequests, pickerRequests>>
    BY <1>6 DEF vars, protocolVars
  <2>2. /\ CatalogInv' /\ RegistryInv' /\ RewardsInv' /\ RatesKept
        /\ UNCHANGED <<claimMinted, epochAccrual, controllerModuleIds>>
    BY <2>1, SameCatalog, SameRegistry, SameRewards DEF SoloInv, SettlementInv, RatesKept
  <2>3. SettlementInv'
    BY <2>1, <2>2 DEF SoloInv, SettlementInv, LedgerInv
  <2>4. SoloTypes' /\ PicksInv' /\ SessionsInv'
    BY <2>1, <2>2 DEF SoloInv, SoloTypes, PicksInv, SessionsInv, registered, soloVars
  <2>5. DuesExplained'
    <3>1. pickerSettled' = pickerSettled /\ baccaratSettled' = baccaratSettled
      BY <2>1 DEF pickerSettled, baccaratSettled, soloVars
    <3>2. baccaratDues' = baccaratDues /\ pickerDues' = pickerDues
      BY <2>1, <2>2, <3>1, BaccaratDuesSame, PickerDuesSame
    <3>3. owed' = owed
      BY <2>2 DEF owed
    <3>4. QED BY <3>2, <3>3 DEF SoloInv, DuesExplained
  <2>6. \A p \in Players : Explained(p)'
    BY <2>1, <2>2 DEF SoloInv, Explained, staked, paid, rounds, picks, baccaratSettled,
                      claims, soloVars
  <2>7. QED BY <2>3, <2>4, <2>5, <2>6 DEF SoloInv
<1>7. QED BY <1>2, <1>3, <1>4, <1>5, <1>6 DEF NextDelayed, Next

-----------------------------------------------------------------------------
(* What follows for the two games.                                         *)

LEMMA SessionSets ==
  /\ Baccarat!sessions = {id \in RequestIds : baccaratRequests[id].player # Nobody}
  /\ Picker!sessions = {id \in RequestIds : pickerRequests[id].player # Nobody}
  /\ Baccarat!settledSessions = baccaratSettled
  /\ Picker!settledSessions = pickerSettled
BY DEF Baccarat!sessions, Picker!sessions, Baccarat!settledSessions,
       Picker!settledSessions, Baccarat!RequestIds, Picker!RequestIds, RequestIds,
       baccaratSettled, pickerSettled

LEMMA InvExplainsBalances == SoloInv => BalancesExplained
<1> SUFFICES ASSUME SoloInv PROVE BalancesExplained
  OBVIOUS
<1>1. Token!SupplyHeld(token)
  BY DEF SoloInv, SettlementInv, LedgerInv
<1>2. /\ Picker!settledSessions = Picker!sessions
      /\ Baccarat!sessions \cap Picker!sessions = {}
  BY SessionSets DEF SoloInv, SessionsInv, pickerSettled
<1>3. Baccarat!sessions \cup Picker!sessions = 1..requestCounter
  <2>1. requestCounter \in Nat /\ 1..requestCounter \subseteq RequestIds
    BY Games DEF SoloInv, SoloTypes, RequestIds
  <2>2. \A id \in RequestIds : id \in 1..requestCounter <=> id <= requestCounter
    BY <2>1 DEF RequestIds
  <2>3. QED BY <2>1, <2>2, SessionSets DEF SoloInv, SessionsInv
<1>4. ASSUME NEW p \in Players
      PROVE  /\ {id \in Baccarat!sessions : baccaratRequests[id].player = p} = rounds(p)
             /\ {id \in Picker!sessions : pickerRequests[id].player = p} = picks(p)
  BY SessionSets, Games DEF rounds, picks
<1>5. ASSUME NEW p \in Players
      PROVE  token.balance[p]
               + SumFunction([id \in rounds(p) |-> baccaratRequests[id].wager])
               + SumFunction([id \in picks(p) |-> pickerRequests[id].wager]) =
             InitialBalance
               + SumFunction([id \in rounds(p) \cap Baccarat!settledSessions |->
                               baccaratRequests[id].payout])
               + SumFunction([id \in picks(p) |-> pickerRequests[id].payout])
               + (IF p \in Developers THEN claimMinted[p] ELSE 0)
  BY SessionSets DEF SoloInv, Explained, staked, paid, claims
<1>6. QED BY <1>1, <1>2, <1>3, <1>4, <1>5 DEF BalancesExplained

\* Whatever the two games, governance, developers and the clock do, a player's
\* balance is what SuperBaccaratController and NumberPickerAdapter burned and
\* paid, each session once, and the supply is what the accounts hold.
THEOREM SoloBalances == Spec => []BalancesExplained
<1>1. Next => NextDelayed
  BY DEF NextDelayed
<1>2. QED BY <1>1, InitSoloInv, StepSoloInv, InvExplainsBalances, PTL DEF Spec

\* What developers are owed is the rate of the wagers of settled sessions,
\* rounded down session by session as ProtocolSettlement does.
THEOREM SoloAccruals == Spec => []AccrualsExplained
<1>1. SoloInv => AccrualsExplained
  BY SessionSets DEF SoloInv, DuesExplained, AccrualsExplained, owed, baccaratDues,
                     pickerDues
<1>2. Next => NextDelayed
  BY DEF NextDelayed
<1>3. QED BY <1>1, <1>2, InitSoloInv, StepSoloInv, PTL DEF Spec

\* SuperBaccaratController settles a session once, when its engine has completed
\* it, and SuperBaccaratEngine answers a request once; NumberPickerAdapter settles
\* a pick as it is played, and no later request is filed over it.
THEOREM SoloRoundsFinal == Spec => RoundsFinal
<1> DEFINE RoundFinal(id) ==
             /\ sessionSettled[baccaratController][id]
                  => sessionSettled'[baccaratController][id]
             /\ baccaratRequests[id].fulfilled
                  => baccaratRequests'[id] = baccaratRequests[id]
             /\ sessionSettled'[baccaratController][id]
                  => baccaratRequests[id].fulfilled
           PickFinal(id) ==
             /\ sessionSettled[pickerController][id]
                  => sessionSettled'[pickerController][id]
             /\ pickerRequests[id].fulfilled
                  => pickerRequests'[id] = pickerRequests[id]
             /\ sessionSettled'[pickerController][id]
                  => pickerRequests[id].fulfilled
           Rounds == \A id \in Baccarat!sessions : RoundFinal(id)
           Picks == \A id \in Picker!sessions : PickFinal(id)
<1>1. SoloInv /\ Next => Rounds /\ Picks
  <2> SUFFICES ASSUME SoloInv, Next, NEW id \in RequestIds
               PROVE  /\ baccaratRequests[id].player # Nobody => RoundFinal(id)
                      /\ pickerRequests[id].player # Nobody => PickFinal(id)
    BY SessionSets
  <2>1. /\ sessionSettled \in [SoloControllers -> [RequestIds -> BOOLEAN]]
        /\ baccaratRequests \in [RequestIds -> BaccaratRequest]
        /\ pickerRequests \in [RequestIds -> PickerRequest]
        /\ sessionSettled[baccaratController][id] => baccaratRequests[id].fulfilled
        /\ baccaratRequests[id].player # Nobody \/ pickerRequests[id].player # Nobody
             => id <= requestCounter
        /\ pickerRequests[id].player # Nobody =>
             sessionSettled[pickerController][id] /\ pickerRequests[id].fulfilled
        /\ requestCounter \in Nat
    BY DEF SoloInv, SoloTypes, SessionsInv
  <2>2. ASSUME NEW player, NEW wager, NEW side, NEW x,
               Baccarat!play(player, wager, side, x)
        PROVE  /\ sessionSettled' = sessionSettled
               /\ baccaratRequests[id].player # Nobody
                    => baccaratRequests'[id] = baccaratRequests[id]
    <3>1. /\ sessionSettled' = sessionSettled
          /\ baccaratRequests' = [baccaratRequests EXCEPT ![requestCounter + 1] =
               [player |-> player, wager |-> wager, side |-> side,
                payout |-> 0, fulfilled |-> FALSE]]
      BY <2>2 DEF Baccarat!play, Baccarat!nextRequestId
    <3>2. baccaratRequests[id].player # Nobody => id # requestCounter + 1
      BY <2>1
    <3>3. QED BY <2>1, <3>1, <3>2
  <2>3. ASSUME NEW n, NEW outcome, Baccarat!rawFulfillRandomWords(n, outcome)
        PROVE  /\ sessionSettled' = sessionSettled
               /\ baccaratRequests[id].fulfilled
                    => baccaratRequests'[id] = baccaratRequests[id]
    BY <2>1, <2>3 DEF Baccarat!rawFulfillRandomWords, Baccarat!soloVars
  <2>4. ASSUME NEW n, Baccarat!settle(n)
        PROVE  /\ baccaratRequests' = baccaratRequests /\ baccaratRequests[n].fulfilled
               /\ sessionSettled' = [sessionSettled EXCEPT ![baccaratController][n] = TRUE]
    BY <2>4 DEF Baccarat!settle, Baccarat!markSettled
  <2>5. CASE PickerPlays
    <3>1. /\ baccaratRequests' = baccaratRequests
          /\ \E request : pickerRequests' =
               [pickerRequests EXCEPT ![requestCounter + 1] = request]
          /\ \E n, l : Picker!finalizeRequest(n, l)
      <4>1. baccaratRequests' = baccaratRequests /\ Picker!NumberPickerPlay
        BY <2>5 DEF PickerPlays
      <4>2. PICK player, wager, selection, x, roll :
              Picker!play(player, wager, selection, x, roll)
        BY <4>1 DEF Picker!NumberPickerPlay
      <4>3. /\ \E request : pickerRequests' =
                 [pickerRequests EXCEPT ![requestCounter + 1] = request]
            /\ \E n, l : Picker!finalizeRequest(n, l)
        BY <4>2 DEF Picker!play, Picker!nextRequestId
      <4>4. QED BY <4>1, <4>3
    <3>2. PICK n : sessionSettled' = [sessionSettled EXCEPT ![pickerController][n] = TRUE]
      BY <3>1 DEF Picker!finalizeRequest, Picker!markSettled
    <3>3. /\ sessionSettled'[baccaratController] = sessionSettled[baccaratController]
          /\ sessionSettled[pickerController][id] => sessionSettled'[pickerController][id]
      BY <2>1, <3>2, Games
    <3>4. pickerRequests[id].player # Nobody
            => pickerRequests'[id] = pickerRequests[id]
      <4>1. pickerRequests[id].player # Nobody => id # requestCounter + 1
        BY <2>1
      <4>2. QED BY <2>1, <3>1, <4>1
    <3>5. QED BY <2>1, <3>1, <3>3, <3>4
  <2>6. CASE ProtocolNext /\ UNCHANGED <<soloVars, baccaratRequests, pickerRequests>>
    BY <2>1, <2>6 DEF soloVars
  <2>7. CASE Baccarat!SuperBaccaratNext /\ UNCHANGED pickerRequests
    <3>1. CASE Baccarat!SuperBaccaratPlay
      BY <2>1, <2>2, <2>7, <3>1 DEF Baccarat!SuperBaccaratPlay
    <3>2. ASSUME NEW n, NEW outcome, Baccarat!rawFulfillRandomWords(n, outcome)
          PROVE  RoundFinal(id) /\ (pickerRequests[id].player # Nobody => PickFinal(id))
      BY <2>1, <2>3, <2>7, <3>2
    <3>3. ASSUME NEW n, Baccarat!settle(n)
          PROVE  RoundFinal(id) /\ (pickerRequests[id].player # Nobody => PickFinal(id))
      <4>1. sessionSettled'[pickerController] = sessionSettled[pickerController]
        BY <2>1, <2>4, <3>3, Games
      <4>2. RoundFinal(id)
        BY <2>1, <2>4, <3>3, Games
      <4>3. QED BY <2>1, <2>7, <4>1, <4>2
    <3>4. QED BY <2>7, <3>1, <3>2, <3>3 DEF Baccarat!SuperBaccaratNext
  <2>8. QED BY <2>5, <2>6, <2>7 DEF Next
<1>2. /\ SoloInv /\ [Next]_vars => [Rounds]_<<baccaratRequests, sessionSettled>>
      /\ SoloInv /\ [Next]_vars => [Picks]_<<pickerRequests, sessionSettled>>
  BY <1>1 DEF vars, soloVars
<1>3. Next => NextDelayed
  BY DEF NextDelayed
<1>4. QED BY <1>2, <1>3, InitSoloInv, StepSoloInv, PTL
       DEF Spec, RoundsFinal, Baccarat!RoundsFinal, Picker!PicksFinal

\* NumberPickerEngine never pays a winner less than the wager, and never more
\* for a higher selection, for every wager and selection play accepts.
THEOREM PicksPayInOrder == Spec => []PayoutsOrdered
<1>1. SoloInv => PayoutsOrdered
  <2> SUFFICES ASSUME SoloInv, NEW id \in Picker!sessions, NEW jd \in Picker!sessions
               PROVE  LET r == pickerRequests[id]
                          s == pickerRequests[jd]
                      IN  /\ r.isWin => r.payout >= r.wager
                          /\ ~r.isWin => r.payout = 0
                          /\ r.isWin /\ s.isWin /\ r.wager = s.wager
                               /\ r.selection <= s.selection => r.payout >= s.payout
    BY DEF PayoutsOrdered, Picker!PayoutsOrdered
  <2> DEFINE r == pickerRequests[id]
             s == pickerRequests[jd]
  <2>1. /\ r.wager \in Nat /\ r.selection \in 1..99
        /\ r.payout = IF r.isWin THEN (r.wager * 100) \div r.selection ELSE 0
        /\ s.wager \in Nat /\ s.selection \in 1..99
        /\ s.payout = IF s.isWin THEN (s.wager * 100) \div s.selection ELSE 0
    BY SessionSets DEF SoloInv, SoloTypes, PicksInv, PickerRequest
  <2> HIDE DEF r, s
  <2>2. /\ r.selection \in Nat \ {0} /\ s.selection \in Nat \ {0}
        /\ r.wager * 100 \in Nat
    BY <2>1
  <2>3. r.wager <= (r.wager * 100) \div r.selection
    <3>1. r.selection * r.wager <= r.wager * 100
      BY <2>1
    <3>2. QED BY <2>1, <2>2, <3>1, QuotientIsLargest
  <2>4. ASSUME r.selection <= s.selection
        PROVE  (r.wager * 100) \div s.selection <= (r.wager * 100) \div r.selection
    BY <2>2, <2>4, QuotientOrdered
  <2>5. /\ (r.wager * 100) \div r.selection \in Nat
        /\ (r.wager * 100) \div s.selection \in Nat
    BY <2>2, QuotientBounds
  <2>6. r.isWin => r.payout >= r.wager
    <3>1. r.isWin => r.payout = (r.wager * 100) \div r.selection
      BY <2>1
    <3>2. QED BY <2>1, <2>3, <2>5, <3>1
  <2>7. ~r.isWin => r.payout = 0
    BY <2>1
  <2>8. ASSUME r.isWin, s.isWin, r.wager = s.wager, r.selection <= s.selection
        PROVE  r.payout >= s.payout
    <3>1. /\ r.payout = (r.wager * 100) \div r.selection
          /\ s.payout = (r.wager * 100) \div s.selection
      BY <2>1, <2>8
    <3>2. QED BY <2>4, <2>5, <2>8, <3>1
  <2>9. QED BY <2>6, <2>7, <2>8 DEF r, s
<1>2. Next => NextDelayed
  BY DEF NextDelayed
<1>3. QED BY <1>1, <1>2, InitSoloInv, StepSoloInv, PTL DEF Spec

\* NumberPickerAdapter finalizes inside play and insists on an answer, so with
\* a coordinator that answers in a later transaction no pick is ever played,
\* and the later finalize the documents describe has nothing to act on.
THEOREM DelayedPicksNeverStart ==
  ASSUME DelayedVRF
  PROVE  Init /\ [][NextDelayed]_vars =>
           [](Picker!sessions = {}) /\ [][~Picker!NumberPickerLater]_vars
<1>1. SoloInv => Picker!sessions = {} /\ ~Picker!NumberPickerLater
  BY SessionSets, NoPickWaits DEF SoloInv, SessionsInv
<1>2. QED BY <1>1, InitSoloInv, StepSoloInv, PTL

-----------------------------------------------------------------------------
(* The slot machine.  First what one seed may resolve a spin to.           *)

\* A set of numbers up to N has a greatest member, as a mirror image of it has
\* a least.
LEMMA GreatestNumber ==
  ASSUME NEW N \in Nat, NEW S \in SUBSET (0..N), S # {}
  PROVE  Max(S) \in S /\ \A j \in S : j <= Max(S)
<1> DEFINE R == {N - k : k \in S}
<1>1. R \in SUBSET (0..N) /\ R # {}
  <2>1. \A k \in S : N - k \in 0..N
    OBVIOUS
  <2>2. QED BY <2>1
<1> HIDE DEF R
<1>2. PICK m \in R : \A j \in R : m <= j
  BY <1>1, LeastNumber
<1>3. PICK k \in S : m = N - k
  BY <1>2 DEF R
<1>4. \A j \in S : k >= j
  <2> SUFFICES ASSUME NEW j \in S PROVE k >= j
    OBVIOUS
  <2>1. N - j \in R
    BY DEF R
  <2>2. QED BY <1>2, <1>3, <2>1
<1>5. QED BY <1>4 DEF Max

LEMMA MinMaxOfTwo ==
  ASSUME NEW a \in Int, NEW b \in Int
  PROVE  /\ Min({a, b}) = IF a <= b THEN a ELSE b
         /\ Max({a, b}) = IF a <= b THEN b ELSE a
  BY DEF Min, Max

-----------------------------------------------------------------------------
(* Products of a number of factors.                                        *)

isProduct(N, factors, w) ==
  w = [n \in 0..N |-> IF n = 0 THEN 1 ELSE w[n - 1] * factors[n]]

LEMMA ProductExists ==
  ASSUME NEW N \in Nat, NEW factors \in [1..N -> Nat]
  PROVE  \E w : isProduct(N, factors, w)
<1> DEFINE times == [n \in 1..N |-> [k \in Nat |-> k * factors[n]]]
<1>1. times \in [1..N -> [Nat -> Nat]]
  <2>1. ASSUME NEW n \in 1..N PROVE [k \in Nat |-> k * factors[n]] \in [Nat -> Nat]
    OBVIOUS
  <2>2. QED BY <2>1
<1>2. \A n \in 1..N, k \in Nat : times[n][k] = k * factors[n]
  OBVIOUS
<1> HIDE DEF times
<1>3. PICK w : isLoop(N, Nat, 1, times, w)
  BY <1>1, LoopExists
<1>4. /\ w \in [0..N -> Nat] /\ w[0] = 1
      /\ \A n \in 1..N : w[n] = times[n][w[n - 1]]
  BY <1>3 DEF isLoop
<1>5. \A n \in 1..N : w[n] = w[n - 1] * factors[n]
  <2>1. \A n \in 1..N : w[n - 1] \in Nat
    BY <1>4
  <2>2. QED BY <1>2, <1>4, <2>1
<1>6. isProduct(N, factors, w)
  BY <1>4, <1>5 DEF isProduct
<1>7. QED BY <1>6

LEMMA ProductFactors ==
  ASSUME NEW N \in Nat, NEW factors, NEW w, isProduct(N, factors, w)
  PROVE  w[0] = 1 /\ \A n \in 1..N : w[n] = w[n - 1] * factors[n]
<1> DEFINE f == [n \in 0..N |-> IF n = 0 THEN 1 ELSE w[n - 1] * factors[n]]
<1>1. w = f
  BY DEF isProduct
<1>2. f[0] = 1 /\ \A n \in 1..N : f[n] = w[n - 1] * factors[n]
  OBVIOUS
<1> HIDE DEF f
<1>3. QED BY <1>1, <1>2

LEMMA ProductIsNatural ==
  ASSUME NEW N \in Nat, NEW factors \in [1..N -> Nat], NEW w, isProduct(N, factors, w)
  PROVE  \A n \in 0..N : w[n] \in Nat
<1> DEFINE g == [n \in 0..N |-> {w[n]}]
           P == [n \in 0..N |-> Nat]
<1>1. w[0] = 1 /\ \A n \in 1..N : w[n] = w[n - 1] * factors[n]
  BY ProductFactors
<1>2. g[0] \subseteq P[0]
  BY <1>1
<1>3. ASSUME NEW n \in 1..N, g[n - 1] \subseteq P[n - 1]
      PROVE  g[n] \subseteq P[n]
  <2>1. n - 1 \in 0..N /\ n \in 0..N
    OBVIOUS
  <2>2. w[n - 1] \in Nat
    BY <1>3, <2>1
  <2>3. w[n] \in Nat
    BY <1>1, <2>2
  <2>4. QED BY <2>1, <2>3
<1> HIDE DEF g, P
<1>4. \A n \in 0..N : g[n] \subseteq P[n]
  BY <1>2, <1>3, LoopStays
<1>5. QED BY <1>4 DEF g, P

\* A product of fewer factors, each no larger than a positive c, is no larger
\* than the power of c.
LEMMA ProductInPower ==
  ASSUME NEW N \in Nat, NEW factors \in [1..N -> Nat], NEW w, isProduct(N, factors, w),
         NEW c \in Nat \ {0}, \A n \in 1..N : factors[n] <= c,
         NEW v, isProduct(N, [n \in 1..N |-> c], v)
  PROVE  \A n \in 0..N : w[n] <= v[N]
<1> DEFINE cs == [n \in 1..N |-> c]
           upTo(n) == {w[m] : m \in 0..n}
           g == [n \in 0..N |-> upTo(n)]
           P == [n \in 0..N |-> 0..v[n]]
<1>1. cs \in [1..N -> Nat] /\ \A n \in 1..N : cs[n] = c
  OBVIOUS
<1>2. isProduct(N, cs, v)
  OBVIOUS
<1> HIDE DEF cs
<1>3. /\ w[0] = 1 /\ \A n \in 1..N : w[n] = w[n - 1] * factors[n]
      /\ v[0] = 1 /\ \A n \in 1..N : v[n] = v[n - 1] * c
      /\ \A n \in 0..N : w[n] \in Nat /\ v[n] \in Nat
  <2>1. w[0] = 1 /\ \A n \in 1..N : w[n] = w[n - 1] * factors[n]
    BY ProductFactors
  <2>2. v[0] = 1 /\ \A n \in 1..N : v[n] = v[n - 1] * cs[n]
    BY <1>2, ProductFactors
  <2>3. \A n \in 0..N : w[n] \in Nat
    BY ProductIsNatural
  <2>4. \A n \in 0..N : v[n] \in Nat
    BY <1>1, <1>2, ProductIsNatural
  <2>5. \A n \in 1..N : v[n] = v[n - 1] * c
    BY <1>1, <2>2
  <2>6. QED BY <2>1, <2>2, <2>3, <2>4, <2>5
<1>4. g[0] \subseteq P[0]
  BY <1>3
<1>5. ASSUME NEW n \in 1..N, g[n - 1] \subseteq P[n - 1]
      PROVE  g[n] \subseteq P[n]
  <2>1. n - 1 \in 0..N /\ n \in 0..N /\ factors[n] \in Nat /\ factors[n] <= c
    OBVIOUS
  <2>2. g[n - 1] = upTo(n - 1) /\ P[n - 1] = 0..v[n - 1] /\ g[n] = upTo(n) /\ P[n] = 0..v[n]
    BY <2>1
  <2> HIDE DEF g, P
  <2>3. w[n - 1] \in Nat /\ v[n - 1] \in Nat /\ w[n] \in Nat /\ v[n] \in Nat
    BY <1>3, <2>1
  <2>4. \A m \in 0..(n - 1) : w[m] \in Nat /\ w[m] <= v[n - 1]
    BY <1>3, <1>5, <2>2, <2>3
  <2>5. v[n - 1] <= v[n - 1] * c
    <3> DEFINE a == v[n - 1]
    <3>1. a \in Nat
      BY <2>3
    <3> HIDE DEF a
    <3>2. 1 * a <= c * a
      BY <3>1, ProductOrdered
    <3>3. a <= a * c
      BY <3>1, <3>2
    <3>4. QED BY <3>3 DEF a
  <2>6. w[n] <= v[n]
    <3> DEFINE a == w[n - 1]
               b == v[n - 1]
               k == factors[n]
    <3>1. a \in Nat /\ b \in Nat /\ k \in Nat /\ k <= c /\ a <= b
      BY <2>1, <2>3, <2>4
    <3>2. w[n] = a * k /\ v[n] = b * c
      BY <1>3
    <3> HIDE DEF a, b, k
    <3>3. a * k <= b * k /\ b * k <= b * c
      BY <3>1, ProductOrdered
    <3>4. a * k \in Nat /\ b * k \in Nat /\ b * c \in Nat
      BY <3>1
    <3>5. QED BY <3>2, <3>3, <3>4
  <2>7. v[n - 1] <= v[n]
    BY <1>3, <2>5
  <2>8. ASSUME NEW m \in 0..n PROVE w[m] \in 0..v[n]
    <3>1. CASE m = n
      BY <2>3, <2>6, <3>1
    <3>2. CASE m # n
      <4>1. m \in 0..(n - 1)
        BY <3>2
      <4>2. QED BY <2>3, <2>4, <2>7, <4>1
    <3>3. QED BY <3>1, <3>2
  <2>9. QED BY <2>2, <2>8
<1> HIDE DEF g, P
<1>6. \A n \in 0..N : g[n] \subseteq P[n]
  BY <1>4, <1>5, LoopStays
<1>7. g[N] = upTo(N) /\ P[N] = 0..v[N]
  BY DEF g, P
<1>8. ASSUME NEW n \in 0..N PROVE w[n] <= v[N]
  <2>1. N \in 0..N /\ w[n] \in upTo(N)
    OBVIOUS
  <2>2. w[n] \in 0..v[N]
    <3> HIDE DEF upTo
    <3>1. QED BY <1>6, <1>7, <2>1
  <2>3. QED BY <1>3, <2>1, <2>2
<1>9. QED BY <1>8

-----------------------------------------------------------------------------
(* What a grid means is natural numbers.                                   *)

GridOutcome == [payout: Nat, scatters: Nat, fills: Nat, bonuses: Nat]

LEMMA ConfigFields ==
  ASSUME NEW preset \in PresetConfig
  PROVE  /\ preset.reelCount \in Nat /\ preset.rowCount \in Nat
         /\ preset.minStake \in Nat /\ preset.maxStake \in Nat
         /\ preset.maxPayoutMultiplierBps \in Nat
         /\ preset.paytable \in Seq([symbol: Nat, matchCount: Nat, multiplierBps: Nat])
         /\ preset.freeSpinTriggerCount \in Nat
         /\ preset.freeSpinAwardCounts \in Seq(Nat)
         /\ preset.maxFreeSpins \in Nat /\ preset.maxRetriggers \in Nat
         /\ preset.freeSpinMultiplierBps \in Nat
         /\ preset.pickTriggerCount \in Nat /\ preset.maxPickReveals \in Nat
         /\ preset.pickAwardMultiplierBps \in Seq(Nat)
         /\ preset.holdTriggerCount \in Nat /\ preset.holdBoardSize \in Nat
         /\ preset.initialRespins \in Nat /\ preset.maxRespins \in Nat
         /\ preset.holdValueMultiplierBps \in Seq(Nat)
         /\ preset.jackpotTiers \in Seq([tierId: Nat, awardMultiplierBps: Nat, weight: Nat])
         /\ preset.maxTotalEvents \in Nat
  BY DEF PresetConfig

LEMMA PrefixesAreFinite ==
  ASSUME NEW n \in Nat
  PROVE  IsFiniteSet(1..n)
  BY FS_Interval

LEMMA CellsFinite ==
  ASSUME NEW preset \in PresetConfig
  PROVE  IsFiniteSet(Cells(preset))
<1> DEFINE A == 1..preset.reelCount
           C == 1..preset.rowCount
<1>1. IsFiniteSet(A) /\ IsFiniteSet(C)
  BY ConfigFields, PrefixesAreFinite
<1>2. Cells(preset) = A \X C
  BY DEF Cells
<1> HIDE DEF A, C
<1>3. QED BY <1>1, <1>2, FS_Product

LEMMA CountIsNatural ==
  ASSUME NEW preset \in PresetConfig, NEW grid, NEW symbol
  PROVE  countSymbol(preset, grid, symbol) \in Nat
<1> DEFINE cells == {cell \in Cells(preset) : grid[cell] = symbol}
<1>1. IsFiniteSet(cells)
  BY CellsFinite, FS_Subset
<1>2. Cardinality(cells) \in Nat
  <2> HIDE DEF cells
  <2>1. QED BY <1>1, FS_CardinalityType
<1>3. QED BY <1>2 DEF countSymbol

LEMMA AllWays ==
  ASSUME NEW preset \in PresetConfig
  PROVE  \E v : /\ isProduct(preset.reelCount, [n \in 1..preset.reelCount |-> preset.rowCount], v)
                /\ allWays(preset) = v[preset.reelCount]
<1> DEFINE N == preset.reelCount
           c == preset.rowCount
           cs == [n \in 1..N |-> c]
           loop(w) == w = [n \in 0..N |-> IF n = 0 THEN 1 ELSE w[n - 1] * c]
           W == CHOOSE w : loop(w)
<1>1. N \in Nat /\ c \in Nat
  BY ConfigFields
<1>2. allWays(preset) = W[N]
  BY DEF allWays
<1> HIDE DEF N, c
<1>3. cs \in [1..N -> Nat] /\ \A n \in 1..N : cs[n] = c
  BY <1>1
<1> HIDE DEF cs
<1>4. \A w : loop(w) <=> isProduct(N, cs, w)
  <2> SUFFICES ASSUME NEW w PROVE loop(w) <=> isProduct(N, cs, w)
    OBVIOUS
  <2> DEFINE f == [n \in 0..N |-> IF n = 0 THEN 1 ELSE w[n - 1] * c]
             g == [n \in 0..N |-> IF n = 0 THEN 1 ELSE w[n - 1] * cs[n]]
  <2>1. f = g
    BY <1>1, <1>3
  <2>2. QED BY <2>1 DEF isProduct
<1>5. \E w : loop(w)
  <2> HIDE DEF loop
  <2>1. QED BY <1>1, <1>3, <1>4, ProductExists
<1>6. isProduct(N, cs, W)
  <2> HIDE DEF loop
  <2>1. loop(W)
    BY <1>5
  <2>2. QED BY <1>4, <2>1
<1>7. QED BY <1>2, <1>6 DEF N, c, cs

LEMMA WaysAreNatural ==
  ASSUME NEW preset \in PresetConfig, NEW grid, NEW symbol
  PROVE  LET ways == countWays(preset, grid, symbol)
         IN  /\ ways.matches \in Nat /\ ways.waysCount \in Nat
             /\ preset.rowCount # 0 => ways.waysCount <= allWays(preset)
<1> DEFINE N == preset.reelCount
           c == preset.rowCount
           rows(reel) == {row \in 1..c :
             \/ grid[<<reel, row>>] = symbol
             \/ preset.wildSymbolId # 0 /\ grid[<<reel, row>>] = preset.wildSymbolId}
           reelMatches == [reel \in 1..N |-> Cardinality(rows(reel))]
           M == {n \in 0..N : \A reel \in 1..n : reelMatches[reel] > 0}
           W == CHOOSE w : isProduct(N, reelMatches, w)
<1>1. N \in Nat /\ c \in Nat
  BY ConfigFields
<1>2. reelMatches \in [1..N -> Nat] /\ \A reel \in 1..N : reelMatches[reel] <= c
  <2>1. ASSUME NEW reel \in 1..N
        PROVE  Cardinality(rows(reel)) \in Nat /\ Cardinality(rows(reel)) <= c
    <3>1. IsFiniteSet(1..c) /\ Cardinality(1..c) = c
      <4> HIDE DEF c
      <4>1. Cardinality(1..c) = IF 1 > c THEN 0 ELSE c - 1 + 1
        BY <1>1, FS_Interval
      <4>2. QED BY <1>1, <4>1, PrefixesAreFinite
    <3>2. rows(reel) \subseteq 1..c
      OBVIOUS
    <3> HIDE DEF rows, c
    <3>3. QED BY <3>1, <3>2, FS_Subset, FS_CardinalityType
  <2> HIDE DEF rows, c
  <2>2. QED BY <2>1
<1>3. Max(M) \in 0..N
  <2>1. M \in SUBSET (0..N) /\ 0 \in M
    <3> HIDE DEF reelMatches
    <3>1. QED BY <1>1
  <2> HIDE DEF M
  <2>2. QED BY <1>1, <2>1, GreatestNumber
<1>4. countWays(preset, grid, symbol)
        = [matches |-> Max(M), waysCount |-> IF Max(M) = 0 THEN 0 ELSE W[Max(M)]]
  BY DEF countWays, isProduct
<1> HIDE DEF reelMatches, M
<1>5. isProduct(N, reelMatches, W)
  BY <1>1, <1>2, ProductExists
<1> HIDE DEF W
<1>6. \A n \in 0..N : W[n] \in Nat
  BY <1>1, <1>2, <1>5, ProductIsNatural
<1>7. PICK v : /\ isProduct(N, [n \in 1..N |-> c], v)
               /\ allWays(preset) = v[N]
  BY AllWays
<1> HIDE DEF N, c
<1>8. c # 0 => \A n \in 0..N : W[n] <= v[N]
  BY <1>1, <1>2, <1>5, <1>7, ProductInPower
<1>9. v[N] \in Nat
  <2> DEFINE cs == [n \in 1..N |-> c]
  <2>1. cs \in [1..N -> Nat] /\ isProduct(N, cs, v)
    BY <1>1, <1>7
  <2> HIDE DEF cs
  <2>2. QED BY <1>1, <2>1, ProductIsNatural
<1>10. QED BY <1>3, <1>4, <1>6, <1>7, <1>8, <1>9 DEF c

LEMMA WaysPayNaturals ==
  ASSUME NEW preset \in PresetConfig, NEW stake \in Nat, NEW grid
  PROVE  evaluateWays(preset, stake, grid) \in Nat
<1> DEFINE entry(i) == preset.paytable[i]
           ways(i) == countWays(preset, grid, entry(i).symbol)
           pays(i) == IF ways(i).matches >= entry(i).matchCount /\ ways(i).waysCount > 0
                        THEN (stake * entry(i).multiplierBps * ways(i).waysCount) \div BPS
                        ELSE 0
           f == [i \in DOMAIN preset.paytable |-> pays(i)]
<1>1. evaluateWays(preset, stake, grid) = SumFunction(f)
  BY DEF evaluateWays
<1>2. /\ DOMAIN preset.paytable = 1..Len(preset.paytable)
      /\ Len(preset.paytable) \in Nat
      /\ \A i \in DOMAIN preset.paytable : entry(i).multiplierBps \in Nat
  <2> DEFINE Entry == [symbol: Nat, matchCount: Nat, multiplierBps: Nat]
             table == preset.paytable
  <2>1. table \in Seq(Entry)
    BY ConfigFields
  <2>2. \A x \in Entry : x.multiplierBps \in Nat
    OBVIOUS
  <2> HIDE DEF Entry, table
  <2>3. DOMAIN table = 1..Len(table) /\ Len(table) \in Nat
        /\ \A i \in DOMAIN table : table[i] \in Entry
    BY <2>1
  <2>4. QED BY <2>2, <2>3 DEF table
<1>3. ASSUME NEW i \in DOMAIN preset.paytable PROVE pays(i) \in Nat
  <2> DEFINE w == ways(i).waysCount
             b == entry(i).multiplierBps
  <2>1. w \in Nat /\ b \in Nat
    BY <1>2, WaysAreNatural
  <2>2. (stake * b * w) \div BPS \in Nat
    <3> HIDE DEF w, b
    <3>1. stake * b * w \in Nat
      BY <2>1
    <3>2. QED BY <3>1, QuotientIsNatural DEF BPS
  <2>3. QED BY <2>2
<1>4. IsFiniteSet(DOMAIN f) /\ \A i \in DOMAIN f : f[i] \in Nat
  <2> HIDE DEF pays
  <2>1. QED BY <1>2, <1>3, PrefixesAreFinite
<1> HIDE DEF f
<1>5. QED BY <1>1, <1>4, SumOfNats

LEMMA GridsAreNatural ==
  ASSUME NEW preset \in PresetConfig, NEW stake \in Nat
  PROVE  gridOutcomes(preset, stake) \subseteq GridOutcome
<1> SUFFICES ASSUME NEW grid
             PROVE  [payout |-> evaluateWays(preset, stake, grid),
                     scatters |-> countSymbol(preset, grid, preset.scatterSymbolId),
                     fills |-> countSymbol(preset, grid, preset.bonusSymbolId)
                                 + countSymbol(preset, grid, preset.jackpotSymbolId),
                     bonuses |-> countSymbol(preset, grid, preset.bonusSymbolId)]
                    \in GridOutcome
  BY DEF gridOutcomes
<1>1. QED BY CountIsNatural, WaysPayNaturals DEF GridOutcome

-----------------------------------------------------------------------------
(* Free spins.                                                             *)

FreeSpins(preset) ==
  {s \in [reverted: {FALSE}, awarded: Nat, remaining: Nat, retriggersUsed: Nat,
          payout: Nat, events: Nat] :
     /\ s.awarded = s.remaining + s.events
     /\ s.awarded <= preset.freeSpinAwardCounts[1] \/ s.awarded <= preset.maxFreeSpins
     /\ s.retriggersUsed <= preset.maxRetriggers
     /\ s.events <= preset.maxTotalEvents}

LEMMA LookupIsNatural ==
  ASSUME NEW preset \in PresetConfig, preset.freeSpinAwardCounts # <<>>,
         NEW count \in Nat, count >= preset.freeSpinTriggerCount
  PROVE  /\ lookupFreeSpinCount(preset, count) \in Nat
         /\ count = preset.freeSpinTriggerCount =>
              lookupFreeSpinCount(preset, count) = preset.freeSpinAwardCounts[1]
         /\ lookupFreeSpinCount(preset, count) \in Range(preset.freeSpinAwardCounts)
<1> DEFINE awards == preset.freeSpinAwardCounts
           place == count - preset.freeSpinTriggerCount + 1
           n == Min({place, Len(awards)})
<1>1. awards \in Seq(Nat) /\ preset.freeSpinTriggerCount \in Nat
  BY ConfigFields
<1>2. awards \in [1..Len(awards) -> Nat] /\ Len(awards) \in Nat \ {0}
  <2> HIDE DEF awards
  <2>1. awards # <<>>
    BY DEF awards
  <2>2. QED BY <1>1, <2>1
<1>3. place \in Nat \ {0}
  BY <1>1
<1>4. n = IF place <= Len(awards) THEN place ELSE Len(awards)
  <2>1. place \in Int /\ Len(awards) \in Int
    BY <1>2, <1>3
  <2> HIDE DEF place, awards
  <2>2. QED BY <2>1, MinMaxOfTwo
<1>5. lookupFreeSpinCount(preset, count) = awards[n]
  BY DEF lookupFreeSpinCount
<1> HIDE DEF n, awards, place
<1>6. n \in 1..Len(awards)
  <2> DEFINE size == Len(awards)
  <2>1. size \in Nat /\ size >= 1 /\ place \in Nat /\ place >= 1
    BY <1>2, <1>3
  <2>2. n = IF place <= size THEN place ELSE size
    BY <1>4
  <2> HIDE DEF size
  <2>3. n \in 1..size
    BY <2>1, <2>2
  <2>4. QED BY <2>3 DEF size
<1>7. count = preset.freeSpinTriggerCount => n = 1
  <2>1. count = preset.freeSpinTriggerCount => place = 1
    BY <1>1 DEF place
  <2>2. QED BY <1>2, <1>3, <1>4, <1>6, <2>1
<1>8. awards[n] \in Range(awards)
  <2> HIDE DEF awards
  <2>1. DOMAIN awards = 1..Len(awards)
    BY <1>2
  <2>2. QED BY <1>6, <2>1 DEF Range
<1>9. QED BY <1>2, <1>5, <1>6, <1>7, <1>8 DEF awards

LEMMA FreeSpinKeeps ==
  ASSUME NEW preset \in PresetConfig, preset.freeSpinAwardCounts # <<>>,
         NEW state \in FreeSpins(preset), state.remaining # 0,
         NEW startingEvents \in Nat, NEW grid \in GridOutcome,
         NEW spun, spun = freeSpin(preset, state, startingEvents, grid), spun # Reverted
  PROVE  spun \in FreeSpins(preset) /\ spun.events = state.events + 1
<1> DEFINE retriggers == /\ grid.scatters >= preset.freeSpinTriggerCount
                         /\ state.retriggersUsed < preset.maxRetriggers
                         /\ state.awarded < preset.maxFreeSpins
           extra == IF retriggers THEN extraSpins(preset, state.awarded, grid.scatters)
                                  ELSE 0
           used == IF retriggers THEN 1 ELSE 0
           won == (grid.payout * preset.freeSpinMultiplierBps) \div BPS
<1>1. /\ preset.freeSpinTriggerCount \in Nat /\ preset.maxFreeSpins \in Nat
      /\ preset.maxRetriggers \in Nat /\ preset.maxTotalEvents \in Nat
      /\ preset.freeSpinMultiplierBps \in Nat
  BY ConfigFields
<1>2. /\ state.awarded \in Nat /\ state.remaining \in Nat /\ state.retriggersUsed \in Nat
      /\ state.payout \in Nat /\ state.events \in Nat
      /\ state.awarded = state.remaining + state.events
      /\ state.awarded <= preset.freeSpinAwardCounts[1]
           \/ state.awarded <= preset.maxFreeSpins
      /\ state.retriggersUsed <= preset.maxRetriggers
  BY DEF FreeSpins
<1>3. grid.scatters \in Nat /\ grid.payout \in Nat
  BY DEF GridOutcome
<1>4. extra \in Nat /\ (retriggers => state.awarded + extra <= preset.maxFreeSpins)
  <2>1. CASE retriggers
    <3> DEFINE most == lookupFreeSpinCount(preset, grid.scatters)
               left == preset.maxFreeSpins - state.awarded
    <3>1. most \in Nat
      BY <1>3, <2>1, LookupIsNatural
    <3>2. left \in Nat
      BY <1>1, <1>2, <2>1
    <3>3. extra = Min({most, left})
      BY <2>1 DEF extraSpins
    <3>4. extra = IF most <= left THEN most ELSE left
      <4>1. most \in Int /\ left \in Int
        BY <3>1, <3>2
      <4> HIDE DEF most, left, extra
      <4>2. QED BY <3>3, <4>1, MinMaxOfTwo
    <3> HIDE DEF most, extra
    <3>5. extra \in Nat /\ extra <= left
      BY <3>1, <3>2, <3>4
    <3>6. QED BY <1>1, <1>2, <3>5
  <2>2. CASE ~retriggers
    BY <2>2
  <2>3. QED BY <2>1, <2>2
<1>5. used \in {0, 1} /\ state.retriggersUsed + used <= preset.maxRetriggers
  <2>1. used \in {0, 1} /\ (used = 1 => state.retriggersUsed < preset.maxRetriggers)
    OBVIOUS
  <2> DEFINE before == state.retriggersUsed
             most == preset.maxRetriggers
  <2>2. before \in Nat /\ most \in Nat /\ before <= most /\ (used = 1 => before < most)
    BY <1>1, <1>2, <2>1
  <2> HIDE DEF used, before, most
  <2>3. before + used <= most
    BY <2>1, <2>2
  <2>4. QED BY <2>1, <2>3 DEF before, most
<1>6. won \in Nat
  BY <1>1, <1>3, QuotientIsNatural DEF BPS
<1>7. /\ ~(startingEvents + state.events >= preset.maxTotalEvents)
      /\ spun = [reverted |-> FALSE,
                 awarded |-> state.awarded + extra,
                 remaining |-> state.remaining + extra - 1,
                 retriggersUsed |-> state.retriggersUsed + used,
                 payout |-> state.payout + won,
                 events |-> state.events + 1]
  BY Zenon DEF freeSpin
<1>8. ~retriggers => extra = 0
  OBVIOUS
<1> HIDE DEF extra, used, won, retriggers
<1>15. /\ spun.reverted = FALSE
       /\ spun.awarded = state.awarded + extra
       /\ spun.remaining = state.remaining + extra - 1
       /\ spun.retriggersUsed = state.retriggersUsed + used
       /\ spun.payout = state.payout + won
       /\ spun.events = state.events + 1
  BY <1>7
<1>9. /\ spun.awarded \in Nat /\ spun.remaining \in Nat
      /\ spun.retriggersUsed \in Nat /\ spun.payout \in Nat /\ spun.events \in Nat
  <2>1. state.remaining >= 1
    BY <1>2
  <2>2. state.remaining + extra - 1 \in Nat
    BY <1>2, <1>4, <2>1
  <2>3. used \in Nat
    BY <1>5
  <2>4. /\ state.awarded + extra \in Nat /\ state.retriggersUsed + used \in Nat
        /\ state.payout + won \in Nat /\ state.events + 1 \in Nat
    <3> DEFINE a == state.awarded
               b == state.retriggersUsed
               c == state.payout
               d == state.events
    <3>1. /\ a \in Nat /\ b \in Nat /\ c \in Nat /\ d \in Nat
          /\ extra \in Nat /\ used \in Nat /\ won \in Nat
      BY <1>2, <1>4, <1>6, <2>3
    <3> HIDE DEF a, b, c, d
    <3>2. a + extra \in Nat /\ b + used \in Nat /\ c + won \in Nat /\ d + 1 \in Nat
      BY <3>1
    <3>3. QED BY <3>2 DEF a, b, c, d
  <2>5. QED BY <1>15, <2>2, <2>4
<1>10. spun.awarded = spun.remaining + spun.events
  <2> DEFINE a == state.awarded
             b == state.remaining
             c == state.events
  <2>1. /\ a \in Nat /\ b \in Nat /\ c \in Nat /\ a = b + c
        /\ spun.awarded = a + extra /\ spun.remaining = b + extra - 1
        /\ spun.events = c + 1
    BY <1>2, <1>15
  <2> HIDE DEF a, b, c
  <2>2. QED BY <1>4, <2>1
<1>11. \/ spun.awarded <= preset.freeSpinAwardCounts[1]
       \/ spun.awarded <= preset.maxFreeSpins
  BY <1>2, <1>4, <1>15, <1>8
<1>12. spun.retriggersUsed <= preset.maxRetriggers
  BY <1>5, <1>15
<1>13. spun.events <= preset.maxTotalEvents
  BY <1>1, <1>2, <1>7, <1>15
<1>14. QED BY <1>7, <1>15, <1>9, <1>10, <1>11, <1>12, <1>13 DEF FreeSpins

firstFreeSpins(preset) ==
  LET award == lookupFreeSpinCount(preset, preset.freeSpinTriggerCount) IN
  [reverted |-> FALSE, awarded |-> award, remaining |-> award,
   retriggersUsed |-> 0, payout |-> 0, events |-> 0]

freeSpinRound(preset, grids, startingEvents, state) ==
  IF state.reverted \/ state.remaining = 0 THEN {state}
  ELSE {freeSpin(preset, state, startingEvents, grid) : grid \in grids}

\* The rounds of the free spins, when they stay in some set of states.
LEMMA FreeSpinRounds ==
  ASSUME NEW preset \in PresetConfig, NEW startingEvents, NEW grids,
         NEW U, firstFreeSpins(preset) \in U,
         \A state \in U : freeSpinRound(preset, grids, startingEvents, state) \subseteq U
  PROVE  \E W : /\ resolveFreeSpins(preset, grids, startingEvents) = W[preset.maxTotalEvents + 1]
                /\ W[0] = {firstFreeSpins(preset)}
                /\ \A n \in 1..(preset.maxTotalEvents + 1) :
                     W[n] = UNION {freeSpinRound(preset, grids, startingEvents, state) :
                                     state \in W[n - 1]}
<1> DEFINE N == preset.maxTotalEvents + 1
           first == firstFreeSpins(preset)
           step(state) == freeSpinRound(preset, grids, startingEvents, state)
           loop(w) == w = [n \in 0..N |-> IF n = 0 THEN {first}
                                          ELSE UNION {step(state) : state \in w[n - 1]}]
           W == CHOOSE w : loop(w)
<1>1. resolveFreeSpins(preset, grids, startingEvents) = W[N]
  BY DEF resolveFreeSpins, firstFreeSpins, freeSpinRound
<1>2. N \in Nat
  BY ConfigFields
<1>3. loop(W)
  <2> DEFINE next == [state \in U |-> step(state)]
  <2>1. next \in [U -> SUBSET U] /\ \A state \in U : next[state] = step(state)
    <3>1. \A state \in U : step(state) \in SUBSET U
      OBVIOUS
    <3> HIDE DEF step
    <3>2. QED BY <3>1
  <2> HIDE DEF next, first, N
  <2>2. PICK f : isSetLoop(N, U, first, next, f)
    <3>1. first \in U
      BY DEF first
    <3>2. QED BY <1>2, <2>1, <3>1, LoopOfSets
  <2>3. /\ f \in [0..N -> SUBSET U] /\ f[0] = {first}
        /\ \A n \in 1..N : f[n] = UNION {next[state] : state \in f[n - 1]}
    BY <2>2 DEF isSetLoop
  <2> HIDE DEF step
  <2>4. ASSUME NEW n \in 1..N
        PROVE  f[n] = UNION {step(state) : state \in f[n - 1]}
    <3>1. f[n - 1] \in SUBSET U
      BY <1>2, <2>3
    <3>2. \A state \in f[n - 1] : next[state] = step(state)
      BY <2>1, <3>1
    <3>3. {next[state] : state \in f[n - 1]} = {step(state) : state \in f[n - 1]}
      BY <3>2
    <3>4. QED BY <2>3, <3>3
  <2>5. f = [n \in 0..N |-> IF n = 0 THEN {first}
                            ELSE UNION {step(state) : state \in f[n - 1]}]
    BY <1>2, <2>3, <2>4
  <2>6. loop(f)
    BY <2>5
  <2> HIDE DEF loop
  <2>7. QED BY <2>6
<1> HIDE DEF W
<1>4. /\ W[0] = {first}
      /\ \A n \in 1..N : W[n] = UNION {step(state) : state \in W[n - 1]}
  <2> HIDE DEF step, first
  <2>1. QED BY <1>2, <1>3
<1>5. QED BY <1>1, <1>4

\* What the first state has and every round keeps, the free spins end with.
LEMMA FreeSpinsStay ==
  ASSUME NEW preset \in PresetConfig, NEW startingEvents, NEW grids,
         NEW U, firstFreeSpins(preset) \in U,
         \A state \in U : freeSpinRound(preset, grids, startingEvents, state) \subseteq U
  PROVE  resolveFreeSpins(preset, grids, startingEvents) \subseteq U
<1> DEFINE N == preset.maxTotalEvents + 1
           first == firstFreeSpins(preset)
           step(state) == freeSpinRound(preset, grids, startingEvents, state)
           P == [n \in 0..N |-> U]
<1>1. N \in Nat
  BY ConfigFields
<1>2. PICK W : /\ resolveFreeSpins(preset, grids, startingEvents) = W[N]
               /\ W[0] = {first}
               /\ \A n \in 1..N : W[n] = UNION {step(state) : state \in W[n - 1]}
  BY FreeSpinRounds
<1>3. W[0] \subseteq P[0]
  BY <1>1, <1>2
<1>4. ASSUME NEW n \in 1..N, W[n - 1] \subseteq P[n - 1]
      PROVE  W[n] \subseteq P[n]
  <2>1. P[n - 1] = U /\ P[n] = U
    BY <1>1
  <2>2. \A state \in U : step(state) \subseteq U
    OBVIOUS
  <2> HIDE DEF P, step, N
  <2>3. QED BY <1>2, <1>4, <2>1, <2>2
<1>5. P[N] = U /\ N \in 0..N
  BY <1>1
<1> HIDE DEF P, N
<1>6. QED BY <1>1, <1>2, <1>3, <1>4, <1>5, LoopStays

LEMMA FreeSpinsEnd ==
  ASSUME NEW preset \in PresetConfig, preset.freeSpinAwardCounts # <<>>,
         NEW startingEvents \in Nat, NEW grids \in SUBSET GridOutcome,
         NEW s \in resolveFreeSpins(preset, grids, startingEvents), s # Reverted
  PROVE  s \in FreeSpins(preset) /\ s.remaining = 0
<1> DEFINE N == preset.maxTotalEvents + 1
           first == firstFreeSpins(preset)
           over(state) == state.reverted \/ state.remaining = 0
           step(state) == freeSpinRound(preset, grids, startingEvents, state)
           U == FreeSpins(preset) \cup {Reverted}
<1>1. N \in Nat /\ preset.maxTotalEvents \in Nat /\ preset.freeSpinTriggerCount \in Nat
      /\ preset.maxRetriggers \in Nat /\ preset.maxFreeSpins \in Nat
  BY ConfigFields
<1>2. first \in FreeSpins(preset) /\ first.events = 0
  <2> DEFINE award == lookupFreeSpinCount(preset, preset.freeSpinTriggerCount)
  <2>1. award \in Nat /\ award = preset.freeSpinAwardCounts[1]
    BY <1>1, LookupIsNatural
  <2> HIDE DEF award
  <2>2. first = [reverted |-> FALSE, awarded |-> award, remaining |-> award,
                 retriggersUsed |-> 0, payout |-> 0, events |-> 0]
    BY DEF award, firstFreeSpins
  <2> HIDE DEF first
  <2>3. QED BY <1>1, <2>1, <2>2 DEF FreeSpins
<1>3. Reverted.reverted
  BY DEF Reverted
<1>4. ASSUME NEW state \in U, NEW spun \in step(state), spun # Reverted
      PROVE  /\ spun \in FreeSpins(preset) /\ state \in FreeSpins(preset)
             /\ spun.remaining = 0 \/ spun.events = state.events + 1
  <2>1. CASE over(state)
    <3>1. spun = state
      BY <1>4, <2>1 DEF freeSpinRound
    <3>2. state \in FreeSpins(preset)
      BY <1>4, <3>1
    <3>3. state.reverted = FALSE
      BY <3>2 DEF FreeSpins
    <3>4. QED BY <2>1, <3>1, <3>2, <3>3
  <2>2. CASE ~over(state)
    <3>1. state \in FreeSpins(preset)
      BY <1>3, <2>2
    <3>2. PICK grid \in grids : spun = freeSpin(preset, state, startingEvents, grid)
      BY <1>4, <2>2 DEF freeSpinRound
    <3>3. state.remaining # 0 /\ grid \in GridOutcome
      BY <2>2
    <3>4. QED BY <1>4, <3>1, <3>2, <3>3, FreeSpinKeeps
  <2>3. QED BY <2>1, <2>2
<1>5. \A state \in U : step(state) \in SUBSET U
  <2> HIDE DEF step
  <2>1. QED BY <1>4
<1>6. PICK W : /\ resolveFreeSpins(preset, grids, startingEvents) = W[N]
               /\ W[0] = {first}
               /\ \A n \in 1..N : W[n] = UNION {step(state) : state \in W[n - 1]}
  <2> HIDE DEF U
  <2>1. first \in U /\ \A state \in U : step(state) \subseteq U
    BY <1>2, <1>5 DEF U
  <2>2. QED BY <2>1, FreeSpinRounds
<1> DEFINE reached(n) == {Reverted} \cup
             {state \in FreeSpins(preset) : state.remaining = 0 \/ state.events = n}
           P == [n \in 0..N |-> reached(n)]
<1>7. \A n \in 0..N : W[n] \subseteq P[n]
  <2> HIDE DEF step, first
  <2>1. W[0] \subseteq P[0]
    BY <1>1, <1>2, <1>6
  <2>2. ASSUME NEW n \in 1..N, W[n - 1] \subseteq P[n - 1]
        PROVE  W[n] \subseteq P[n]
    <3>1. /\ n - 1 \in 0..N /\ n \in 0..N
          /\ P[n - 1] = reached(n - 1) /\ P[n] = reached(n)
      BY <1>1
    <3> SUFFICES ASSUME NEW spun \in W[n], spun # Reverted
                 PROVE  spun \in reached(n)
      BY <3>1
    <3>2. PICK state \in W[n - 1] : spun \in step(state)
      BY <1>6
    <3>3. state \in reached(n - 1)
      BY <2>2, <3>1, <3>2
    <3>4. state \in U
      BY <3>3
    <3>5. /\ spun \in FreeSpins(preset) /\ state \in FreeSpins(preset)
          /\ spun.remaining = 0 \/ spun.events = state.events + 1
      BY <1>4, <3>2, <3>4
    <3>6. CASE state.remaining = 0
      <4>1. spun = state
        BY <3>2, <3>6 DEF step, freeSpinRound
      <4>2. QED BY <3>5, <3>6, <4>1
    <3>7. CASE state.remaining # 0
      <4>1. state.events = n - 1
        BY <3>3, <3>5, <3>7, <1>3 DEF FreeSpins
      <4>2. QED BY <1>1, <3>5, <4>1
    <3>8. QED BY <3>6, <3>7
  <2> HIDE DEF P
  <2>3. QED BY <1>1, <2>1, <2>2, LoopStays
<1>8. s \in reached(N)
  <2>1. N \in 0..N /\ P[N] = reached(N)
    BY <1>1
  <2> HIDE DEF P, reached
  <2>2. QED BY <1>6, <1>7, <2>1
<1>9. s \in FreeSpins(preset) /\ (s.remaining = 0 \/ s.events = N)
  BY <1>8
<1>10. s.events \in Nat /\ s.events <= preset.maxTotalEvents
  BY <1>9 DEF FreeSpins
<1>11. QED BY <1>1, <1>9, <1>10

-----------------------------------------------------------------------------
(* The pick bonus.                                                         *)

LEMMA PicksAreNatural ==
  ASSUME NEW preset \in PresetConfig, NEW stake \in Nat, NEW startingEvents \in Nat,
         NEW pick \in resolvePickBonus(preset, stake, startingEvents), pick # Reverted
  PROVE  /\ pick.reverted = FALSE
         /\ pick.events \in Nat /\ pick.payout \in Nat
<1> DEFINE awards == preset.pickAwardMultiplierBps
<1>1. preset.maxPickReveals \in Nat /\ awards \in Seq(Nat)
  BY ConfigFields
<1>2. PICK draws \in [1..preset.maxPickReveals -> Range(awards)] :
        pick = [reverted |-> FALSE, events |-> preset.maxPickReveals,
                payout |-> SumFunction([i \in DOMAIN draws |-> (stake * draws[i]) \div BPS])]
  BY DEF resolvePickBonus
<1>3. Range(awards) \subseteq Nat
  <2> HIDE DEF awards
  <2>1. \A i \in DOMAIN awards : awards[i] \in Nat
    BY <1>1
  <2>2. QED BY <2>1 DEF Range
<1> DEFINE prizes == [i \in DOMAIN draws |-> (stake * draws[i]) \div BPS]
<1>4. DOMAIN prizes = 1..preset.maxPickReveals
  BY <1>2
<1>5. IsFiniteSet(DOMAIN prizes) /\ \A i \in DOMAIN prizes : prizes[i] \in Nat
  <2>1. IsFiniteSet(DOMAIN prizes)
    BY <1>1, <1>4, PrefixesAreFinite
  <2>2. ASSUME NEW i \in DOMAIN prizes PROVE prizes[i] \in Nat
    <3> DEFINE bps == draws[i]
    <3>1. bps \in Nat
      BY <1>2, <1>3, <1>4
    <3>2. (stake * bps) \div BPS \in Nat
      <4> HIDE DEF bps
      <4>1. stake * bps \in Nat
        BY <3>1
      <4>2. QED BY <4>1, QuotientIsNatural DEF BPS
    <3>3. QED BY <3>2
  <2>3. QED BY <2>1, <2>2
<1>6. SumFunction(prizes) \in Nat
  <2> HIDE DEF prizes
  <2>1. QED BY <1>5, SumOfNats
<1>7. QED BY <1>1, <1>2, <1>6

-----------------------------------------------------------------------------
(* Hold and spin.                                                          *)

\* A jackpot that is reported is one that can be hit; its award is in the
\* jackpots' payout and with that in the feature's.
jackpotFits(preset, stake, tierHit, prizes, payout) ==
  /\ prizes <= payout
  /\ prizes > 0 => tierHit # 0
  /\ tierHit # 0 =>
       \E tier \in Range(preset.jackpotTiers) :
         /\ tier.tierId = tierHit /\ tier.weight > 0
         /\ prizes >= (stake * tier.awardMultiplierBps) \div BPS

Holds(preset, stake) ==
  {s \in [reverted: {FALSE}, remaining: Int, respinsUsed: Nat, filled: Nat,
          payout: Nat, jackpotTierHit: Nat, jackpotPayout: Nat] :
     /\ s.respinsUsed <= preset.maxRespins
     /\ s.filled <= preset.holdBoardSize
     /\ jackpotFits(preset, stake, s.jackpotTierHit, s.jackpotPayout, s.payout)}

LEMMA TiersAreNatural ==
  ASSUME NEW preset \in PresetConfig, NEW stake \in Nat,
         NEW tier \in Range(preset.jackpotTiers)
  PROVE  tier.tierId \in Nat /\ (stake * tier.awardMultiplierBps) \div BPS \in Nat
<1> DEFINE Tier == [tierId: Nat, awardMultiplierBps: Nat, weight: Nat]
           tiers == preset.jackpotTiers
<1>1. tiers \in Seq(Tier)
  BY ConfigFields
<1>2. tier \in Tier
  <2> HIDE DEF Tier
  <2>1. \A i \in DOMAIN tiers : tiers[i] \in Tier
    <3> HIDE DEF tiers
    <3>1. QED BY <1>1
  <2>2. QED BY <2>1 DEF Range
<1>3. tier.tierId \in Nat /\ tier.awardMultiplierBps \in Nat
  BY <1>2
<1> DEFINE bps == tier.awardMultiplierBps
<1>4. (stake * bps) \div BPS \in Nat
  <2>1. bps \in Nat
    BY <1>3
  <2> HIDE DEF bps
  <2>2. stake * bps \in Nat
    BY <2>1
  <2>3. QED BY <2>2, QuotientIsNatural DEF BPS
<1>5. QED BY <1>3, <1>4

LEMMA HitsAreNatural ==
  ASSUME NEW preset \in PresetConfig, NEW stake \in Nat,
         NEW value \in drawHoldValue(preset, stake)
  PROVE  /\ value.payout \in Nat /\ value.tier \in Nat
         /\ value.tier # 0 =>
              \E tier \in Range(preset.jackpotTiers) :
                /\ tier.tierId = value.tier /\ tier.weight > 0
                /\ value.payout = (stake * tier.awardMultiplierBps) \div BPS
<1> DEFINE awards == preset.holdValueMultiplierBps
<1>1. CASE \E bps \in Range(awards) : value = [payout |-> (stake * bps) \div BPS, tier |-> 0]
  <2>1. PICK bps \in Range(awards) : value = [payout |-> (stake * bps) \div BPS, tier |-> 0]
    BY <1>1
  <2>2. bps \in Nat
    <3>1. awards \in Seq(Nat)
      BY ConfigFields
    <3> HIDE DEF awards
    <3>2. \A i \in DOMAIN awards : awards[i] \in Nat
      BY <3>1
    <3>3. QED BY <2>1, <3>2 DEF Range
  <2>3. (stake * bps) \div BPS \in Nat
    <3>1. stake * bps \in Nat
      BY <2>2
    <3>2. QED BY <3>1, QuotientIsNatural DEF BPS
  <2>4. value.payout = (stake * bps) \div BPS /\ value.tier = 0
    BY <2>1
  <2>5. QED BY <2>3, <2>4
<1>2. CASE \E j \in Range(preset.jackpotTiers) :
             /\ j.weight > 0
             /\ value = [payout |-> (stake * j.awardMultiplierBps) \div BPS,
                         tier |-> j.tierId]
  <2>1. PICK j \in Range(preset.jackpotTiers) :
          /\ j.weight > 0
          /\ value = [payout |-> (stake * j.awardMultiplierBps) \div BPS, tier |-> j.tierId]
    BY <1>2
  <2>2. /\ value.payout = (stake * j.awardMultiplierBps) \div BPS
        /\ value.tier = j.tierId
    BY <2>1
  <2>3. QED BY <2>1, <2>2, TiersAreNatural
<1>3. QED BY <1>1, <1>2 DEF drawHoldValue

\* A hit keeps what a hold and spin is made of.
LEMMA HitKeeps ==
  ASSUME NEW preset \in PresetConfig, NEW stake \in Nat,
         NEW state \in Holds(preset, stake), NEW value \in drawHoldValue(preset, stake)
  PROVE  hit(state, value) \in Holds(preset, stake)
<1> DEFINE tierHit == IF value.tier # 0 THEN value.tier ELSE state.jackpotTierHit
           more == IF value.tier # 0 THEN value.payout ELSE 0
           prizes == state.jackpotPayout + more
           payout == state.payout + value.payout
           after == hit(state, value)
<1>1. /\ state \in [reverted: {FALSE}, remaining: Int, respinsUsed: Nat, filled: Nat,
                     payout: Nat, jackpotTierHit: Nat, jackpotPayout: Nat]
      /\ state.respinsUsed <= preset.maxRespins
      /\ state.filled <= preset.holdBoardSize
      /\ jackpotFits(preset, stake, state.jackpotTierHit, state.jackpotPayout, state.payout)
  BY DEF Holds
<1>2. /\ value.payout \in Nat /\ value.tier \in Nat
      /\ value.tier # 0 =>
           \E tier \in Range(preset.jackpotTiers) :
             /\ tier.tierId = value.tier /\ tier.weight > 0
             /\ value.payout = (stake * tier.awardMultiplierBps) \div BPS
  BY HitsAreNatural
<1>3. after = [state EXCEPT !.payout = payout, !.jackpotTierHit = tierHit,
                            !.jackpotPayout = prizes]
  BY DEF hit
<1>4. /\ state.payout \in Nat /\ state.jackpotPayout \in Nat /\ state.jackpotTierHit \in Nat
  BY <1>1
<1>5. payout \in Nat /\ prizes \in Nat /\ tierHit \in Nat /\ prizes <= payout
      /\ prizes >= state.jackpotPayout /\ (value.tier # 0 => prizes >= value.payout)
  <2> DEFINE a == state.payout
             b == state.jackpotPayout
             c == value.payout
  <2>1. a \in Nat /\ b \in Nat /\ c \in Nat /\ b <= a
    BY <1>1, <1>2, <1>4 DEF jackpotFits
  <2>2. more = IF value.tier # 0 THEN c ELSE 0
    OBVIOUS
  <2>3. payout = a + c /\ prizes = b + more
    OBVIOUS
  <2>4. tierHit \in Nat
    BY <1>2, <1>4
  <2> HIDE DEF a, b, c, more, payout, prizes
  <2>5. /\ payout \in Nat /\ prizes \in Nat /\ prizes <= payout
        /\ prizes >= b /\ (value.tier # 0 => prizes >= c)
    BY <2>1, <2>2, <2>3
  <2>6. QED BY <2>4, <2>5 DEF b, c
<1>6. jackpotFits(preset, stake, tierHit, prizes, payout)
  <2>1. CASE value.tier # 0
    <3>1. tierHit = value.tier
      BY <2>1
    <3>2. PICK tier \in Range(preset.jackpotTiers) :
            /\ tier.tierId = value.tier /\ tier.weight > 0
            /\ value.payout = (stake * tier.awardMultiplierBps) \div BPS
      BY <1>2, <2>1
    <3>3. prizes >= (stake * tier.awardMultiplierBps) \div BPS
      BY <1>5, <2>1, <3>2
    <3> HIDE DEF prizes, payout, tierHit
    <3>4. QED BY <1>5, <2>1, <3>1, <3>2, <3>3 DEF jackpotFits
  <2>2. CASE value.tier = 0
    <3>1. tierHit = state.jackpotTierHit /\ prizes = state.jackpotPayout
      BY <1>4, <2>2
    <3> HIDE DEF prizes, payout, tierHit
    <3>2. QED BY <1>1, <1>5, <3>1 DEF jackpotFits
  <2>3. QED BY <2>1, <2>2
<1> HIDE DEF prizes, payout, tierHit
<1>7. /\ after \in [reverted: {FALSE}, remaining: Int, respinsUsed: Nat, filled: Nat,
                     payout: Nat, jackpotTierHit: Nat, jackpotPayout: Nat]
      /\ after.respinsUsed = state.respinsUsed /\ after.filled = state.filled
      /\ after.jackpotTierHit = tierHit /\ after.jackpotPayout = prizes
      /\ after.payout = payout
  BY <1>1, <1>3, <1>5
<1> HIDE DEF after
<1>8. after \in Holds(preset, stake)
  BY <1>1, <1>6, <1>7 DEF Holds
<1>9. QED BY <1>8 DEF after

hitRound(preset, stake, S) ==
  {hit(s, value) : s \in S, value \in drawHoldValue(preset, stake)}

\* W has what a number of new hits may make of a state, hit by hit.
areHits(preset, stake, newHits, state, W) ==
  /\ accumulateHoldHits(preset, stake, state, newHits) = W[newHits]
  /\ W[0] = {state}
  /\ \A n \in 1..newHits : W[n] = hitRound(preset, stake, W[n - 1])

\* The rounds of hits, when they stay in some set of states.
LEMMA HitRounds ==
  ASSUME NEW preset, NEW stake, NEW newHits \in Nat, NEW U, NEW state \in U,
         \A s \in U, value \in drawHoldValue(preset, stake) : hit(s, value) \in U
  PROVE  \E W : areHits(preset, stake, newHits, state, W)
<1> DEFINE values == drawHoldValue(preset, stake)
           step(s) == {hit(s, value) : value \in values}
           round(S) == {hit(s, value) : s \in S, value \in values}
           loop(w) == w = [n \in 0..newHits |-> IF n = 0 THEN {state} ELSE round(w[n - 1])]
           W == CHOOSE w : loop(w)
<1>1. accumulateHoldHits(preset, stake, state, newHits) = W[newHits]
  BY DEF accumulateHoldHits
<1>2. \A s \in U : step(s) \in SUBSET U
  OBVIOUS
<1>3. \E w : loop(w)
  <2> DEFINE next == [s \in U |-> step(s)]
  <2>1. next \in [U -> SUBSET U] /\ \A s \in U : next[s] = step(s)
    <3> HIDE DEF step
    <3>1. QED BY <1>2
  <2> HIDE DEF next
  <2>3. PICK f : isSetLoop(newHits, U, state, next, f)
    BY <2>1, LoopOfSets
  <2>4. /\ f \in [0..newHits -> SUBSET U] /\ f[0] = {state}
        /\ \A n \in 1..newHits : f[n] = UNION {next[s] : s \in f[n - 1]}
    BY <2>3 DEF isSetLoop
  <2> HIDE DEF values
  <2>5. ASSUME NEW n \in 1..newHits
        PROVE  f[n] = round(f[n - 1])
    <3> DEFINE F == f[n - 1]
    <3>1. F \in SUBSET U
      BY <2>4
    <3>2. \A s \in F : next[s] = step(s)
      BY <2>1, <3>1
    <3>3. f[n] = UNION {next[s] : s \in F}
      BY <2>4
    <3> HIDE DEF F
    <3>4. UNION {next[s] : s \in F} = UNION {step(s) : s \in F}
      <4> HIDE DEF step
      <4>1. QED BY <3>2
    <3>5. UNION {step(s) : s \in F} = round(F)
      OBVIOUS
    <3>6. f[n] = round(F)
      <4> HIDE DEF step, round
      <4>1. QED BY <3>3, <3>4, <3>5
    <3>7. QED BY <3>6 DEF F
  <2> HIDE DEF step, round
  <2>6. loop(f)
    BY <2>4, <2>5
  <2> HIDE DEF loop
  <2>7. QED BY <2>6
<1>4. loop(W)
  <2> HIDE DEF loop
  <2>1. QED BY <1>3
<1> HIDE DEF W
<1>5. /\ W[0] = {state}
      /\ \A n \in 1..newHits : W[n] = round(W[n - 1])
  <2> DEFINE G == [n \in 0..newHits |-> IF n = 0 THEN {state} ELSE round(W[n - 1])]
  <2> HIDE DEF round
  <2>1. W = G
    BY <1>4
  <2>2. G[0] = {state} /\ \A n \in 1..newHits : G[n] = round(W[n - 1])
    OBVIOUS
  <2> HIDE DEF G
  <2>3. QED BY <2>1, <2>2
<1>6. \A n \in 1..newHits : W[n] = hitRound(preset, stake, W[n - 1])
  BY <1>5 DEF hitRound
<1>7. areHits(preset, stake, newHits, state, W)
  BY <1>1, <1>5, <1>6 DEF areHits
<1>8. QED BY <1>7

LEMMA HitsKeep ==
  ASSUME NEW preset \in PresetConfig, NEW stake \in Nat,
         NEW state \in Holds(preset, stake), NEW newHits \in Nat
  PROVE  accumulateHoldHits(preset, stake, state, newHits) \subseteq Holds(preset, stake)
<1> DEFINE values == drawHoldValue(preset, stake)
           U == Holds(preset, stake)
           P == [n \in 0..newHits |-> U]
<1>1. \E W : areHits(preset, stake, newHits, state, W)
  <2>1. \A s \in U, value \in drawHoldValue(preset, stake) : hit(s, value) \in U
    BY HitKeeps
  <2>2. state \in U
    OBVIOUS
  <2> HIDE DEF U, values, P
  <2>3. QED BY <2>1, <2>2, HitRounds
<1>11. PICK W : /\ accumulateHoldHits(preset, stake, state, newHits) = W[newHits]
                /\ W[0] = {state}
                /\ \A n \in 1..newHits : W[n] = hitRound(preset, stake, W[n - 1])
  BY <1>1 DEF areHits
<1>2. W[0] \subseteq P[0]
  BY <1>11
<1>3. ASSUME NEW n \in 1..newHits, W[n - 1] \subseteq P[n - 1]
      PROVE  W[n] \subseteq P[n]
  <2>1. P[n - 1] = U /\ P[n] = U
    OBVIOUS
  <2> HIDE DEF P
  <2>2. ASSUME NEW h \in W[n] PROVE h \in U
    <3>1. PICK s \in W[n - 1], value \in values : h = hit(s, value)
      BY <1>11 DEF hitRound
    <3>2. s \in U
      BY <1>3, <2>1, <3>1
    <3>3. QED BY <3>1, <3>2, HitKeeps
  <2>3. QED BY <2>1, <2>2
<1>4. P[newHits] = U /\ newHits \in 0..newHits
  OBVIOUS
<1> HIDE DEF P
<1>5. \A n \in 0..newHits : W[n] \subseteq P[n]
  BY <1>2, <1>3, LoopStays
<1>6. QED BY <1>11, <1>4, <1>5

\* A respin before its new hits are paid.
spunAgain(preset, state, newHits) ==
  [state EXCEPT !.remaining = IF newHits > 0 THEN preset.initialRespins ELSE @ - 1,
                !.filled = @ + newHits,
                !.respinsUsed = @ + 1]

LEMMA RespinStarts ==
  ASSUME NEW preset \in PresetConfig, NEW stake \in Nat,
         NEW state \in Holds(preset, stake), ~holdEnded(preset, state),
         NEW newHits \in 0..(preset.holdBoardSize - state.filled)
  PROVE  LET spun == spunAgain(preset, state, newHits) IN
         /\ newHits \in Nat /\ spun \in Holds(preset, stake)
         /\ spun.filled = state.filled + newHits /\ spun.payout = state.payout
<1> DEFINE spun == spunAgain(preset, state, newHits)
<1>1. /\ state \in [reverted: {FALSE}, remaining: Int, respinsUsed: Nat, filled: Nat,
                     payout: Nat, jackpotTierHit: Nat, jackpotPayout: Nat]
      /\ state.respinsUsed <= preset.maxRespins
      /\ state.filled <= preset.holdBoardSize
      /\ jackpotFits(preset, stake, state.jackpotTierHit, state.jackpotPayout, state.payout)
  BY DEF Holds
<1>2. /\ preset.holdBoardSize \in Nat /\ preset.initialRespins \in Nat
      /\ preset.maxRespins \in Nat
  BY ConfigFields
<1>3. state.respinsUsed < preset.maxRespins
  BY <1>1, <1>2 DEF holdEnded
<1> DEFINE remaining == IF newHits > 0 THEN preset.initialRespins ELSE state.remaining - 1
           filled == state.filled + newHits
           used == state.respinsUsed + 1
<1>4. /\ remaining \in Int /\ filled \in Nat /\ used \in Nat /\ newHits \in Nat
      /\ filled <= preset.holdBoardSize /\ used <= preset.maxRespins
  <2>1. state.remaining \in Int /\ state.filled \in Nat /\ state.respinsUsed \in Nat
    BY <1>1
  <2>2. QED BY <1>1, <1>2, <1>3, <2>1
<1>5. spun = [state EXCEPT !.remaining = remaining, !.filled = filled, !.respinsUsed = used]
  BY DEF spunAgain
<1>9. filled = state.filled + newHits
  OBVIOUS
<1> HIDE DEF remaining, filled, used, spun
<1>6. /\ spun \in [reverted: {FALSE}, remaining: Int, respinsUsed: Nat, filled: Nat,
                    payout: Nat, jackpotTierHit: Nat, jackpotPayout: Nat]
      /\ spun.respinsUsed = used /\ spun.filled = filled
      /\ spun.jackpotTierHit = state.jackpotTierHit
      /\ spun.jackpotPayout = state.jackpotPayout /\ spun.payout = state.payout
  BY <1>1, <1>4, <1>5
<1>7. spun \in Holds(preset, stake)
  BY <1>1, <1>4, <1>6 DEF Holds
<1>8. QED BY <1>4, <1>6, <1>7, <1>9 DEF spun

LEMMA RespinKeeps ==
  ASSUME NEW preset \in PresetConfig, NEW stake \in Nat, NEW startingEvents \in Nat,
         NEW state \in Holds(preset, stake), ~holdEnded(preset, state)
  PROVE  respin(preset, stake, state, startingEvents)
           \subseteq Holds(preset, stake) \cup {Reverted}
<1> SUFFICES ASSUME NEW newHits \in 0..(preset.holdBoardSize - state.filled)
             PROVE  accumulateHoldHits(preset, stake, spunAgain(preset, state, newHits), newHits)
                      \subseteq Holds(preset, stake)
  BY DEF respin, spunAgain
<1>1. QED BY RespinStarts, HitsKeep

firstHold(preset, initialFilled) ==
  [reverted |-> FALSE, remaining |-> preset.initialRespins, respinsUsed |-> 0,
   filled |-> Min({initialFilled, preset.holdBoardSize}),
   payout |-> 0, jackpotTierHit |-> 0, jackpotPayout |-> 0]

holdRound(preset, stake, startingEvents, state) ==
  IF holdEnded(preset, state) THEN {state} ELSE respin(preset, stake, state, startingEvents)

\* What the first state has and every round keeps, hold and spin ends with.
LEMMA HoldsStay ==
  ASSUME NEW preset \in PresetConfig, NEW stake, NEW startingEvents, NEW initialFilled,
         NEW U, firstHold(preset, initialFilled) \in U,
         \A state \in U : holdRound(preset, stake, startingEvents, state) \subseteq U
  PROVE  resolveHoldAndSpin(preset, stake, startingEvents, initialFilled) \subseteq U
<1> DEFINE N == preset.maxTotalEvents + 1
           first == firstHold(preset, initialFilled)
           step(state) == holdRound(preset, stake, startingEvents, state)
           round(S) == UNION {step(state) : state \in S}
           loop(w) == w = [n \in 0..N |-> IF n = 0 THEN {first} ELSE round(w[n - 1])]
           W == CHOOSE w : loop(w)
<1>1. resolveHoldAndSpin(preset, stake, startingEvents, initialFilled) = W[N]
  BY DEF resolveHoldAndSpin, firstHold, holdRound
<1>2. N \in Nat
  BY ConfigFields
<1>3. \A state \in U : step(state) \in SUBSET U
  OBVIOUS
<1>4. first \in U
  OBVIOUS
<1>5. loop(W)
  <2> DEFINE next == [state \in U |-> step(state)]
  <2>1. next \in [U -> SUBSET U] /\ \A state \in U : next[state] = step(state)
    <3> HIDE DEF step
    <3>1. QED BY <1>3
  <2> HIDE DEF next, first, N
  <2>2. PICK f : isSetLoop(N, U, first, next, f)
    BY <1>2, <1>4, <2>1, LoopOfSets
  <2>3. /\ f \in [0..N -> SUBSET U] /\ f[0] = {first}
        /\ \A n \in 1..N : f[n] = UNION {next[state] : state \in f[n - 1]}
    BY <2>2 DEF isSetLoop
  <2> HIDE DEF step
  <2>4. ASSUME NEW n \in 1..N
        PROVE  f[n] = round(f[n - 1])
    <3>1. f[n - 1] \in SUBSET U
      BY <1>2, <2>3
    <3>2. \A state \in f[n - 1] : next[state] = step(state)
      BY <2>1, <3>1
    <3>3. {next[state] : state \in f[n - 1]} = {step(state) : state \in f[n - 1]}
      BY <3>2
    <3>4. QED BY <2>3, <3>3
  <2> HIDE DEF round
  <2>6. loop(f)
    BY <1>2, <2>3, <2>4
  <2> HIDE DEF loop
  <2>7. QED BY <2>6
<1> HIDE DEF W
<1>6. /\ W[0] = {first}
      /\ \A n \in 1..N : W[n] = round(W[n - 1])
  <2> DEFINE G == [n \in 0..N |-> IF n = 0 THEN {first} ELSE round(W[n - 1])]
  <2> HIDE DEF step, first, round
  <2>1. W = G
    BY <1>5
  <2>2. G[0] = {first} /\ \A n \in 1..N : G[n] = round(W[n - 1])
    BY <1>2
  <2> HIDE DEF G
  <2>3. QED BY <2>1, <2>2
<1> DEFINE P == [n \in 0..N |-> U]
<1>7. \A n \in 0..N : W[n] \subseteq P[n]
  <2> HIDE DEF step, first
  <2>1. W[0] \subseteq P[0]
    BY <1>2, <1>4, <1>6
  <2>2. ASSUME NEW n \in 1..N, W[n - 1] \subseteq P[n - 1]
        PROVE  W[n] \subseteq P[n]
    <3>1. P[n - 1] = U /\ P[n] = U
      BY <1>2
    <3>2. W[n] = UNION {step(state) : state \in W[n - 1]}
      BY <1>6
    <3>3. QED BY <1>3, <2>2, <3>1, <3>2
  <2> HIDE DEF P
  <2>3. QED BY <1>2, <2>1, <2>2, LoopStays
<1>8. N \in 0..N /\ P[N] = U
  BY <1>2
<1> HIDE DEF P
<1>9. QED BY <1>1, <1>7, <1>8

LEMMA FirstHold ==
  ASSUME NEW preset \in PresetConfig, NEW stake \in Nat, NEW initialFilled \in Nat
  PROVE  LET first == firstHold(preset, initialFilled) IN
         /\ first \in Holds(preset, stake) /\ first.payout = 0
         /\ first.filled \in Nat /\ first.filled <= preset.holdBoardSize
<1> DEFINE first == firstHold(preset, initialFilled)
           size == preset.holdBoardSize
           filled == Min({initialFilled, size})
<1>1. size \in Nat /\ preset.initialRespins \in Nat /\ preset.maxRespins \in Nat
  BY ConfigFields
<1>2. filled \in Nat /\ filled <= size
  <2> HIDE DEF size
  <2>1. filled = IF initialFilled <= size THEN initialFilled ELSE size
    BY <1>1, MinMaxOfTwo
  <2> HIDE DEF filled
  <2>2. QED BY <1>1, <2>1
<1> HIDE DEF filled
<1>3. jackpotFits(preset, stake, 0, 0, 0)
  BY DEF jackpotFits
<1>4. first = [reverted |-> FALSE, remaining |-> preset.initialRespins, respinsUsed |-> 0,
               filled |-> filled, payout |-> 0, jackpotTierHit |-> 0, jackpotPayout |-> 0]
  BY DEF filled, firstHold
<1> HIDE DEF first
<1>5. /\ first \in [reverted: {FALSE}, remaining: Int, respinsUsed: Nat, filled: Nat,
                     payout: Nat, jackpotTierHit: Nat, jackpotPayout: Nat]
      /\ first.respinsUsed = 0 /\ first.filled = filled
      /\ first.jackpotTierHit = 0 /\ first.jackpotPayout = 0 /\ first.payout = 0
  BY <1>1, <1>2, <1>4
<1>6. jackpotFits(preset, stake, first.jackpotTierHit, first.jackpotPayout, first.payout)
  BY <1>3, <1>5
<1>7. first.respinsUsed <= preset.maxRespins /\ first.filled <= preset.holdBoardSize
  BY <1>1, <1>2, <1>5
<1>8. first \in Holds(preset, stake)
  BY <1>5, <1>6, <1>7 DEF Holds
<1>9. QED BY <1>2, <1>5, <1>7, <1>8 DEF first

LEMMA HoldsEnd ==
  ASSUME NEW preset \in PresetConfig, NEW stake \in Nat,
         NEW startingEvents \in Nat, NEW initialFilled \in Nat,
         NEW s \in resolveHoldAndSpin(preset, stake, startingEvents, initialFilled),
         s # Reverted
  PROVE  s \in Holds(preset, stake)
<1> DEFINE U == Holds(preset, stake) \cup {Reverted}
<1>1. firstHold(preset, initialFilled) \in U
  BY FirstHold
<1>2. ASSUME NEW state \in U PROVE holdRound(preset, stake, startingEvents, state) \subseteq U
  <2>1. CASE holdEnded(preset, state)
    BY <2>1 DEF holdRound
  <2>2. CASE ~holdEnded(preset, state)
    <3>1. state \in Holds(preset, stake)
      BY <2>2 DEF holdEnded, Reverted
    <3>2. QED BY <2>2, <3>1, RespinKeeps DEF holdRound
  <2>3. QED BY <2>1, <2>2
<1> HIDE DEF U
<1>3. s \in U
  BY <1>1, <1>2, HoldsStay
<1>4. QED BY <1>3 DEF U

-----------------------------------------------------------------------------
(* A whole answer.                                                         *)

resultFits(preset, stake, r) ==
  /\ r.totalPayout \in Nat
  /\ r.totalEventCount = r.freeSpinCount + r.pickRevealCount + r.holdRespinsUsed
  /\ r.freeSpinCount <= Max({preset.freeSpinAwardCounts[1], preset.maxFreeSpins})
  /\ r.freeSpinRetriggersUsed <= preset.maxRetriggers
  /\ r.holdFilledCount <= preset.holdBoardSize
  /\ r.holdRespinsUsed <= preset.maxRespins
  /\ jackpotFits(preset, stake, r.jackpotTierHit, r.jackpotPayout, r.totalPayout)
  /\ r.totalPayout * BPS <= stake * preset.maxPayoutMultiplierBps
  /\ r.totalEventCount <= preset.maxTotalEvents

LEMMA NoFeatures ==
  ASSUME NEW preset \in PresetConfig, NEW stake \in Nat
  PROVE  /\ NoFreeSpins \in FreeSpins(preset) /\ NoFreeSpins.remaining = 0
         /\ NoPickBonus.events \in Nat /\ NoPickBonus.payout \in Nat
         /\ NoHoldAndSpin \in Holds(preset, stake)
<1>1. /\ preset.maxFreeSpins \in Nat /\ preset.maxRetriggers \in Nat
      /\ preset.maxTotalEvents \in Nat
      /\ preset.holdBoardSize \in Nat /\ preset.maxRespins \in Nat
  BY ConfigFields
<1>2. NoFreeSpins \in FreeSpins(preset) /\ NoFreeSpins.remaining = 0
  BY <1>1 DEF FreeSpins, NoFreeSpins
<1>3. NoPickBonus.events \in Nat /\ NoPickBonus.payout \in Nat
  BY DEF NoPickBonus
<1>4. NoHoldAndSpin \in Holds(preset, stake)
  <2>1. jackpotFits(preset, stake, 0, 0, 0)
    BY DEF jackpotFits
  <2>2. /\ NoHoldAndSpin \in [reverted: {FALSE}, remaining: Int, respinsUsed: Nat,
                              filled: Nat, payout: Nat, jackpotTierHit: Nat,
                              jackpotPayout: Nat]
        /\ NoHoldAndSpin.respinsUsed = 0 /\ NoHoldAndSpin.filled = 0
        /\ NoHoldAndSpin.payout = 0 /\ NoHoldAndSpin.jackpotTierHit = 0
        /\ NoHoldAndSpin.jackpotPayout = 0
    BY DEF NoHoldAndSpin
  <2>3. jackpotFits(preset, stake, NoHoldAndSpin.jackpotTierHit,
                    NoHoldAndSpin.jackpotPayout, NoHoldAndSpin.payout)
    BY <2>1, <2>2
  <2>4. /\ NoHoldAndSpin.respinsUsed <= preset.maxRespins
        /\ NoHoldAndSpin.filled <= preset.holdBoardSize
    BY <1>1, <2>2
  <2>5. QED BY <2>2, <2>3, <2>4 DEF Holds
<1>5. QED BY <1>2, <1>3, <1>4

LEMMA CapInBps ==
  ASSUME NEW a \in Nat, NEW k \in Nat, k <= a \div BPS
  PROVE  k * BPS <= a
  BY DEF BPS

LEMMA ResultFits ==
  ASSUME NEW preset \in PresetConfig, preset.freeSpinAwardCounts # <<>>,
         NEW stake \in Nat, NEW base \in GridOutcome,
         NEW free \in FreeSpins(preset), free.remaining = 0,
         NEW pick, pick.events \in Nat, pick.payout \in Nat,
         NEW hold \in Holds(preset, stake),
         NEW r, r = spinResult(preset, stake, base, free, pick, hold), r # Reverted
  PROVE  resultFits(preset, stake, r)
<1> DEFINE events == free.events + pick.events + hold.respinsUsed
           payout == base.payout + free.payout + pick.payout + hold.payout
           cap == stake * preset.maxPayoutMultiplierBps
<1>1. /\ preset.maxFreeSpins \in Nat /\ preset.maxTotalEvents \in Nat
      /\ preset.maxPayoutMultiplierBps \in Nat
  BY ConfigFields
<1>2. /\ free.awarded \in Nat /\ free.events \in Nat /\ free.payout \in Nat
      /\ free.awarded = free.events
      /\ free.awarded <= preset.freeSpinAwardCounts[1] \/ free.awarded <= preset.maxFreeSpins
      /\ free.retriggersUsed <= preset.maxRetriggers
  BY DEF FreeSpins
<1>3. /\ hold.respinsUsed \in Nat /\ hold.payout \in Nat
      /\ hold.jackpotTierHit \in Nat /\ hold.jackpotPayout \in Nat
      /\ hold.respinsUsed <= preset.maxRespins
      /\ hold.filled <= preset.holdBoardSize
      /\ jackpotFits(preset, stake, hold.jackpotTierHit, hold.jackpotPayout, hold.payout)
  BY DEF Holds
<1>4. base.payout \in Nat
  BY DEF GridOutcome
<1>5. events \in Nat /\ payout \in Nat /\ payout >= hold.payout
  <2> DEFINE a == base.payout
             b == free.payout
             c == pick.payout
             d == hold.payout
             x == free.events
             y == pick.events
             z == hold.respinsUsed
  <2>1. /\ a \in Nat /\ b \in Nat /\ c \in Nat /\ d \in Nat
        /\ x \in Nat /\ y \in Nat /\ z \in Nat
    BY <1>2, <1>3, <1>4
  <2>2. events = x + y + z /\ payout = a + b + c + d
    OBVIOUS
  <2> HIDE DEF a, b, c, d, x, y, z, events, payout
  <2>3. events \in Nat /\ payout \in Nat /\ payout >= d
    BY <2>1, <2>2
  <2>4. QED BY <2>3 DEF d
<1>6. /\ ~(events > preset.maxTotalEvents \/ payout > cap \div BPS)
      /\ r = [reverted |-> FALSE,
              freeSpinCount |-> free.awarded,
              freeSpinRetriggersUsed |-> free.retriggersUsed,
              pickRevealCount |-> pick.events,
              holdFilledCount |-> hold.filled,
              holdRespinsUsed |-> hold.respinsUsed,
              jackpotTierHit |-> hold.jackpotTierHit,
              jackpotPayout |-> hold.jackpotPayout,
              totalEventCount |-> events,
              totalPayout |-> payout]
  BY Zenon DEF spinResult
<1>7. events = free.awarded + pick.events + hold.respinsUsed
  BY <1>2
<1> HIDE DEF events, payout
<1>8. /\ r.freeSpinCount = free.awarded
      /\ r.freeSpinRetriggersUsed = free.retriggersUsed
      /\ r.pickRevealCount = pick.events
      /\ r.holdFilledCount = hold.filled
      /\ r.holdRespinsUsed = hold.respinsUsed
      /\ r.jackpotTierHit = hold.jackpotTierHit
      /\ r.jackpotPayout = hold.jackpotPayout
      /\ r.totalEventCount = events
      /\ r.totalPayout = payout
  BY <1>6
<1>9. r.freeSpinCount <= Max({preset.freeSpinAwardCounts[1], preset.maxFreeSpins})
  <2> DEFINE awards == preset.freeSpinAwardCounts
             a == awards[1]
             b == preset.maxFreeSpins
             c == free.awarded
  <2>1. a \in Nat
    <3>1. awards \in Seq(Nat) /\ awards # <<>>
      BY ConfigFields
    <3> HIDE DEF awards
    <3>2. 1 \in DOMAIN awards
      BY <3>1
    <3>3. QED BY <3>1, <3>2
  <2>2. b \in Nat /\ c \in Nat /\ (c <= a \/ c <= b)
    BY <1>1, <1>2
  <2> HIDE DEF a, b, c
  <2>3. Max({a, b}) = IF a <= b THEN b ELSE a
    <3>1. a \in Int /\ b \in Int
      BY <2>1, <2>2
    <3>2. QED BY <3>1, MinMaxOfTwo
  <2>4. c <= Max({a, b})
    BY <2>1, <2>2, <2>3
  <2>5. QED BY <1>8, <2>4 DEF a, b, c
<1>10. r.totalPayout * BPS <= stake * preset.maxPayoutMultiplierBps
  <2>1. cap \in Nat
    BY <1>1
  <2>2. payout <= cap \div BPS
    <3>1. cap \div BPS \in Nat
      <4> HIDE DEF cap
      <4>1. QED BY <2>1, QuotientIsNatural DEF BPS
    <3> HIDE DEF cap
    <3>2. QED BY <1>5, <1>6, <3>1
  <2>3. payout * BPS <= cap
    <3> HIDE DEF cap
    <3>1. QED BY <1>5, <2>1, <2>2, CapInBps
  <2>4. QED BY <1>8, <2>3
<1>11. jackpotFits(preset, stake, r.jackpotTierHit, r.jackpotPayout, r.totalPayout)
  <2>1. hold.jackpotPayout <= payout
    BY <1>3, <1>5 DEF jackpotFits
  <2>2. jackpotFits(preset, stake, hold.jackpotTierHit, hold.jackpotPayout, payout)
    BY <1>3, <2>1 DEF jackpotFits
  <2>3. QED BY <1>8, <2>2
<1>12. r.totalEventCount <= preset.maxTotalEvents
  BY <1>1, <1>5, <1>6, <1>8
<1>13. r.totalEventCount = r.freeSpinCount + r.pickRevealCount + r.holdRespinsUsed
  BY <1>7, <1>8
<1>14. QED
  BY <1>2, <1>3, <1>5, <1>8, <1>9, <1>10, <1>11, <1>12, <1>13 DEF resultFits

LEMMA ResolutionsFit ==
  ASSUME NEW preset \in PresetConfig, preset.freeSpinAwardCounts # <<>>,
         NEW stake \in Nat, NEW r \in resolutions(preset, stake), r # Reverted
  PROVE  resultFits(preset, stake, r)
<1> DEFINE grids == gridOutcomes(preset, stake)
           freeSpins == resolveFreeSpins(preset, grids, 0)
           frees(base) == IF atLeast(base.scatters, preset.freeSpinTriggerCount)
                          THEN freeSpins ELSE {NoFreeSpins}
           draws(base, free) ==
             IF atLeast(base.bonuses, preset.pickTriggerCount)
             THEN resolvePickBonus(preset, stake, free.events) ELSE {NoPickBonus}
           holds(base, events) ==
             IF atLeast(base.fills, preset.holdTriggerCount)
             THEN resolveHoldAndSpin(preset, stake, events, base.fills)
             ELSE {NoHoldAndSpin}
           result(base, free, pick, hold) ==
             IF hold.reverted THEN Reverted
             ELSE spinResult(preset, stake, base, free, pick, hold)
           afterPick(base, free, pick) ==
             IF pick.reverted THEN {Reverted}
             ELSE {result(base, free, pick, hold) : hold \in holds(base, free.events + pick.events)}
           afterFree(base, free) ==
             IF free.reverted THEN {Reverted}
             ELSE UNION {afterPick(base, free, pick) : pick \in draws(base, free)}
<1>1. r \in UNION {UNION {afterFree(base, free) : free \in frees(base)} : base \in grids}
  BY Zenon DEF resolutions
<1>2. PICK base \in grids : r \in UNION {afterFree(base, free) : free \in frees(base)}
  <2> HIDE DEF afterFree, frees, grids
  <2>1. QED BY <1>1
<1>3. PICK free \in frees(base) : r \in afterFree(base, free)
  <2> HIDE DEF afterFree, frees
  <2>1. QED BY <1>2
<1>4. ~free.reverted /\ r \in UNION {afterPick(base, free, pick) : pick \in draws(base, free)}
  <2> HIDE DEF afterPick, draws
  <2>1. QED BY <1>3
<1>5. PICK pick \in draws(base, free) : r \in afterPick(base, free, pick)
  <2> HIDE DEF afterPick, draws
  <2>1. QED BY <1>4
<1> DEFINE events == free.events + pick.events
<1>6. ~pick.reverted
      /\ r \in {result(base, free, pick, hold) : hold \in holds(base, events)}
  <2> HIDE DEF result, holds
  <2>1. QED BY <1>5
<1>7. PICK hold \in holds(base, events) : r = result(base, free, pick, hold)
  <2> HIDE DEF result, holds
  <2>1. QED BY <1>6
<1>8. ~hold.reverted /\ r = spinResult(preset, stake, base, free, pick, hold)
  BY <1>7
<1>9. free # Reverted /\ pick # Reverted /\ hold # Reverted
  BY <1>4, <1>6, <1>8 DEF Reverted
<1>10. grids \in SUBSET GridOutcome /\ base \in GridOutcome /\ base.fills \in Nat
  <2>1. grids \in SUBSET GridOutcome /\ base \in GridOutcome
    BY <1>2, GridsAreNatural
  <2>2. QED BY <2>1 DEF GridOutcome
<1>11. free \in FreeSpins(preset) /\ free.remaining = 0
  <2>1. CASE free = NoFreeSpins
    BY <2>1, NoFeatures
  <2>2. CASE free \in freeSpins
    <3> HIDE DEF grids
    <3>1. QED BY <1>9, <1>10, <2>2, FreeSpinsEnd
  <2>3. QED BY <1>3, <2>1, <2>2
<1>12. free.events \in Nat
  BY <1>11 DEF FreeSpins
<1>13. pick.events \in Nat /\ pick.payout \in Nat
  <2>1. CASE pick = NoPickBonus
    BY <2>1, NoFeatures
  <2>2. CASE pick \in resolvePickBonus(preset, stake, free.events)
    BY <1>9, <1>12, <2>2, PicksAreNatural
  <2>3. QED BY <1>5, <2>1, <2>2
<1>14. hold \in Holds(preset, stake)
  <2>1. CASE hold = NoHoldAndSpin
    BY <2>1, NoFeatures
  <2>2. CASE hold \in resolveHoldAndSpin(preset, stake, events, base.fills)
    <3>1. events \in Nat
      BY <1>12, <1>13
    <3> HIDE DEF events
    <3>2. QED BY <1>9, <1>10, <2>2, <3>1, HoldsEnd
  <2>3. QED BY <1>7, <2>1, <2>2
<1>15. QED BY <1>8, <1>10, <1>11, <1>13, <1>14, ResultFits

-----------------------------------------------------------------------------
(* Then what spins do to balances.  Every request is a spin, which is paid *)
(* and settled as it is made, on a preset that never changes.              *)

Presets == {config \in PresetConfigs : validatePreset(config)}

LEMMA PresetIsConfig ==
  ASSUME NEW preset \in Presets
  PROVE  preset \in PresetConfig /\ preset.freeSpinAwardCounts # <<>>
  BY SlotAssumption DEF Presets, validatePreset

LEMMA DrawnFits ==
  ASSUME NEW seeds \in Resolutions, NEW r \in seeds.results, ~r.reverted
  PROVE  seeds.stake \in Nat /\ resultFits(seeds.config, seeds.stake, r)
<1>1. PICK preset \in Presets, stake \in Wagers :
        seeds = [config |-> preset, stake |-> stake, results |-> resolutions(preset, stake)]
  BY DEF Resolutions, Presets
<1>2. stake \in Nat /\ seeds.stake = stake /\ seeds.config = preset
      /\ r \in resolutions(preset, stake)
  BY <1>1, SoloAssumption
<1>3. r # Reverted
  BY DEF Reverted
<1>4. QED BY <1>2, <1>3, PresetIsConfig, ResolutionsFit

\* A spin's stake and payout, as the sums over requests take them.
receipts == [id \in RequestIds |->
               [wager |-> spins[id].stake, payout |-> spins[id].result.totalPayout]]

SlotTypes ==
  /\ requestCounter \in 0..MaxRequests
  /\ sessionSettled \in [SoloControllers -> [RequestIds -> BOOLEAN]]
  /\ presets \in Seq(Presets)
  /\ DOMAIN spins = RequestIds

SpinsInv ==
  \A id \in RequestIds :
    /\ sessionSettled[slotController][id] <=> spins[id].player # Nobody
    /\ spins[id].player # Nobody =>
         /\ spins[id].stake \in Nat
         /\ spins[id].presetId \in DOMAIN presets
         /\ resultFits(presets[spins[id].presetId], spins[id].stake, spins[id].result)

SpinMoney(p) ==
  token.balance[p] + staked(receipts, played(p)) =
    InitialBalance + paid(receipts, played(p)) + claims(p)

SlotInv ==
  /\ SettlementInv /\ SlotTypes /\ SpinsInv
  /\ \A p \in Players : SpinMoney(p)

LEMMA SlotConstants ==
  /\ slotController \in SoloControllers /\ slotController \in Controllers
  /\ MaxRequests \in Nat /\ Wagers \subseteq Nat /\ Nobody \notin Players
  /\ InitialBalance \in Nat
<1>1. Nobody \notin Players /\ InitialBalance \in Nat
  BY SettlementAssumption
<1>2. QED BY <1>1, SlotAssumption, SoloAssumption

LEMMA PlayedReceipts ==
  ASSUME SlotInv, NEW p \in Players
  PROVE  /\ played(p) = {id \in RequestIds : spins[id].player = p}
         /\ \A id \in played(p) : receipts[id].wager \in Nat /\ receipts[id].payout \in Nat
<1>1. played(p) = {id \in RequestIds : spins[id].player = p}
  BY SlotConstants DEF played, sessions
<1>2. ASSUME NEW id \in played(p)
      PROVE  receipts[id].wager \in Nat /\ receipts[id].payout \in Nat
  <2>1. id \in RequestIds /\ spins[id].player # Nobody
    BY DEF played, sessions
  <2>2. spins[id].stake \in Nat /\ spins[id].result.totalPayout \in Nat
    BY <2>1 DEF SlotInv, SpinsInv, resultFits
  <2>3. QED BY <2>1, <2>2 DEF receipts
<1>3. QED BY <1>1, <1>2

LEMMA SpinPartsAreNatural ==
  ASSUME SlotInv, NEW p \in Players
  PROVE  /\ token.balance[p] \in Nat /\ claims(p) \in Nat /\ InitialBalance \in Nat
         /\ staked(receipts, played(p)) \in Nat /\ paid(receipts, played(p)) \in Nat
<1>1. token.balance[p] \in Nat
  BY DEF SlotInv, SettlementInv, LedgerInv, Token!Ledger, Accounts
<1>2. claims(p) \in Nat
  BY DEF SlotInv, SettlementInv, RewardsInv, RewardsTypeOK, claims
<1>3. /\ played(p) \in SUBSET RequestIds
      /\ \A id \in played(p) : receipts[id].wager \in Nat /\ receipts[id].payout \in Nat
  BY PlayedReceipts
<1>4. QED BY <1>1, <1>2, <1>3, SumsAreNatural, SlotConstants

\* A step that plays no spin: presets are appended to, balances follow claims.
LEMMA NoSpinKeepsInv ==
  ASSUME SlotInv, SettlementInv', OutsideStep,
         UNCHANGED <<requestCounter, sessionSettled, spins>>,
         presets' \in Seq(Presets), DOMAIN presets \subseteq DOMAIN presets',
         \A i \in DOMAIN presets : presets'[i] = presets[i]
  PROVE  SlotInv'
<1>1. SlotTypes'
  BY DEF SlotInv, SlotTypes
<1>2. SpinsInv'
  BY DEF SlotInv, SpinsInv
<1>3. ASSUME NEW p \in Players PROVE SpinMoney(p)'
  <2>1. /\ staked(receipts, played(p))' = staked(receipts, played(p))
        /\ paid(receipts, played(p))' = paid(receipts, played(p))
    BY DEF staked, paid, receipts, played, sessions
  <2>2. token'.balance[p] - claims(p)' = token.balance[p] - claims(p)
    <3>1. token.balance[p] \in Nat /\ p \in Accounts
      BY SpinPartsAreNatural DEF Accounts
    <3>2. /\ claimMinted \in [Developers -> Nat] /\ claimMinted' \in [Developers -> Nat]
      BY DEF SlotInv, SettlementInv, RewardsInv, RewardsTypeOK
    <3>3. token'.balance[p] = token.balance[p]
            + (IF p \in Developers THEN claimMinted'[p] - claimMinted[p] ELSE 0)
      BY <3>1 DEF OutsideStep
    <3>4. QED BY <3>1, <3>2, <3>3 DEF claims
  <2>3. token'.balance[p] \in Nat /\ claims(p)' \in Nat
    BY DEF SettlementInv, LedgerInv, Token!Ledger, Accounts, RewardsInv,
           RewardsTypeOK, claims
  <2> DEFINE burned == staked(receipts, played(p))
             won == paid(receipts, played(p))
             before == token.balance[p]
             after == token'.balance[p]
             claimed == claims(p)
             claimedThen == claims(p)'
  <2>4. /\ burned' = burned /\ won' = won /\ burned \in Nat /\ won \in Nat
        /\ token.balance[p] \in Nat /\ claims(p) \in Nat /\ InitialBalance \in Nat
        /\ token.balance[p] + burned = InitialBalance + won + claims(p)
    BY <2>1, SpinPartsAreNatural DEF SlotInv, SpinMoney
  <2>5. after + burned = InitialBalance + won + claimedThen
    <3>1. /\ before \in Nat /\ claimed \in Nat
          /\ before + burned = InitialBalance + won + claimed
      BY <2>4
    <3>2. after \in Nat /\ claimedThen \in Nat
      BY <2>3
    <3>3. after - claimedThen = before - claimed
      BY <2>2
    <3>4. burned \in Nat /\ won \in Nat /\ InitialBalance \in Nat
      BY <2>4
    <3> HIDE DEF before, after, claimed, claimedThen, burned, won
    <3>5. QED BY <3>1, <3>2, <3>3, <3>4
  <2>6. after + burned' = InitialBalance + won' + claimedThen
    <3> HIDE DEF burned, won, after, claimedThen
    <3>1. QED BY <2>4, <2>5
  <2>7. QED BY <2>6 DEF SpinMoney
<1>4. QED BY <1>1, <1>2, <1>3 DEF SlotInv

LEMMA StillIsOutside ==
  ASSUME SlotInv, UNCHANGED protocolVars
  PROVE  SettlementInv' /\ OutsideStep
<1>1. UNCHANGED <<token, catalogVars, registryVars, rewardsVars>>
  BY DEF protocolVars
<1>2. /\ CatalogInv' /\ RegistryInv' /\ RewardsInv' /\ RatesKept
      /\ UNCHANGED <<claimMinted, epochAccrual, controllerModuleIds>>
  BY <1>1, SameCatalog, SameRegistry, SameRewards DEF SlotInv, SettlementInv, RatesKept
<1>3. SettlementInv'
  BY <1>1, <1>2 DEF SlotInv, SettlementInv, LedgerInv
<1>4. MovesNothing
  BY <1>1, <1>2 DEF MovesNothing, RatesKept
<1>5. QED BY <1>3, <1>4, MovesNothingIsOutside DEF SlotInv

LEMMA ManageKeepsInv ==
  ASSUME SlotInv, Manage
  PROVE  SlotInv'
<1>1. /\ UNCHANGED protocolVars /\ UNCHANGED <<requestCounter, sessionSettled, spins>>
  BY DEF Manage, registerPreset, setPresetActive, soloVars
<1>2. SettlementInv' /\ OutsideStep
  BY <1>1, StillIsOutside
<1>3. presets \in Seq(Presets)
  BY DEF SlotInv, SlotTypes
<1>4. \/ presets' = presets
      \/ \E config \in Presets : presets' = Append(presets, config)
  BY DEF Manage, registerPreset, setPresetActive, Presets
<1>5. /\ presets' \in Seq(Presets) /\ DOMAIN presets \subseteq DOMAIN presets'
      /\ \A i \in DOMAIN presets : presets'[i] = presets[i]
  BY <1>3, <1>4
<1>6. QED BY <1>1, <1>2, <1>5, NoSpinKeepsInv

LEMMA InitSlotInv == SlotInit => SlotInv
<1> SUFFICES ASSUME SlotInit PROVE SlotInv
  OBVIOUS
<1>1. SettlementInv
  BY InitSettlementInv DEF SlotInit
<1>2. /\ requestCounter = 0
      /\ sessionSettled = [c \in SoloControllers |-> [id \in RequestIds |-> FALSE]]
      /\ presets = <<>>
      /\ spins = [id \in RequestIds |-> NoSpin]
  BY DEF SlotInit, SoloInit
<1>3. SlotTypes
  BY <1>2, SlotConstants DEF SlotTypes
<1>4. SpinsInv
  BY <1>2, SlotConstants DEF SpinsInv, NoSpin
<1>5. ASSUME NEW p \in Players PROVE SpinMoney(p)
  <2>1. token.balance[p] = InitialBalance /\ claims(p) = 0
    BY DEF SlotInit, ProtocolInit, RewardsInit, Accounts, claims
  <2>2. played(p) = {}
    BY <1>2, SlotConstants DEF played, sessions, NoSpin
  <2>3. staked(receipts, {}) = 0 /\ paid(receipts, {}) = 0
    BY EmptySums
  <2>4. QED BY <2>1, <2>2, <2>3, SlotConstants DEF SpinMoney
<1>6. QED BY <1>1, <1>3, <1>4, <1>5 DEF SlotInv

\* One spin: the stake is burned, the payout minted, the session settled.
LEMMA SpinKeepsInv ==
  ASSUME SlotInv, NEW player \in Players, NEW presetId \in DOMAIN presets, NEW y,
         NEW stake \in Nat, NEW result,
         resultFits(presets[presetId], stake, result),
         spin(player, stake, presetId, y, result)
  PROVE  SlotInv'
<1> DEFINE n == requestCounter + 1
           played1 == [player |-> player, presetId |-> presetId, stake |-> stake,
                       result |-> result]
           payout == result.totalPayout
           spent == burnPlayerWager(token, player, stake)
<1>1. /\ canBurnPlayerWager(slotController, player, stake)
      /\ requestCounter < MaxRequests /\ requestCounter' = n
      /\ spins' = [spins EXCEPT ![n] = played1]
      /\ presets' = presets
      /\ UNCHANGED <<catalogVars, registryVars>>
      /\ ~sessionSettled[slotController][n]
      /\ sessionSettled' = [sessionSettled EXCEPT ![slotController][n] = TRUE]
      /\ token' = mintPlayerReward(spent, spins'[n].player, spins'[n].result.totalPayout)
      /\ \E x : accrueDeveloperForExpression(slotController, x, spins'[n].stake)
  <2>1. /\ canBurnPlayerWager(slotController, player, stake)
        /\ requestSpin(player, stake, presetId, result)
        /\ finalizeSpin(n, spent)
        /\ UNCHANGED <<catalogVars, registryVars>>
    BY DEF spin, nextRequestId
  <2>2. /\ requestCounter < MaxRequests /\ requestCounter' = n
        /\ spins' = [spins EXCEPT ![n] = played1]
        /\ presets' = presets
    BY <2>1 DEF requestSpin, requestRandomWords, nextRequestId
  <2> HIDE DEF n, spent, played1
  <2>3. /\ ~sessionSettled[slotController][n]
        /\ sessionSettled' = [sessionSettled EXCEPT ![slotController][n] = TRUE]
        /\ token' = mintPlayerReward(spent, spins'[n].player, spins'[n].result.totalPayout)
        /\ \E x : accrueDeveloperForExpression(slotController, x, spins'[n].stake)
    BY <2>1 DEF finalizeSpin, markSettled, mintAndAccrue
  <2>4. QED BY <2>1, <2>2, <2>3
<1>2. /\ player \in Accounts /\ player # Nobody /\ payout \in Nat
      /\ n \in RequestIds /\ requestCounter \in Nat
  BY <1>1, SlotConstants DEF SlotInv, SlotTypes, Accounts, RequestIds, resultFits
<1>3. spins[n].player = Nobody
  BY <1>1, <1>2 DEF SlotInv, SpinsInv
<1>4. /\ played1.player = player /\ played1.presetId = presetId
      /\ played1.stake = stake /\ played1.result = result
  OBVIOUS
<1> HIDE DEF played1, spent
<1>5. /\ DOMAIN spins' = RequestIds /\ spins'[n] = played1
      /\ \A id \in RequestIds \ {n} : spins'[id] = spins[id]
  BY <1>1, <1>2 DEF SlotInv, SlotTypes
<1>6. /\ token' = mintPlayerReward(spent, player, payout)
      /\ \E x : accrueDeveloperForExpression(slotController, x, stake)
  BY <1>1, <1>4, <1>5
<1>7. /\ sessionSettled'[slotController][n]
      /\ \A id \in RequestIds \ {n} : sessionSettled'[slotController][id]
                                     = sessionSettled[slotController][id]
      /\ SlotTypes'
  <2>1. requestCounter' \in 0..MaxRequests
    BY <1>1, <1>2, SlotConstants
  <2>2. QED BY <1>1, <1>2, <1>5, <2>1, SlotConstants DEF SlotInv, SlotTypes
<1>8. /\ LedgerInv(spent)
      /\ spent.balance = [token.balance EXCEPT ![player] = token.balance[player] - stake]
  BY <1>1, <1>2, BurnKeepsLedger DEF canBurnPlayerWager, SlotInv, SettlementInv, spent
<1>9. /\ SettlementInv'
      /\ token'.balance = [spent.balance EXCEPT ![player] = spent.balance[player] + payout]
      /\ claimMinted' = claimMinted
  <2>1. PICK x : accrueDeveloperForExpression(slotController, x, stake)
    BY <1>6
  <2>2. SettlementInv /\ UNCHANGED <<catalogVars, registryVars>>
    BY <1>1 DEF SlotInv
  <2> HIDE DEF payout
  <2>3. QED BY <1>2, <1>6, <1>8, <2>1, <2>2, SlotConstants, PaymentKeepsSettlement
<1>10. SpinsInv'
  <2> SUFFICES ASSUME NEW id \in RequestIds
               PROVE  SpinsInv!(id)'
    BY DEF SpinsInv
  <2>1. CASE id = n
    <3>1. /\ spins'[id].player = player /\ spins'[id].stake = stake
          /\ spins'[id].presetId = presetId /\ spins'[id].result = result
          /\ sessionSettled'[slotController][id] /\ presets' = presets
      BY <1>1, <1>4, <1>5, <1>7, <2>1
    <3>2. QED BY <1>2, <3>1
  <2>2. CASE id # n
    BY <1>1, <1>5, <1>7, <2>2 DEF SlotInv, SpinsInv
  <2>3. QED BY <2>1, <2>2
<1>11. ASSUME NEW p \in Players
       PROVE  SpinMoney(p)'
  <2> DEFINE R == played(p)
  <2>1. /\ R = {id \in RequestIds : spins[id].player = p}
        /\ played(p)' = {id \in RequestIds : spins'[id].player = p}
        /\ claims(p)' = claims(p)
    <3>1. R = {id \in RequestIds : spins[id].player = p}
      BY PlayedReceipts
    <3>2. played(p)' = {id \in RequestIds : spins'[id].player = p}
      BY SlotConstants DEF played, sessions
    <3>3. QED BY <1>9, <3>1, <3>2 DEF claims
  <2>2. /\ R \in SUBSET RequestIds /\ n \in RequestIds \ R
        /\ \A id \in R : receipts'[id] = receipts[id]
        /\ \A id \in R : receipts'[id].wager \in Nat /\ receipts'[id].payout \in Nat
        /\ receipts'[n].wager = stake /\ receipts'[n].payout = payout
    <3>1. R \in SUBSET RequestIds /\ n \in RequestIds \ R
      BY <1>2, <1>3, <2>1, SlotConstants
    <3>2. \A id \in R : receipts'[id] = receipts[id]
      BY <1>5, <3>1 DEF receipts
    <3>3. \A id \in R : receipts[id].wager \in Nat /\ receipts[id].payout \in Nat
      BY PlayedReceipts
    <3>4. receipts'[n].wager = stake /\ receipts'[n].payout = payout
      BY <1>2, <1>4, <1>5 DEF receipts
    <3>5. QED BY <3>1, <3>2, <3>3, <3>4
  <2>3. /\ staked(receipts', R) = staked(receipts, R)
        /\ paid(receipts', R) = paid(receipts, R)
    BY <2>2, StakedSame, PaidSame
  <2>4. token.balance \in [Accounts -> Nat] /\ p \in Accounts
    BY DEF SlotInv, SettlementInv, LedgerInv, Token!Ledger, Accounts
  <2> DEFINE burned == staked(receipts, played(p))
             won == paid(receipts, played(p))
             before == token.balance[p]
             after == token'.balance[p]
             claimed == claims(p)
  <2>5. /\ burned \in Nat /\ won \in Nat /\ before \in Nat /\ claimed \in Nat
        /\ InitialBalance \in Nat
        /\ before + burned = InitialBalance + won + claimed
    BY SpinPartsAreNatural DEF SlotInv, SpinMoney
  <2>6. CASE p = player
    <3>1. played(p)' = R \cup {n}
      BY <1>2, <1>4, <1>5, <2>1, <2>6
    <3>2. \A id \in R \cup {n} : /\ receipts'[id].wager \in Nat
                                /\ receipts'[id].payout \in Nat
      BY <1>2, <2>2
    <3>3. /\ staked(receipts, played(p))' = staked(receipts, R) + stake
          /\ paid(receipts, played(p))' = paid(receipts, R) + payout
      <4> HIDE DEF R, n, payout
      <4>1. staked(receipts', R \cup {n}) = staked(receipts', R) + receipts'[n].wager
        BY <2>2, <3>2, StakedMore
      <4>2. paid(receipts', R \cup {n}) = paid(receipts', R) + receipts'[n].payout
        BY <2>2, <3>2, PaidMore
      <4>3. /\ staked(receipts', R \cup {n}) = staked(receipts, R) + stake
            /\ paid(receipts', R \cup {n}) = paid(receipts, R) + payout
        BY <2>2, <2>3, <4>1, <4>2
      <4>4. QED BY <3>1, <4>3 DEF staked, paid
    <3>4. after = before - stake + payout
      BY <1>2, <1>8, <1>9, <2>4, <2>6
    <3> HIDE DEF burned, won, before, after, claimed, payout
    <3>5. after + (burned + stake) = InitialBalance + (won + payout) + claimed
      BY <1>2, <2>5, <3>4
    <3>6. QED BY <2>1, <3>3, <3>5 DEF SpinMoney, burned, won, after, claimed
  <2>7. CASE p # player
    <3>1. played(p)' = R
      BY <1>2, <1>3, <1>4, <1>5, <2>1, <2>7, SlotConstants
    <3>2. /\ staked(receipts, played(p))' = staked(receipts, R)
          /\ paid(receipts, played(p))' = paid(receipts, R)
      BY <2>3, <3>1 DEF staked, paid
    <3>3. after = before
      BY <1>2, <1>8, <1>9, <2>4, <2>7
    <3>4. QED BY <2>1, <2>5, <3>2, <3>3 DEF SpinMoney
  <2>8. QED BY <2>6, <2>7
<1>12. QED BY <1>7, <1>9, <1>10, <1>11 DEF SlotInv

LEMMA StepSlotInv == SlotInv /\ [SlotNext]_spinVars => SlotInv'
<1> SUFFICES ASSUME SlotInv, [SlotNext]_spinVars PROVE SlotInv'
  OBVIOUS
<1>1. CASE Manage
  BY <1>1, ManageKeepsInv
<1>2. CASE Spins
  <2>1. PICK player \in Players, presetId \in DOMAIN presets, x \in ExpressionChoices,
             seeds \in Resolutions :
          /\ seeds.config = presets[presetId]
          /\ \E result \in seeds.results : spin(player, seeds.stake, presetId, x, result)
    BY <1>2 DEF Spins
  <2>2. PICK result \in seeds.results : spin(player, seeds.stake, presetId, x, result)
    BY <2>1
  <2>3. ~result.reverted
    BY <2>2 DEF spin, requestSpin
  <2>4. seeds.stake \in Nat /\ resultFits(presets[presetId], seeds.stake, result)
    BY <2>1, <2>3, DrawnFits
  <2>5. QED BY <2>2, <2>4, SpinKeepsInv
<1>3. CASE ProtocolNext /\ UNCHANGED <<soloVars, slotVars>>
  <2>1. SettlementInv' /\ OutsideStep
    BY <1>3, OutsideStepsKeepSettlement DEF SlotInv
  <2>2. UNCHANGED <<requestCounter, sessionSettled, spins>> /\ presets' = presets
        /\ presets \in Seq(Presets)
    BY <1>3 DEF soloVars, slotVars, SlotInv, SlotTypes
  <2>3. QED BY <2>1, <2>2, NoSpinKeepsInv
<1>4. CASE UNCHANGED spinVars
  <2>1. UNCHANGED protocolVars /\ UNCHANGED <<requestCounter, sessionSettled, spins>>
        /\ presets' = presets /\ presets \in Seq(Presets)
    BY <1>4 DEF spinVars, soloVars, slotVars, SlotInv, SlotTypes
  <2>2. SettlementInv' /\ OutsideStep
    BY <2>1, StillIsOutside
  <2>3. QED BY <2>1, <2>2, NoSpinKeepsInv
<1>5. QED BY <1>1, <1>2, <1>3, <1>4 DEF SlotNext

LEMMA InvExplainsSpins == SlotInv => SpinsExplained
<1> SUFFICES ASSUME SlotInv PROVE SpinsExplained
  OBVIOUS
<1>1. Token!SupplyHeld(token)
  BY DEF SlotInv, SettlementInv, LedgerInv
<1>2. sessions = {id \in RequestIds : sessionSettled[slotController][id]}
  BY DEF SlotInv, SpinsInv, sessions
<1>3. ASSUME NEW p \in Players
      PROVE  token.balance[p] + SumFunction([id \in played(p) |-> spins[id].stake]) =
               InitialBalance
                 + SumFunction([id \in played(p) |-> spins[id].result.totalPayout])
                 + (IF p \in Developers THEN claimMinted[p] ELSE 0)
  <2>1. played(p) \subseteq RequestIds
    BY DEF played, sessions
  <2>2. /\ [id \in played(p) |-> receipts[id].wager] = [id \in played(p) |-> spins[id].stake]
        /\ [id \in played(p) |-> receipts[id].payout]
             = [id \in played(p) |-> spins[id].result.totalPayout]
    BY <2>1 DEF receipts
  <2>3. QED BY <2>2 DEF SlotInv, SpinMoney, staked, paid, claims
<1>4. ASSUME NEW id \in sessions
      PROVE  resultFits(presets[spins[id].presetId], spins[id].stake, spins[id].result)
  BY DEF SlotInv, SpinsInv, sessions
<1>5. QED BY <1>1, <1>2, <1>3, <1>4 DEF SpinsExplained, resultFits, jackpotFits

\* Whatever presets managers register and switch, and whatever a seed resolves a
\* spin to, SlotMachineController burns each stake and pays each result once, and
\* SlotMachineEngine's result fits the preset the spin was played on.
THEOREM SpinsPaidOnce == SlotSpec => []SpinsExplained
  BY InitSlotInv, StepSlotInv, InvExplainsSpins, PTL DEF SlotSpec

-----------------------------------------------------------------------------
(* Presets whose caps cover their features answer every seed.  First, what *)
(* the most is that a spin of the reels pays.                              *)

\* The numbers of a finite function have a greatest, no more than their sum.
LEMMA GreatestValue ==
  ASSUME NEW S, IsFiniteSet(S), NEW f \in [S -> Nat], NEW M \in SUBSET Nat, M # {},
         M \subseteq Range(f)
  PROVE  Max(M) \in M /\ Max(M) \in Nat /\ \A j \in M : j <= Max(M)
<1>1. DOMAIN f = S /\ \A x \in DOMAIN f : f[x] \in Nat
  OBVIOUS
<1>2. SumFunction(f) \in Nat /\ \A x \in S : f[x] <= SumFunction(f)
  BY <1>1, SumOfNats
<1>3. M \in SUBSET (0..SumFunction(f))
  <2> DEFINE N == SumFunction(f)
  <2>1. N \in Nat /\ \A x \in S : f[x] \in 0..N
    BY <1>2
  <2> HIDE DEF N
  <2>2. QED BY <1>1, <2>1 DEF Range, N
<1>4. QED BY <1>2, <1>3, GreatestNumber

LEMMA AllWaysNatural ==
  ASSUME NEW preset \in PresetConfig
  PROVE  allWays(preset) \in Nat
<1> DEFINE N == preset.reelCount
           c == preset.rowCount
           cs == [n \in 1..N |-> c]
<1>1. N \in Nat /\ c \in Nat
  BY ConfigFields
<1>2. PICK v : isProduct(N, cs, v) /\ allWays(preset) = v[N]
  BY AllWays
<1> HIDE DEF N, c
<1>3. cs \in [1..N -> Nat]
  BY <1>1
<1> HIDE DEF cs
<1>4. v[N] \in Nat
  BY <1>1, <1>2, <1>3, ProductIsNatural
<1>5. QED BY <1>2, <1>4

\* the paytable's multipliers together
LEMMA PaytableIsNatural ==
  ASSUME NEW preset \in PresetConfig
  PROVE  LET multipliers == [i \in DOMAIN preset.paytable |-> preset.paytable[i].multiplierBps]
         IN  /\ IsFiniteSet(DOMAIN preset.paytable)
             /\ \A i \in DOMAIN preset.paytable : preset.paytable[i].multiplierBps \in Nat
             /\ SumFunction(multipliers) \in Nat
<1> DEFINE Entry == [symbol: Nat, matchCount: Nat, multiplierBps: Nat]
           table == preset.paytable
           m == [i \in DOMAIN table |-> table[i].multiplierBps]
<1>1. table \in Seq(Entry)
  BY ConfigFields
<1>2. \A x \in Entry : x.multiplierBps \in Nat
  OBVIOUS
<1> HIDE DEF Entry, table
<1>3. DOMAIN table = 1..Len(table) /\ Len(table) \in Nat
      /\ \A i \in DOMAIN table : table[i] \in Entry
  BY <1>1
<1>4. IsFiniteSet(DOMAIN table) /\ \A i \in DOMAIN table : table[i].multiplierBps \in Nat
  BY <1>2, <1>3, PrefixesAreFinite
<1>5. DOMAIN m = DOMAIN table /\ \A i \in DOMAIN m : m[i] \in Nat
  BY <1>4
<1> HIDE DEF m
<1>6. SumFunction(m) \in Nat
  BY <1>4, <1>5, SumOfNats
<1>7. QED BY <1>4, <1>6 DEF m, table

\* floors of shares add up to no more than the share of what they are shares of
LEMMA SharesWithin ==
  ASSUME NEW S, IsFiniteSet(S), NEW f, NEW g, DOMAIN f = S, DOMAIN g = S, NEW c \in Nat,
         \A i \in S : f[i] \in Nat /\ g[i] \in Nat /\ BPS * f[i] <= c * g[i]
  PROVE  BPS * SumFunction(f) <= c * SumFunction(g)
<1> DEFINE h == [i \in S |-> BPS * f[i]]
           k == [i \in S |-> c * g[i]]
<1>1. BPS \in Nat
  BY DEF BPS
<1>2. \A i \in S : /\ h[i] = BPS * f[i] /\ k[i] = c * g[i]
                   /\ h[i] \in Int /\ k[i] \in Int /\ h[i] <= k[i]
                   /\ f[i] \in Int /\ g[i] \in Int
  BY <1>1
<1> HIDE DEF h, k
<1>3. SumFunctionOnSet(h, S) <= SumFunctionOnSet(k, S)
  BY <1>2, SumOrdered
<1>4. SumFunctionOnSet(h, S) = BPS * SumFunctionOnSet(f, S)
  BY <1>1, <1>2, SumScaled
<1>5. SumFunctionOnSet(k, S) = c * SumFunctionOnSet(g, S)
  BY <1>2, SumScaled
<1>6. QED BY <1>3, <1>4, <1>5 DEF SumFunction

\* The ways of a grid pay no more than every way of every entry.
LEMMA WaysPayWithin ==
  ASSUME NEW preset \in PresetConfig, preset.rowCount # 0, NEW stake \in Nat, NEW grid
  PROVE  /\ mostWays(preset) \in Nat
         /\ BPS * evaluateWays(preset, stake, grid) <= stake * mostWays(preset)
<1> DEFINE D == DOMAIN preset.paytable
           entry(i) == preset.paytable[i]
           ways(i) == countWays(preset, grid, entry(i).symbol)
           pays(i) == IF ways(i).matches >= entry(i).matchCount /\ ways(i).waysCount > 0
                        THEN (stake * entry(i).multiplierBps * ways(i).waysCount) \div BPS
                        ELSE 0
           f == [i \in D |-> pays(i)]
           m == [i \in D |-> entry(i).multiplierBps]
           A == allWays(preset)
           c == stake * A
<1>1. evaluateWays(preset, stake, grid) = SumFunction(f)
  BY DEF evaluateWays
<1>2. mostWays(preset) = A * SumFunction(m)
  BY DEF mostWays
<1>3. /\ IsFiniteSet(D) /\ SumFunction(m) \in Nat
      /\ \A i \in D : entry(i).multiplierBps \in Nat
  BY PaytableIsNatural
<1>4. A \in Nat /\ c \in Nat
  <2>1. A \in Nat
    BY AllWaysNatural
  <2> HIDE DEF A
  <2>2. QED BY <2>1
<1>5. ASSUME NEW i \in D PROVE pays(i) \in Nat /\ BPS * pays(i) <= c * entry(i).multiplierBps
  <2> DEFINE w == ways(i).waysCount
             b == entry(i).multiplierBps
             x == stake * b * w
  <2>1. w \in Nat /\ b \in Nat /\ w <= A
    BY <1>3, WaysAreNatural
  <2>2. pays(i) = x \div BPS \/ pays(i) = 0
    OBVIOUS
  <2>3. x \in Nat /\ x <= c * b /\ c * b \in Nat
    <3> HIDE DEF w, b, A
    <3>1. stake * b \in Nat
      BY <2>1
    <3>2. (stake * b) * w <= (stake * b) * A
      BY <1>4, <2>1, <3>1, ProductOrdered
    <3>3. (stake * b) * A = c * b
      BY <1>4, <2>1
    <3>4. x \in Nat /\ c * b \in Nat
      BY <1>4, <2>1, <3>1
    <3>5. QED BY <3>2, <3>3, <3>4
  <2> HIDE DEF x, w, b, c, pays
  <2>4. x \div BPS \in Nat /\ BPS * (x \div BPS) <= x
    BY <2>3, QuotientBounds DEF BPS
  <2>5. BPS * 0 <= c * b
    BY <2>3 DEF BPS
  <2>6. BPS * pays(i) <= c * b /\ pays(i) \in Nat
    <3>1. CASE pays(i) = 0
      BY <2>5, <3>1
    <3>2. CASE pays(i) = x \div BPS
      <4> DEFINE q == x \div BPS
      <4>1. q \in Nat /\ BPS * q <= x /\ pays(i) = q
        BY <2>4, <3>2
      <4> HIDE DEF q
      <4>2. QED BY <2>3, <4>1 DEF BPS
    <3>3. QED BY <2>2, <3>1, <3>2
  <2>7. QED BY <2>6 DEF b
<1>6. \A i \in D : f[i] \in Nat /\ m[i] \in Nat /\ BPS * f[i] <= c * m[i]
  <2> HIDE DEF pays, c
  <2>1. QED BY <1>3, <1>5
<1>7. BPS * SumFunction(f) <= c * SumFunction(m)
  <2> HIDE DEF c, pays, entry
  <2>1. DOMAIN f = D /\ DOMAIN m = D
    OBVIOUS
  <2> HIDE DEF f, m, D
  <2>2. QED BY <1>3, <1>4, <1>6, <2>1, SharesWithin
<1> HIDE DEF f, m, A
<1>8. c * SumFunction(m) = stake * (A * SumFunction(m)) /\ A * SumFunction(m) \in Nat
  <2> DEFINE s == SumFunction(m)
  <2>1. s \in Nat
    BY <1>3
  <2> HIDE DEF s
  <2>2. (stake * A) * s = stake * (A * s) /\ A * s \in Nat
    BY <1>4, <2>1
  <2>3. QED BY <2>2 DEF s
<1>9. QED BY <1>1, <1>2, <1>7, <1>8

-----------------------------------------------------------------------------
(* Free spins of a preset whose caps cover them.                           *)

\* A preset that was validated.
isPreset(preset) == preset \in PresetConfig /\ validatePreset(preset)

\* A share of what is a share of w.
LEMMA ShareOfShare ==
  ASSUME NEW a \in Nat, NEW m \in Nat, NEW w \in Nat, BPS * a <= w
  PROVE  (a * m) \div BPS \in Nat /\ BPS * (BPS * ((a * m) \div BPS)) <= w * m
<1> DEFINE q == (a * m) \div BPS
<1>1. a * m \in Nat
  OBVIOUS
<1>2. q \in Nat /\ BPS * q <= a * m
  <2> DEFINE x == a * m
  <2>1. x \in Nat
    BY <1>1
  <2> HIDE DEF x
  <2>2. x \div BPS \in Nat /\ BPS * (x \div BPS) <= x
    BY <2>1, QuotientBounds DEF BPS
  <2>3. QED BY <2>2 DEF x
<1> HIDE DEF q
<1>3. (BPS * a) * m <= w * m
  <2> DEFINE x == BPS * a
  <2>1. x \in Nat /\ x <= w
    BY DEF BPS
  <2> HIDE DEF x
  <2>2. x * m <= w * m
    BY <2>1, ProductOrdered
  <2>3. QED BY <2>2 DEF x
<1>4. BPS * (BPS * q) <= BPS * (a * m)
  BY <1>1, <1>2 DEF BPS
<1>5. (BPS * a) * m = BPS * (a * m)
  BY DEF BPS
<1>6. w * m \in Nat
  OBVIOUS
<1>7. BPS * (BPS * q) <= w * m
  <2> DEFINE x == a * m
             y == w * m
  <2>1. x \in Nat /\ y \in Nat /\ BPS * (BPS * q) <= BPS * x /\ BPS * x <= y
    BY <1>1, <1>3, <1>4, <1>5, <1>6
  <2> HIDE DEF x, y
  <2>2. BPS * (BPS * q) <= y
    BY <1>2, <2>1 DEF BPS
  <2>3. QED BY <2>2 DEF y
<1>8. QED BY <1>2, <1>7 DEF q

LEMMA MostFreeSpins ==
  ASSUME NEW preset, isPreset(preset)
  PROVE  /\ mostFreeSpins(preset) \in Nat
         /\ preset.freeSpinTriggerCount # 0 =>
              /\ preset.freeSpinAwardCounts[1] <= mostFreeSpins(preset)
              /\ preset.maxFreeSpins <= mostFreeSpins(preset)
<1> DEFINE awards == preset.freeSpinAwardCounts
           a == awards[1]
           b == preset.maxFreeSpins
<1>1. b \in Nat /\ awards \in Seq(Nat) /\ awards # <<>>
  BY ConfigFields DEF isPreset, validatePreset
<1>2. a \in Nat
  <2> HIDE DEF awards
  <2>1. 1 \in DOMAIN awards
    BY <1>1
  <2>2. QED BY <1>1, <2>1
<1>3. mostFreeSpins(preset) = IF preset.freeSpinTriggerCount = 0 THEN 0 ELSE Max({a, b})
  BY DEF mostFreeSpins
<1>4. Max({a, b}) = IF a <= b THEN b ELSE a
  <2> HIDE DEF awards
  <2>1. a \in Int /\ b \in Int
    BY <1>1, <1>2
  <2> HIDE DEF a, b
  <2>2. QED BY <2>1, MinMaxOfTwo
<1>5. /\ mostFreeSpins(preset) \in Nat
      /\ preset.freeSpinTriggerCount # 0 =>
           a <= mostFreeSpins(preset) /\ b <= mostFreeSpins(preset)
  <2> DEFINE k == preset.freeSpinTriggerCount
  <2> HIDE DEF a, b, k
  <2>1. mostFreeSpins(preset) = IF k = 0 THEN 0 ELSE IF a <= b THEN b ELSE a
    BY <1>3, <1>4 DEF k
  <2>2. QED BY <1>1, <1>2, <2>1 DEF k
<1>6. QED BY <1>5

\* what a free spin pays at most, in BPS of BPS
freeSpinMost(preset, stake) == (stake * mostWays(preset)) * preset.freeSpinMultiplierBps

coveredFreeSpins(preset, stake) ==
  {s \in FreeSpins(preset) : BPS * (BPS * s.payout) <= s.events * freeSpinMost(preset, stake)}

\* The values of a sequence of naturals have a greatest.
LEMMA GreatestOfSequence ==
  ASSUME NEW s \in Seq(Nat), s # <<>>
  PROVE  /\ Max(Range(s)) \in Nat
         /\ \A x \in Range(s) : x \in Nat /\ x <= Max(Range(s))
<1>1. s \in [1..Len(s) -> Nat] /\ Len(s) \in Nat /\ 1 \in 1..Len(s)
  OBVIOUS
<1>2. IsFiniteSet(1..Len(s))
  BY <1>1, PrefixesAreFinite
<1>3. Range(s) \in SUBSET Nat /\ Range(s) # {}
  BY <1>1 DEF Range
<1>4. QED BY <1>1, <1>2, <1>3, GreatestValue

\* A factor that is a share of w gives a product that is a share of w's.
LEMMA ProductFits ==
  ASSUME NEW a \in Nat, NEW m \in Nat, NEW w \in Nat, BPS * a <= w,
         w * m <= BPS * MaxUint
  PROVE  a * m <= MaxUint
<1>1. (BPS * a) * m <= w * m
  <2> DEFINE x == BPS * a
  <2>1. x \in Nat /\ x <= w
    BY DEF BPS
  <2> HIDE DEF x
  <2>2. x * m <= w * m
    BY <2>1, ProductOrdered
  <2>3. QED BY <2>2 DEF x
<1>2. (BPS * a) * m = BPS * (a * m)
  BY DEF BPS
<1> DEFINE p == a * m
           r == w * m
<1>3. p \in Nat /\ r \in Nat /\ BPS * p <= r /\ r <= BPS * MaxUint
  BY <1>1, <1>2
<1> HIDE DEF p, r
<1>4. p <= MaxUint
  BY <1>3, MaxUintAssumption DEF BPS
<1>5. QED BY <1>4 DEF p

\* The largest award can be added whenever a retrigger is looked up.
LEMMA RetriggerFits ==
  ASSUME NEW preset, isPreset(preset), NEW stake \in Nat, numbersFit(preset, stake),
         preset.freeSpinTriggerCount # 0,
         NEW state \in FreeSpins(preset), state.retriggersUsed < preset.maxRetriggers,
         state.awarded < preset.maxFreeSpins,
         NEW grid \in GridOutcome, grid.scatters >= preset.freeSpinTriggerCount
  PROVE  ~retriggerOverflows(preset, state.awarded, grid.scatters)
<1> DEFINE awards == preset.freeSpinAwardCounts
           more == lookupFreeSpinCount(preset, grid.scatters)
           largest == Max(Range(awards))
           a == state.awarded
           top == preset.maxFreeSpins
<1>1. /\ preset \in PresetConfig /\ awards \in Seq(Nat) /\ awards # <<>>
      /\ top \in Nat /\ preset.maxRetriggers \in Nat
  BY ConfigFields DEF isPreset, validatePreset
<1>2. a \in Nat /\ a < top /\ preset.maxRetriggers > 0
  BY <1>1 DEF FreeSpins
<1>3. largest + top - 1 <= MAX_UINT8
  BY <1>2 DEF numbersFit
<1>4. more \in Range(awards)
  <2>1. grid.scatters \in Nat
    BY DEF GridOutcome
  <2> HIDE DEF awards, more
  <2>2. QED BY <1>1, <2>1, LookupIsNatural DEF awards, more
<1>5. largest \in Nat /\ more \in Nat /\ more <= largest
  <2> HIDE DEF awards, more
  <2>1. largest \in Nat /\ \A x \in Range(awards) : x \in Nat /\ x <= largest
    BY <1>1, GreatestOfSequence
  <2> HIDE DEF largest
  <2>2. QED BY <1>4, <2>1
<1> HIDE DEF more, largest, a, top
<1>6. ~(a + more > MAX_UINT8)
  BY <1>1, <1>2, <1>3, <1>5 DEF MAX_UINT8
<1>7. QED BY <1>6 DEF retriggerOverflows, a, more

LEMMA FreeSpinCovered ==
  ASSUME NEW preset, isPreset(preset), NEW stake \in Nat, mostWays(preset) \in Nat,
         preset.freeSpinTriggerCount # 0, mostFreeSpins(preset) <= preset.maxTotalEvents,
         numbersFit(preset, stake), freeSpinMost(preset, stake) <= BPS * MaxUint,
         NEW state \in coveredFreeSpins(preset, stake), state.remaining # 0,
         NEW grid \in GridOutcome, BPS * grid.payout <= stake * mostWays(preset)
  PROVE  freeSpin(preset, state, 0, grid) \in coveredFreeSpins(preset, stake)
<1> DEFINE spun == freeSpin(preset, state, 0, grid)
           q == (grid.payout * preset.freeSpinMultiplierBps) \div BPS
           w == stake * mostWays(preset)
           K == freeSpinMost(preset, stake)
<1>1. /\ preset \in PresetConfig /\ preset.freeSpinAwardCounts # <<>>
      /\ preset.freeSpinMultiplierBps \in Nat /\ preset.maxTotalEvents \in Nat
      /\ preset.maxFreeSpins \in Nat
  BY ConfigFields DEF isPreset, validatePreset
<1>2. /\ state \in FreeSpins(preset) /\ state.payout \in Nat /\ state.events \in Nat
      /\ state.remaining \in Nat /\ state.awarded \in Nat
      /\ state.awarded = state.remaining + state.events
      /\ state.awarded <= preset.freeSpinAwardCounts[1] \/ state.awarded <= preset.maxFreeSpins
      /\ BPS * (BPS * state.payout) <= state.events * K
  BY DEF coveredFreeSpins, FreeSpins
<1>3. /\ mostFreeSpins(preset) \in Nat
      /\ preset.freeSpinAwardCounts[1] <= mostFreeSpins(preset)
      /\ preset.maxFreeSpins <= mostFreeSpins(preset)
  BY MostFreeSpins
<1>4. preset.freeSpinAwardCounts[1] \in Nat
  <2> DEFINE awards == preset.freeSpinAwardCounts
  <2>1. awards \in Seq(Nat) /\ awards # <<>>
    BY <1>1, ConfigFields
  <2> HIDE DEF awards
  <2>2. 1 \in DOMAIN awards
    BY <2>1
  <2>3. awards[1] \in Nat
    BY <2>1, <2>2
  <2>4. QED BY <2>3 DEF awards
<1>5. ~(0 + state.events >= preset.maxTotalEvents)
  <2> DEFINE e == state.events
             r == state.remaining
             a == state.awarded
             cap == preset.maxTotalEvents
             most == mostFreeSpins(preset)
             x == preset.freeSpinAwardCounts[1]
             y == preset.maxFreeSpins
  <2>1. /\ e \in Nat /\ r \in Nat /\ a \in Nat /\ cap \in Nat /\ most \in Nat /\ x \in Nat /\ y \in Nat
        /\ r # 0 /\ a = r + e /\ (a <= x \/ a <= y) /\ x <= most /\ y <= most /\ most <= cap
    BY <1>1, <1>2, <1>3, <1>4
  <2> HIDE DEF e, r, a, cap, most, x, y
  <2>2. ~(0 + e >= cap)
    BY <2>1
  <2>3. QED BY <2>2 DEF e, cap
<1>14. w \in Nat /\ grid.payout \in Nat
  <2> DEFINE x == mostWays(preset)
  <2>1. x \in Nat
    OBVIOUS
  <2> HIDE DEF x
  <2>2. stake * x \in Nat
    BY <2>1
  <2>3. grid.payout \in Nat
    BY DEF GridOutcome
  <2>4. QED BY <2>2, <2>3 DEF x
<1>15. ~(grid.payout * preset.freeSpinMultiplierBps > MaxUint)
  <2> DEFINE a == grid.payout
             m == preset.freeSpinMultiplierBps
  <2>1. a \in Nat /\ m \in Nat /\ BPS * a <= w /\ w * m <= BPS * MaxUint
    BY <1>1, <1>14 DEF freeSpinMost
  <2> HIDE DEF a, m, w
  <2>2. a * m <= MaxUint
    BY <1>14, <2>1, ProductFits
  <2>3. a * m \in Nat
    BY <2>1
  <2>4. ~(a * m > MaxUint)
    BY <2>2, <2>3, MaxUintAssumption
  <2>5. QED BY <2>4 DEF a, m
<1>16. ~(/\ grid.scatters >= preset.freeSpinTriggerCount
         /\ state.retriggersUsed < preset.maxRetriggers
         /\ state.awarded < preset.maxFreeSpins
         /\ retriggerOverflows(preset, state.awarded, grid.scatters))
  BY <1>1, <1>2, RetriggerFits
<1>6. spun.reverted = FALSE /\ spun.payout = state.payout + q
  BY <1>5, <1>15, <1>16 DEF freeSpin
<1>7. spun # Reverted
  BY <1>6 DEF Reverted
<1>8. spun \in FreeSpins(preset) /\ spun.events = state.events + 1
  <2> HIDE DEF spun
  <2>1. 0 \in Nat /\ spun = freeSpin(preset, state, 0, grid)
    BY DEF spun
  <2>2. QED BY <1>1, <1>2, <1>7, <2>1, FreeSpinKeeps
<1> HIDE DEF spun
<1>9. w \in Nat /\ grid.payout \in Nat
  BY <1>14
<1>10. q \in Nat /\ BPS * (BPS * q) <= K /\ K \in Nat
  <2> DEFINE a == grid.payout
             m == preset.freeSpinMultiplierBps
  <2>1. a \in Nat /\ m \in Nat /\ BPS * a <= w /\ K = w * m
    BY <1>1, <1>9 DEF freeSpinMost
  <2> HIDE DEF w, K
  <2>2. (a * m) \div BPS \in Nat /\ BPS * (BPS * ((a * m) \div BPS)) <= w * m
    <3> HIDE DEF a, m
    <3>1. QED BY <1>9, <2>1, ShareOfShare
  <2>3. w * m \in Nat
    <3> HIDE DEF m
    <3>1. QED BY <1>9, <2>1
  <2>4. QED BY <2>1, <2>2, <2>3
<1>11. BPS * (BPS * spun.payout) <= spun.events * K
  <2> DEFINE p == state.payout
             e == state.events
  <2>1. p \in Nat /\ e \in Nat /\ spun.payout = p + q /\ spun.events = e + 1
        /\ BPS * (BPS * p) <= e * K
    BY <1>2, <1>6, <1>8
  <2> HIDE DEF p, e, q, K
  <2>2. BPS * (BPS * (p + q)) = BPS * (BPS * p) + BPS * (BPS * q)
    BY <1>10, <2>1 DEF BPS
  <2>3. (e + 1) * K = e * K + K /\ e * K \in Nat
    BY <1>10, <2>1
  <2>4. BPS * (BPS * (p + q)) <= (e + 1) * K
    <3> DEFINE x == e * K
    <3>1. x \in Nat /\ BPS * (BPS * p) <= x /\ (e + 1) * K = x + K
      BY <2>1, <2>3
    <3> HIDE DEF x
    <3>2. BPS * (BPS * p) + BPS * (BPS * q) <= x + K
      BY <1>10, <2>1, <3>1 DEF BPS
    <3>3. QED BY <2>2, <3>1, <3>2
  <2>5. QED BY <2>1, <2>4
<1>12. spun \in coveredFreeSpins(preset, stake)
  BY <1>8, <1>11 DEF coveredFreeSpins
<1>13. QED BY <1>12 DEF spun

\* No seed reverts in the free spins, and they pay within their bound.
LEMMA FreeSpinsCovered ==
  ASSUME NEW preset, isPreset(preset), NEW stake \in Nat, mostWays(preset) \in Nat,
         preset.freeSpinTriggerCount # 0, mostFreeSpins(preset) <= preset.maxTotalEvents,
         numbersFit(preset, stake), freeSpinMost(preset, stake) <= BPS * MaxUint,
         NEW grids \in SUBSET GridOutcome,
         \A grid \in grids : BPS * grid.payout <= stake * mostWays(preset)
  PROVE  resolveFreeSpins(preset, grids, 0) \subseteq coveredFreeSpins(preset, stake)
<1> DEFINE U == coveredFreeSpins(preset, stake)
           award == lookupFreeSpinCount(preset, preset.freeSpinTriggerCount)
           first == firstFreeSpins(preset)
<1>1. /\ preset \in PresetConfig /\ preset.freeSpinAwardCounts # <<>>
      /\ preset.maxTotalEvents \in Nat /\ preset.freeSpinTriggerCount \in Nat
      /\ preset.maxRetriggers \in Nat /\ preset.maxFreeSpins \in Nat
      /\ preset.freeSpinMultiplierBps \in Nat
  BY ConfigFields DEF isPreset, validatePreset
<1>2. first \in FreeSpins(preset) /\ first.events = 0 /\ first.payout = 0
  <2>1. award \in Nat /\ award = preset.freeSpinAwardCounts[1]
    BY <1>1, LookupIsNatural
  <2>2. first = [reverted |-> FALSE, awarded |-> award, remaining |-> award,
                 retriggersUsed |-> 0, payout |-> 0, events |-> 0]
    BY DEF firstFreeSpins
  <2> HIDE DEF award, first
  <2>3. QED BY <1>1, <2>1, <2>2 DEF FreeSpins
<1>3. freeSpinMost(preset, stake) \in Nat
  <2> DEFINE x == mostWays(preset)
             m == preset.freeSpinMultiplierBps
  <2>1. x \in Nat /\ m \in Nat
    BY <1>1
  <2> HIDE DEF x, m
  <2>2. (stake * x) * m \in Nat
    BY <2>1
  <2>3. QED BY <2>2 DEF x, m, freeSpinMost
<1>4. first \in U
  <2> DEFINE K == freeSpinMost(preset, stake)
  <2>1. K \in Nat
    BY <1>3
  <2> HIDE DEF K
  <2>2. BPS * (BPS * 0) <= 0 * K
    BY <2>1 DEF BPS
  <2>3. QED BY <1>2, <2>2 DEF K, coveredFreeSpins
<1>5. ASSUME NEW state \in U PROVE freeSpinRound(preset, grids, 0, state) \subseteq U
  <2>1. state.reverted = FALSE
    BY DEF coveredFreeSpins, FreeSpins
  <2>2. CASE state.remaining = 0
    BY <2>2 DEF freeSpinRound
  <2>3. CASE state.remaining # 0
    <3>1. freeSpinRound(preset, grids, 0, state) = {freeSpin(preset, state, 0, grid) : grid \in grids}
      BY <2>1, <2>3 DEF freeSpinRound
    <3>2. \A grid \in grids : freeSpin(preset, state, 0, grid) \in U
      BY <2>3, FreeSpinCovered
    <3> HIDE DEF U
    <3>3. QED BY <3>1, <3>2
  <2>4. QED BY <2>2, <2>3
<1> HIDE DEF U
<1>6. QED BY <1>1, <1>4, <1>5, FreeSpinsStay DEF U

-----------------------------------------------------------------------------
(* Picks and hits of a preset whose caps cover them.                       *)

\* A share of stake k is worth no more than a larger share.
LEMMA ShareWithin ==
  ASSUME NEW stake \in Nat, NEW k \in Nat, NEW most \in Nat, k <= most
  PROVE  (stake * k) \div BPS \in Nat /\ BPS * ((stake * k) \div BPS) <= stake * most
<1> DEFINE x == stake * k
           y == stake * most
<1>1. x \in Nat /\ y \in Nat /\ x <= y
  BY ProductOrdered
<1> HIDE DEF x, y
<1>2. x \div BPS \in Nat /\ BPS * (x \div BPS) <= x
  BY <1>1, QuotientBounds DEF BPS
<1>3. BPS * (x \div BPS) <= y
  <2> DEFINE q == x \div BPS
  <2>1. q \in Nat /\ BPS * q <= x
    BY <1>2
  <2> HIDE DEF q
  <2>2. BPS * q <= y
    BY <1>1, <2>1 DEF BPS
  <2>3. QED BY <2>2 DEF q
<1>4. QED BY <1>2, <1>3 DEF x, y

LEMMA PicksCovered ==
  ASSUME NEW preset, isPreset(preset), NEW stake \in Nat, NEW startingEvents \in Nat,
         startingEvents + preset.maxPickReveals <= preset.maxTotalEvents,
         NEW pick \in resolvePickBonus(preset, stake, startingEvents)
  PROVE  /\ pick.reverted = FALSE /\ pick.events = preset.maxPickReveals
         /\ pick.payout \in Nat /\ Max(Range(preset.pickAwardMultiplierBps)) \in Nat
         /\ BPS * pick.payout
              <= preset.maxPickReveals * (stake * Max(Range(preset.pickAwardMultiplierBps)))
<1> DEFINE awards == preset.pickAwardMultiplierBps
           n == preset.maxPickReveals
           best == Max(Range(awards))
<1>1. n \in Nat /\ preset.maxTotalEvents \in Nat /\ awards \in Seq(Nat) /\ awards # <<>>
  BY ConfigFields DEF isPreset, validatePreset
<1>2. best \in Nat /\ \A x \in Range(awards) : x \in Nat /\ x <= best
  <2> HIDE DEF awards
  <2>1. QED BY <1>1, GreatestOfSequence
<1>3. ~(startingEvents + n > preset.maxTotalEvents)
  BY <1>1
<1>4. PICK draws \in [1..n -> Range(awards)] :
        pick = [reverted |-> FALSE, events |-> n,
                payout |-> SumFunction([i \in DOMAIN draws |-> (stake * draws[i]) \div BPS])]
  BY <1>3 DEF resolvePickBonus
<1> DEFINE prizes == [i \in DOMAIN draws |-> (stake * draws[i]) \div BPS]
           ones == [i \in 1..n |-> 1]
           c == stake * best
<1> HIDE DEF awards, n, best
<1>5. DOMAIN prizes = 1..n /\ IsFiniteSet(1..n) /\ DOMAIN ones = 1..n
  BY <1>1, <1>4, PrefixesAreFinite
<1>6. c \in Nat
  BY <1>2
<1>7. ASSUME NEW i \in 1..n
      PROVE  prizes[i] \in Nat /\ ones[i] = 1 /\ BPS * prizes[i] <= c * ones[i]
  <2> DEFINE k == draws[i]
  <2>1. k \in Nat /\ k <= best
    BY <1>2, <1>4
  <2>2. prizes[i] = (stake * k) \div BPS
    BY <1>5
  <2> HIDE DEF k, prizes
  <2>3. prizes[i] \in Nat /\ BPS * prizes[i] <= c
    BY <1>2, <2>1, <2>2, ShareWithin
  <2>4. ones[i] = 1 /\ c * 1 = c
    BY <1>6
  <2>5. QED BY <2>3, <2>4
<1> HIDE DEF prizes, ones, c
<1>8. BPS * SumFunction(prizes) <= c * SumFunction(ones)
  <2>1. \A i \in 1..n : prizes[i] \in Nat /\ ones[i] \in Nat /\ BPS * prizes[i] <= c * ones[i]
    BY <1>7
  <2> DEFINE S == 1..n
  <2>2. /\ IsFiniteSet(S) /\ DOMAIN prizes = S /\ DOMAIN ones = S
        /\ \A i \in S : prizes[i] \in Nat /\ ones[i] \in Nat /\ BPS * prizes[i] <= c * ones[i]
    BY <1>5, <2>1
  <2> HIDE DEF S
  <2>3. QED BY <1>6, <2>2, SharesWithin
<1>9. SumFunction(ones) = n
  <2>1. SumFunctionOnSet(ones, 1..n) = 1 * Cardinality(1..n)
    <3> DEFINE S == 1..n
    <3>1. IsFiniteSet(S) /\ \A i \in S : ones[i] = 1
      BY <1>5, <1>7
    <3> HIDE DEF S
    <3>2. SumFunctionOnSet(ones, S) = 1 * Cardinality(S)
      BY <3>1, SumOfConstant
    <3>3. QED BY <3>2 DEF S
  <2>2. Cardinality(1..n) = n
    <3>1. Cardinality(1..n) = IF 1 > n THEN 0 ELSE n - 1 + 1
      BY <1>1, FS_Interval
    <3>2. QED BY <1>1, <3>1
  <2>3. QED BY <1>1, <1>5, <2>1, <2>2 DEF SumFunction
<1>10. SumFunction(prizes) \in Nat
  BY <1>5, <1>7, SumOfNats
<1>11. /\ pick.reverted = FALSE /\ pick.events = n /\ pick.payout = SumFunction(prizes)
  BY <1>4 DEF prizes
<1>12. c * n = n * c
  BY <1>1, <1>6
<1>13. /\ pick.reverted = FALSE /\ pick.events = n /\ pick.payout \in Nat /\ best \in Nat
       /\ BPS * pick.payout <= n * c
  BY <1>2, <1>8, <1>9, <1>10, <1>11, <1>12
<1>14. QED BY <1>13 DEF n, best, c, awards

\* The best hit is a natural number that no hit exceeds.
LEMMA BestHit ==
  ASSUME NEW preset, isPreset(preset)
  PROVE  /\ bestHit(preset) \in Nat
         /\ \A bps \in Range(preset.holdValueMultiplierBps) : bps \in Nat /\ bps <= bestHit(preset)
         /\ \A tier \in Range(preset.jackpotTiers) :
              tier.awardMultiplierBps \in Nat /\ tier.awardMultiplierBps <= bestHit(preset)
<1> DEFINE Tier == [tierId: Nat, awardMultiplierBps: Nat, weight: Nat]
           tiers == preset.jackpotTiers
           values == preset.holdValueMultiplierBps
           A == 1..Len(values)
           B == 1..Len(tiers)
           V == Range(values)
           J == {tier.awardMultiplierBps : tier \in Range(tiers)}
           top == [j \in B |-> tiers[j].awardMultiplierBps]
<1>1. /\ tiers \in Seq(Tier) /\ values \in Seq(Nat) /\ values # <<>>
  BY ConfigFields DEF isPreset, validatePreset
<1>2. bestHit(preset) = Max(V \cup J)
  BY DEF bestHit
<1> HIDE DEF values
<1>3. Max(V) \in Nat /\ V # {} /\ \A x \in V : x \in Nat /\ x <= Max(V)
  <2>1. V # {}
    <3>1. 1 \in DOMAIN values
      BY <1>1
    <3>2. QED BY <3>1 DEF Range
  <2>2. QED BY <1>1, <2>1, GreatestOfSequence
<1>4. /\ \A x \in Tier : x.awardMultiplierBps \in Nat
  OBVIOUS
<1> HIDE DEF Tier, tiers
<1>5. /\ DOMAIN tiers = B /\ Len(tiers) \in Nat
      /\ \A j \in B : tiers[j] \in Tier
  BY <1>1
<1>6. IsFiniteSet(B) /\ DOMAIN top = B /\ \A j \in B : top[j] \in Nat
  BY <1>4, <1>5, PrefixesAreFinite
<1>7. J = {top[j] : j \in B}
  BY <1>5 DEF Range
<1>8. SumFunction(top) \in Nat /\ \A j \in B : top[j] <= SumFunction(top)
  <2> HIDE DEF top
  <2>1. QED BY <1>6, SumOfNats
<1> DEFINE a == Max(V)
           b == SumFunction(top)
           N == a + b
<1>9. a \in Nat /\ b \in Nat
  BY <1>3, <1>8
<1>10. \A x \in V : x \in Nat /\ x <= a
  BY <1>3
<1>11. \A x \in J : x \in Nat /\ x <= b
  <2> HIDE DEF top
  <2>1. QED BY <1>6, <1>7, <1>8
<1> HIDE DEF a, b, V, J, top
<1>12. N \in Nat /\ V \cup J \in SUBSET (0..N) /\ V \cup J # {}
  BY <1>3, <1>9, <1>10, <1>11
<1> HIDE DEF N
<1>13. Max(V \cup J) \in V \cup J /\ \A x \in V \cup J : x <= Max(V \cup J)
  BY <1>12, GreatestNumber
<1>14. Max(V \cup J) \in Nat
  BY <1>12, <1>13
<1>15. \A tier \in Range(tiers) : tier.awardMultiplierBps \in J
  BY DEF J
<1>16. QED BY <1>2, <1>10, <1>11, <1>13, <1>14, <1>15 DEF V, tiers, values

LEMMA HitCovered ==
  ASSUME NEW preset, isPreset(preset), NEW stake \in Nat,
         NEW value \in drawHoldValue(preset, stake)
  PROVE  value.payout \in Nat /\ BPS * value.payout <= stake * bestHit(preset)
<1> DEFINE best == bestHit(preset)
           values == preset.holdValueMultiplierBps
           tiers == preset.jackpotTiers
<1>1. /\ best \in Nat
      /\ \A bps \in Range(values) : bps \in Nat /\ bps <= best
      /\ \A tier \in Range(tiers) :
           tier.awardMultiplierBps \in Nat /\ tier.awardMultiplierBps <= best
  BY BestHit
<1>2. CASE \E bps \in Range(values) : value = [payout |-> (stake * bps) \div BPS, tier |-> 0]
  <2>1. PICK bps \in Range(values) : value = [payout |-> (stake * bps) \div BPS, tier |-> 0]
    BY <1>2
  <2>2. bps \in Nat /\ bps <= best
    BY <1>1
  <2>3. value.payout = (stake * bps) \div BPS
    BY <2>1
  <2> HIDE DEF best
  <2>4. QED BY <1>1, <2>2, <2>3, ShareWithin DEF best
<1>3. CASE \E j \in Range(tiers) :
             value = [payout |-> (stake * j.awardMultiplierBps) \div BPS, tier |-> j.tierId]
  <2>1. PICK j \in Range(tiers) :
          value = [payout |-> (stake * j.awardMultiplierBps) \div BPS, tier |-> j.tierId]
    BY <1>3
  <2> DEFINE bps == j.awardMultiplierBps
  <2>2. bps \in Nat /\ bps <= best
    BY <1>1
  <2>3. value.payout = (stake * bps) \div BPS
    BY <2>1
  <2> HIDE DEF best, bps
  <2>4. QED BY <1>1, <2>2, <2>3, ShareWithin DEF best
<1>4. QED BY <1>2, <1>3 DEF drawHoldValue

-----------------------------------------------------------------------------
(* Hold and spin of a preset whose caps cover it.                          *)

\* what each hit pays at most, in BPS
hitMost(preset, stake) == stake * bestHit(preset)

coveredHolds(preset, stake) ==
  {s \in Holds(preset, stake) : BPS * s.payout <= s.filled * hitMost(preset, stake)}

LEMMA HitMostNatural ==
  ASSUME NEW preset, isPreset(preset), NEW stake \in Nat
  PROVE  hitMost(preset, stake) \in Nat
<1> DEFINE best == bestHit(preset)
<1>1. best \in Nat
  BY BestHit
<1> HIDE DEF best
<1>2. stake * best \in Nat
  BY <1>1
<1>3. QED BY <1>2 DEF hitMost, best

\* The hits of a respin pay within their bound.
LEMMA HitsCovered ==
  ASSUME NEW preset, isPreset(preset), NEW stake \in Nat,
         NEW state \in Holds(preset, stake), NEW newHits \in Nat, NEW before \in Nat,
         state.filled = before + newHits,
         BPS * state.payout <= before * hitMost(preset, stake)
  PROVE  accumulateHoldHits(preset, stake, state, newHits) \subseteq coveredHolds(preset, stake)
<1> DEFINE values == drawHoldValue(preset, stake)
           U == Holds(preset, stake)
           K == hitMost(preset, stake)
           reached(n) == {s \in U : s.filled = state.filled /\ BPS * s.payout <= (before + n) * K}
           P == [n \in 0..newHits |-> reached(n)]
<1>1. \E W : areHits(preset, stake, newHits, state, W)
  <2>1. \A s \in U, value \in drawHoldValue(preset, stake) : hit(s, value) \in U
    BY HitKeeps DEF isPreset
  <2>2. state \in U
    OBVIOUS
  <2> HIDE DEF U, values, P
  <2>3. QED BY <2>1, <2>2, HitRounds
<1>11. PICK W : /\ accumulateHoldHits(preset, stake, state, newHits) = W[newHits]
                /\ W[0] = {state}
                /\ \A n \in 1..newHits : W[n] = hitRound(preset, stake, W[n - 1])
  BY <1>1 DEF areHits
<1>2. K \in Nat
  BY HitMostNatural
<1>3. \A s \in U : s.payout \in Nat
  BY DEF Holds
<1>4. ASSUME NEW n \in 1..newHits, NEW s \in reached(n - 1), NEW value \in values
      PROVE  hit(s, value) \in reached(n)
  <2> DEFINE after == hit(s, value)
             p == s.payout
             v == value.payout
             m == before + (n - 1)
  <2>1. after \in U
    BY HitKeeps DEF isPreset
  <2>2. after.filled = s.filled /\ after.payout = p + v
    <3>1. s \in [reverted: {FALSE}, remaining: Int, respinsUsed: Nat, filled: Nat,
                 payout: Nat, jackpotTierHit: Nat, jackpotPayout: Nat]
      BY DEF Holds
    <3>2. QED BY <3>1 DEF hit
  <2>3. p \in Nat /\ v \in Nat /\ BPS * v <= K /\ m \in Nat /\ BPS * p <= m * K
    BY <1>3, HitCovered DEF hitMost
  <2>4. before + n = m + 1
    OBVIOUS
  <2> HIDE DEF after, p, v, m, K
  <2>5. (m + 1) * K = m * K + K /\ m * K \in Nat
    BY <1>2, <2>3
  <2>6. BPS * (p + v) <= (m + 1) * K
    <3> DEFINE x == m * K
    <3>1. x \in Nat /\ BPS * p <= x /\ (m + 1) * K = x + K
      BY <2>3, <2>5
    <3> HIDE DEF x
    <3>2. BPS * (p + v) <= x + K
      BY <1>2, <2>3, <3>1 DEF BPS
    <3>3. QED BY <3>1, <3>2
  <2>7. after \in reached(n)
    BY <2>1, <2>2, <2>4, <2>6
  <2>8. QED BY <2>7 DEF after
<1>5. W[0] \subseteq P[0]
  <2>1. P[0] = reached(0) /\ before + 0 = before
    OBVIOUS
  <2>2. QED BY <1>11, <2>1
<1>6. ASSUME NEW n \in 1..newHits, W[n - 1] \subseteq P[n - 1]
      PROVE  W[n] \subseteq P[n]
  <2>1. P[n - 1] = reached(n - 1) /\ P[n] = reached(n)
    OBVIOUS
  <2> HIDE DEF P, reached
  <2>2. ASSUME NEW h \in W[n] PROVE h \in reached(n)
    <3>1. PICK s \in W[n - 1], value \in values : h = hit(s, value)
      BY <1>11 DEF hitRound
    <3>2. s \in reached(n - 1)
      BY <1>6, <2>1, <3>1
    <3>3. QED BY <1>4, <3>1, <3>2
  <2>3. QED BY <2>1, <2>2
<1>7. P[newHits] = reached(newHits) /\ newHits \in 0..newHits
  OBVIOUS
<1>8. \A n \in 0..newHits : W[n] \subseteq P[n]
  <2> HIDE DEF P
  <2>1. QED BY <1>5, <1>6, LoopStays
<1>9. reached(newHits) \subseteq coveredHolds(preset, stake)
  <2> SUFFICES ASSUME NEW s \in reached(newHits) PROVE s \in coveredHolds(preset, stake)
    OBVIOUS
  <2>1. s \in U /\ BPS * s.payout <= s.filled * K
    OBVIOUS
  <2>2. QED BY <2>1 DEF coveredHolds
<1> HIDE DEF P, reached
<1>10. QED BY <1>11, <1>7, <1>8, <1>9

\* No seed reverts in hold and spin, and it pays within its bound.
LEMMA HoldsCovered ==
  ASSUME NEW preset, isPreset(preset), NEW stake \in Nat, NEW startingEvents \in Nat,
         startingEvents + preset.maxRespins <= preset.maxTotalEvents,
         NEW initialFilled \in Nat
  PROVE  resolveHoldAndSpin(preset, stake, startingEvents, initialFilled)
           \subseteq coveredHolds(preset, stake)
<1> DEFINE U == coveredHolds(preset, stake)
<1>1. /\ preset \in PresetConfig /\ preset.maxRespins \in Nat /\ preset.maxTotalEvents \in Nat
      /\ preset.holdBoardSize \in Nat
  BY ConfigFields DEF isPreset
<1>2. firstHold(preset, initialFilled) \in U
  <2> DEFINE first == firstHold(preset, initialFilled)
             K == hitMost(preset, stake)
  <2>1. first \in Holds(preset, stake) /\ first.payout = 0 /\ first.filled \in Nat
    BY <1>1, FirstHold
  <2>2. K \in Nat
    BY HitMostNatural
  <2> HIDE DEF first, K
  <2>3. BPS * 0 <= first.filled * K
    BY <2>1, <2>2 DEF BPS
  <2>4. QED BY <2>1, <2>3 DEF coveredHolds, first, K
<1>3. ASSUME NEW state \in U PROVE holdRound(preset, stake, startingEvents, state) \subseteq U
  <2>1. CASE holdEnded(preset, state)
    BY <2>1 DEF holdRound
  <2>2. CASE ~holdEnded(preset, state)
    <3>1. /\ state \in Holds(preset, stake) /\ state.respinsUsed \in Nat
          /\ state.filled \in Nat /\ state.respinsUsed <= preset.maxRespins
          /\ BPS * state.payout <= state.filled * hitMost(preset, stake)
      BY DEF coveredHolds, Holds
    <3>2. ~(startingEvents + state.respinsUsed >= preset.maxTotalEvents)
      BY <1>1, <2>2, <3>1 DEF holdEnded
    <3>3. ASSUME NEW newHits \in 0..(preset.holdBoardSize - state.filled)
          PROVE  accumulateHoldHits(preset, stake, spunAgain(preset, state, newHits), newHits)
                   \subseteq U
      <4> DEFINE spun == spunAgain(preset, state, newHits)
      <4>1. /\ newHits \in Nat /\ spun \in Holds(preset, stake)
            /\ spun.filled = state.filled + newHits /\ spun.payout = state.payout
        BY <1>1, <2>2, <3>1, RespinStarts
      <4> HIDE DEF spun
      <4>2. accumulateHoldHits(preset, stake, spun, newHits) \subseteq U
        BY <3>1, <4>1, HitsCovered
      <4>3. QED BY <4>2 DEF spun
    <3> HIDE DEF U
    <3>4. respin(preset, stake, state, startingEvents) \subseteq U
      BY <3>2, <3>3 DEF respin, spunAgain
    <3>5. QED BY <2>2, <3>4 DEF holdRound
  <2>3. QED BY <2>1, <2>2
<1> HIDE DEF U
<1>4. QED BY <1>1, <1>2, <1>3, HoldsStay DEF U

-----------------------------------------------------------------------------
(* A whole answer of a preset whose caps cover its features.               *)

bestPick(preset) == Max(Range(preset.pickAwardMultiplierBps))

LEMMA BestPick ==
  ASSUME NEW preset, isPreset(preset)
  PROVE  bestPick(preset) \in Nat
<1> DEFINE awards == preset.pickAwardMultiplierBps
<1>1. awards \in Seq(Nat) /\ awards # <<>>
  BY ConfigFields DEF isPreset, validatePreset
<1> HIDE DEF awards
<1>2. Max(Range(awards)) \in Nat
  BY <1>1, GreatestOfSequence
<1>3. QED BY <1>2 DEF bestPick, awards

\* What each feature may add, at most.
withinFree(preset, stake, free) ==
  /\ free.reverted = FALSE /\ free.events \in Nat /\ free.payout \in Nat
  /\ free.events <= mostFreeSpins(preset)
  /\ BPS * (BPS * free.payout) <= mostFreeSpins(preset) * freeSpinMost(preset, stake)

withinPick(preset, stake, pick) ==
  /\ pick.reverted = FALSE /\ pick.events \in Nat /\ pick.payout \in Nat
  /\ pick.events <= mostPicks(preset)
  /\ BPS * pick.payout <= mostPicks(preset) * (stake * bestPick(preset))

withinHold(preset, stake, hold) ==
  /\ hold.reverted = FALSE /\ hold.respinsUsed \in Nat /\ hold.payout \in Nat
  /\ hold.respinsUsed <= mostRespins(preset)
  /\ BPS * hold.payout <= mostHits(preset) * (stake * bestHit(preset))

LEMMA MostAreNatural ==
  ASSUME NEW preset, isPreset(preset), NEW stake \in Nat
  PROVE  /\ mostFreeSpins(preset) \in Nat /\ mostPicks(preset) \in Nat
         /\ mostRespins(preset) \in Nat /\ mostHits(preset) \in Nat
         /\ mostWays(preset) \in Nat /\ freeSpinMost(preset, stake) \in Nat
         /\ stake * bestPick(preset) \in Nat /\ stake * bestHit(preset) \in Nat
         /\ preset.rowCount # 0
<1>1. /\ preset \in PresetConfig
      /\ preset.maxPickReveals \in Nat /\ preset.maxRespins \in Nat
      /\ preset.holdBoardSize \in Nat /\ preset.freeSpinMultiplierBps \in Nat
      /\ preset.rowCount # 0
  <2>1. preset \in PresetConfig /\ preset.rowCount \in 3..4
    BY DEF isPreset, validatePreset
  <2>2. QED BY <2>1, ConfigFields
<1>2. mostPicks(preset) \in Nat /\ mostRespins(preset) \in Nat /\ mostHits(preset) \in Nat
  BY <1>1 DEF mostPicks, mostRespins, mostHits
<1>3. mostWays(preset) \in Nat
  BY <1>1, WaysPayWithin
<1>4. freeSpinMost(preset, stake) \in Nat
  <2> DEFINE x == mostWays(preset)
             m == preset.freeSpinMultiplierBps
  <2>1. x \in Nat /\ m \in Nat
    BY <1>1, <1>3
  <2> HIDE DEF x, m
  <2>2. (stake * x) * m \in Nat
    BY <2>1
  <2>3. QED BY <2>2 DEF x, m, freeSpinMost
<1>5. stake * bestPick(preset) \in Nat
  <2> DEFINE x == bestPick(preset)
  <2>1. x \in Nat
    BY BestPick
  <2> HIDE DEF x
  <2>2. stake * x \in Nat
    BY <2>1
  <2>3. QED BY <2>2 DEF x
<1>6. stake * bestHit(preset) \in Nat
  BY HitMostNatural DEF hitMost
<1>7. QED BY <1>1, <1>2, <1>3, <1>4, <1>5, <1>6, MostFreeSpins

\* a bound grows with the number of what it bounds
LEMMA BoundGrows ==
  ASSUME NEW x \in Nat, NEW n \in Nat, NEW m \in Nat, NEW k \in Nat, n <= m, x <= n * k
  PROVE  x <= m * k
<1>1. n * k <= m * k /\ n * k \in Nat /\ m * k \in Nat
  BY ProductOrdered
<1>2. QED BY <1>1

LEMMA GridsCovered ==
  ASSUME NEW preset, isPreset(preset), NEW stake \in Nat,
         NEW grid \in gridOutcomes(preset, stake)
  PROVE  grid \in GridOutcome /\ BPS * grid.payout <= stake * mostWays(preset)
<1>1. preset \in PresetConfig /\ preset.rowCount # 0
  BY MostAreNatural DEF isPreset
<1>2. PICK g : grid.payout = evaluateWays(preset, stake, g)
  BY DEF gridOutcomes
<1>3. QED BY <1>1, <1>2, GridsAreNatural, WaysPayWithin

\* What one free spin pays fits, as the cap covers at least one of them.
LEMMA FreeSpinsFit ==
  ASSUME NEW preset, isPreset(preset), capsCoverFeatures(preset), NEW stake \in Nat,
         numbersFit(preset, stake), preset.freeSpinTriggerCount # 0
  PROVE  freeSpinMost(preset, stake) <= BPS * MaxUint
<1> DEFINE w == mostWays(preset)
           n == mostFreeSpins(preset)
           f == preset.freeSpinMultiplierBps
           k == mostPicks(preset)
           p == bestPick(preset)
           h == mostHits(preset)
           q == bestHit(preset)
           top == preset.maxPayoutMultiplierBps
<1>1. /\ w \in Nat /\ n \in Nat /\ f \in Nat /\ k \in Nat /\ p \in Nat /\ h \in Nat
      /\ q \in Nat /\ top \in Nat
  BY MostAreNatural, BestPick, BestHit, ConfigFields DEF isPreset
<1>2. BPS * w + n * w * f + BPS * k * p + BPS * h * q <= BPS * top
  BY DEF capsCoverFeatures, mostPayout, bestPick
<1>3. n >= 1
  <2> DEFINE b == preset.maxFreeSpins
  <2>1. b \in Nat /\ b > 0 /\ b <= n
    BY MostFreeSpins, ConfigFields DEF isPreset, validatePreset
  <2> HIDE DEF b, n
  <2>2. QED BY <1>1, <2>1
<1>4. stake * top <= MaxUint
  BY DEF numbersFit
<1>5. freeSpinMost(preset, stake) = (stake * w) * f
  BY DEF freeSpinMost
<1> HIDE DEF w, n, f, k, p, h, q, top
<1>6. w * f \in Nat /\ w * f <= n * w * f
  <2> DEFINE x == w * f
  <2>1. x \in Nat
    BY <1>1
  <2>2. n * w * f = n * x
    BY <1>1
  <2> HIDE DEF x
  <2>3. x * 1 <= x * n
    BY <1>1, <1>3, <2>1, ProductOrdered
  <2>4. x <= n * x
    BY <1>1, <2>1, <2>3
  <2>5. QED BY <2>1, <2>2, <2>4 DEF x
<1>7. n * w * f <= BPS * top
  <2> DEFINE a == BPS * w
             b == n * w * f
             c == BPS * k * p
             d == BPS * h * q
             e == BPS * top
  <2>1. a \in Nat /\ b \in Nat /\ c \in Nat /\ d \in Nat /\ e \in Nat
    <3>1. n * w \in Nat /\ BPS * k \in Nat /\ BPS * h \in Nat
      BY <1>1 DEF BPS
    <3>2. QED BY <1>1, <3>1 DEF BPS
  <2>2. a + b + c + d <= e
    BY <1>2
  <2> HIDE DEF a, b, c, d, e
  <2>3. b <= e
    BY <2>1, <2>2
  <2>4. QED BY <2>3 DEF b, e
<1>8. stake * (w * f) <= stake * (BPS * top)
  <2> DEFINE x == w * f
             y == n * w * f
             z == BPS * top
  <2>1. x \in Nat /\ y \in Nat /\ z \in Nat /\ x <= y /\ y <= z
    <3>1. n * w \in Nat
      BY <1>1
    <3>2. QED BY <1>1, <1>6, <1>7, <3>1 DEF BPS
  <2> HIDE DEF x, y, z
  <2>2. stake * x <= stake * z
    BY <2>1, ProductOrdered
  <2>3. QED BY <2>2 DEF x, z
<1>9. (stake * w) * f = stake * (w * f) /\ stake * (BPS * top) = BPS * (stake * top)
  BY <1>1 DEF BPS
<1>10. BPS * (stake * top) <= BPS * MaxUint
  <2> DEFINE x == stake * top
  <2>1. x \in Nat /\ x <= MaxUint
    BY <1>1, <1>4
  <2> HIDE DEF x
  <2>2. BPS * x <= BPS * MaxUint
    BY <2>1, MaxUintAssumption DEF BPS
  <2>3. QED BY <2>2 DEF x
<1>11. QED
  <2> DEFINE x == stake * (w * f)
             y == BPS * (stake * top)
             z == BPS * MaxUint
  <2>1. x \in Nat /\ y \in Nat /\ z \in Nat /\ x <= y /\ y <= z
    BY <1>1, <1>6, <1>8, <1>9, <1>10, MaxUintAssumption DEF BPS
  <2> HIDE DEF x, y, z
  <2>2. x <= z
    BY <2>1
  <2>3. QED BY <1>5, <1>9, <2>2 DEF x, z

LEMMA FreeWithin ==
  ASSUME NEW preset, isPreset(preset), capsCoverFeatures(preset), NEW stake \in Nat,
         numbersFit(preset, stake),
         NEW free, free = NoFreeSpins \/
                   /\ preset.freeSpinTriggerCount # 0
                   /\ free \in resolveFreeSpins(preset, gridOutcomes(preset, stake), 0)
  PROVE  withinFree(preset, stake, free)
<1> DEFINE n == mostFreeSpins(preset)
           K == freeSpinMost(preset, stake)
<1>1. /\ n \in Nat /\ K \in Nat /\ mostPicks(preset) \in Nat /\ mostRespins(preset) \in Nat
      /\ mostWays(preset) \in Nat /\ preset.maxTotalEvents \in Nat /\ preset \in PresetConfig
  BY MostAreNatural, ConfigFields DEF isPreset
<1>2. n <= preset.maxTotalEvents
  BY <1>1 DEF capsCoverFeatures, mostEvents
<1>3. CASE free = NoFreeSpins
  <2> HIDE DEF n, K
  <2>1. BPS * (BPS * 0) <= n * K
    <3>1. n * K \in Nat
      BY <1>1
    <3>2. QED BY <3>1 DEF BPS
  <2>2. free.reverted = FALSE /\ free.events = 0 /\ free.payout = 0
    BY <1>3 DEF NoFreeSpins
  <2>3. QED BY <1>1, <2>1, <2>2 DEF withinFree, n, K
<1>4. CASE /\ preset.freeSpinTriggerCount # 0
           /\ free \in resolveFreeSpins(preset, gridOutcomes(preset, stake), 0)
  <2> DEFINE grids == gridOutcomes(preset, stake)
  <2>1. grids \in SUBSET GridOutcome
        /\ \A grid \in grids : BPS * grid.payout <= stake * mostWays(preset)
    BY GridsCovered
  <2> HIDE DEF grids
  <2>2. resolveFreeSpins(preset, grids, 0) \subseteq coveredFreeSpins(preset, stake)
    BY <1>1, <1>2, <1>4, <2>1, FreeSpinsCovered, FreeSpinsFit
  <2>3. free \in coveredFreeSpins(preset, stake)
    BY <1>4, <2>2 DEF grids
  <2>4. /\ free.reverted = FALSE /\ free.events \in Nat /\ free.payout \in Nat
        /\ free.awarded \in Nat /\ free.remaining \in Nat
        /\ free.awarded = free.remaining + free.events
        /\ free.awarded <= preset.freeSpinAwardCounts[1] \/ free.awarded <= preset.maxFreeSpins
        /\ BPS * (BPS * free.payout) <= free.events * K
    BY <2>3 DEF coveredFreeSpins, FreeSpins
  <2>5. preset.freeSpinAwardCounts[1] <= n /\ preset.maxFreeSpins <= n
    BY <1>4, MostFreeSpins
  <2>6. preset.freeSpinAwardCounts[1] \in Nat /\ preset.maxFreeSpins \in Nat
    <3> DEFINE awards == preset.freeSpinAwardCounts
    <3>1. awards \in Seq(Nat) /\ awards # <<>> /\ preset.maxFreeSpins \in Nat
      BY ConfigFields DEF isPreset, validatePreset
    <3> HIDE DEF awards
    <3>2. 1 \in DOMAIN awards
      BY <3>1
    <3>3. awards[1] \in Nat
      BY <3>1, <3>2
    <3>4. QED BY <3>1, <3>3 DEF awards
  <2>7. free.events <= n
    <3> DEFINE e == free.events
               r == free.remaining
               a == free.awarded
               x == preset.freeSpinAwardCounts[1]
               y == preset.maxFreeSpins
    <3>1. /\ e \in Nat /\ r \in Nat /\ a \in Nat /\ x \in Nat /\ y \in Nat
          /\ a = r + e /\ (a <= x \/ a <= y) /\ x <= n /\ y <= n
      BY <2>4, <2>5, <2>6
    <3> HIDE DEF e, r, a, x, y, n
    <3>2. e <= n
      BY <1>1, <3>1
    <3>3. QED BY <3>2 DEF e
  <2>8. BPS * (BPS * free.payout) <= n * K
    <3> DEFINE e == free.events
               x == BPS * (BPS * free.payout)
    <3>1. x \in Nat /\ e \in Nat /\ e <= n /\ x <= e * K
      BY <2>4, <2>7 DEF BPS
    <3> HIDE DEF e, x, n, K
    <3>2. x <= n * K
      BY <1>1, <3>1, BoundGrows
    <3>3. QED BY <3>2 DEF x
  <2>9. QED BY <2>4, <2>7, <2>8 DEF withinFree
<1>5. QED BY <1>3, <1>4

LEMMA PickWithin ==
  ASSUME NEW preset, isPreset(preset), capsCoverFeatures(preset), NEW stake \in Nat,
         NEW startingEvents \in Nat, startingEvents <= mostFreeSpins(preset),
         NEW pick, pick = NoPickBonus \/
                   /\ preset.pickTriggerCount # 0
                   /\ pick \in resolvePickBonus(preset, stake, startingEvents)
  PROVE  withinPick(preset, stake, pick)
<1> DEFINE n == mostPicks(preset)
           K == stake * bestPick(preset)
<1>1. /\ n \in Nat /\ K \in Nat /\ mostFreeSpins(preset) \in Nat /\ mostRespins(preset) \in Nat
      /\ preset.maxTotalEvents \in Nat /\ preset.maxPickReveals \in Nat
  BY MostAreNatural, ConfigFields DEF isPreset
<1>2. CASE pick = NoPickBonus
  <2> HIDE DEF n, K
  <2>1. BPS * 0 <= n * K
    <3>1. n * K \in Nat
      BY <1>1
    <3>2. QED BY <3>1 DEF BPS
  <2>2. pick.reverted = FALSE /\ pick.events = 0 /\ pick.payout = 0
    BY <1>2 DEF NoPickBonus
  <2>3. QED BY <1>1, <2>1, <2>2 DEF withinPick, n, K
<1>3. CASE /\ preset.pickTriggerCount # 0
           /\ pick \in resolvePickBonus(preset, stake, startingEvents)
  <2>1. n = preset.maxPickReveals
    BY <1>3 DEF mostPicks
  <2>2. startingEvents + preset.maxPickReveals <= preset.maxTotalEvents
    <3>1. mostFreeSpins(preset) + n + mostRespins(preset) <= preset.maxTotalEvents
      BY DEF capsCoverFeatures, mostEvents
    <3> HIDE DEF n
    <3>2. QED BY <1>1, <2>1, <3>1
  <2>3. /\ pick.reverted = FALSE /\ pick.events = n /\ pick.payout \in Nat
        /\ BPS * pick.payout <= n * K
    BY <1>3, <2>1, <2>2, PicksCovered DEF bestPick
  <2>4. QED BY <1>1, <2>3 DEF withinPick
<1>4. QED BY <1>2, <1>3

LEMMA HoldWithin ==
  ASSUME NEW preset, isPreset(preset), capsCoverFeatures(preset), NEW stake \in Nat,
         NEW startingEvents \in Nat,
         startingEvents <= mostFreeSpins(preset) + mostPicks(preset), NEW fills \in Nat,
         NEW hold, hold = NoHoldAndSpin \/
                   /\ preset.holdTriggerCount # 0
                   /\ hold \in resolveHoldAndSpin(preset, stake, startingEvents, fills)
  PROVE  withinHold(preset, stake, hold)
<1> DEFINE n == mostHits(preset)
           K == stake * bestHit(preset)
<1>1. /\ n \in Nat /\ K \in Nat /\ mostFreeSpins(preset) \in Nat /\ mostPicks(preset) \in Nat
      /\ mostRespins(preset) \in Nat /\ preset.maxTotalEvents \in Nat
      /\ preset.holdBoardSize \in Nat
  BY MostAreNatural, ConfigFields DEF isPreset
<1>2. CASE hold = NoHoldAndSpin
  <2> HIDE DEF n, K
  <2>1. BPS * 0 <= n * K
    <3>1. n * K \in Nat
      BY <1>1
    <3>2. QED BY <3>1 DEF BPS
  <2>2. hold.reverted = FALSE /\ hold.respinsUsed = 0 /\ hold.payout = 0
    BY <1>2 DEF NoHoldAndSpin
  <2>3. QED BY <1>1, <2>1, <2>2 DEF withinHold, n, K
<1>3. CASE /\ preset.holdTriggerCount # 0
           /\ hold \in resolveHoldAndSpin(preset, stake, startingEvents, fills)
  <2>1. mostRespins(preset) = preset.maxRespins /\ n = preset.holdBoardSize
    BY <1>3 DEF mostRespins, mostHits
  <2>2. startingEvents + preset.maxRespins <= preset.maxTotalEvents
    <3>1. mostFreeSpins(preset) + mostPicks(preset) + mostRespins(preset)
            <= preset.maxTotalEvents
      BY DEF capsCoverFeatures, mostEvents
    <3>2. QED BY <1>1, <2>1, <3>1
  <2>3. hold \in coveredHolds(preset, stake)
    BY <1>3, <2>2, HoldsCovered
  <2>4. /\ hold.reverted = FALSE /\ hold.respinsUsed \in Nat /\ hold.payout \in Nat
        /\ hold.respinsUsed <= preset.maxRespins
        /\ hold.filled \in Nat /\ hold.filled <= preset.holdBoardSize
        /\ BPS * hold.payout <= hold.filled * K
    BY <2>3 DEF coveredHolds, Holds, hitMost
  <2>5. BPS * hold.payout <= n * K
    <3> DEFINE e == hold.filled
               x == BPS * hold.payout
    <3>1. x \in Nat /\ e \in Nat /\ e <= n /\ x <= e * K
      BY <2>1, <2>4 DEF BPS
    <3> HIDE DEF e, x, n, K
    <3>2. x <= n * K
      BY <1>1, <3>1, BoundGrows
    <3>3. QED BY <3>2 DEF x
  <2>6. QED BY <2>1, <2>4, <2>5 DEF withinHold
<1>4. QED BY <1>2, <1>3

\* the parts of a payout are within their bounds, and the bounds within the cap
partsWithin(s, w, n, f, k, p, h, q, cap, base, free, pick, hold) ==
  /\ s \in Nat /\ w \in Nat /\ n \in Nat /\ f \in Nat /\ k \in Nat
  /\ p \in Nat /\ h \in Nat /\ q \in Nat /\ cap \in Nat
  /\ BPS * w + n * w * f + BPS * k * p + BPS * h * q <= BPS * cap
  /\ base \in Nat /\ BPS * base <= s * w
  /\ free \in Nat /\ BPS * (BPS * free) <= n * ((s * w) * f)
  /\ pick \in Nat /\ BPS * pick <= k * (s * p)
  /\ hold \in Nat /\ BPS * hold <= h * (s * q)

LEMMA PayoutWithin ==
  ASSUME NEW s, NEW w, NEW n, NEW f, NEW k, NEW p, NEW h, NEW q, NEW cap,
         NEW base, NEW free, NEW pick, NEW hold,
         partsWithin(s, w, n, f, k, p, h, q, cap, base, free, pick, hold)
  PROVE  ~(base + free + pick + hold > (s * cap) \div BPS)
<1>0. /\ s \in Nat /\ w \in Nat /\ n \in Nat /\ f \in Nat /\ k \in Nat
      /\ p \in Nat /\ h \in Nat /\ q \in Nat /\ cap \in Nat
      /\ base \in Nat /\ free \in Nat /\ pick \in Nat /\ hold \in Nat
  BY DEF partsWithin
<1> DEFINE a == s * w
           b == n * ((s * w) * f)
           c == k * (s * p)
           d == h * (s * q)
           e == s * cap
           total == base + free + pick + hold
<1>1. a \in Nat /\ b \in Nat /\ c \in Nat /\ d \in Nat /\ e \in Nat
  <2>1. s * w \in Nat /\ s * p \in Nat /\ s * q \in Nat /\ s * cap \in Nat
    BY <1>0
  <2>2. (s * w) * f \in Nat
    BY <1>0, <2>1
  <2>3. QED BY <1>0, <2>1, <2>2
<1>2. BPS * a + b + BPS * c + BPS * d <= BPS * e
  <2> DEFINE u == w
             v == n * w * f
             x == k * p
             y == h * q
  <2>1. u \in Nat /\ v \in Nat /\ x \in Nat /\ y \in Nat
    <3>1. n * w \in Nat
      BY <1>0
    <3>2. QED BY <1>0, <3>1
  <2>2. BPS * k * p = BPS * x /\ BPS * h * q = BPS * y
    BY <1>0 DEF BPS
  <2>3. a = s * u /\ b = s * v /\ c = s * x /\ d = s * y
    <3>1. n * ((s * w) * f) = s * (n * w * f)
      BY <1>0
    <3>2. k * (s * p) = s * (k * p) /\ h * (s * q) = s * (h * q)
      BY <1>0
    <3>3. QED BY <3>1, <3>2
  <2>4. BPS * u + v + BPS * x + BPS * y <= BPS * cap
    BY <2>2 DEF partsWithin
  <2> HIDE DEF u, v, x, y, a, b, c, d
  <2> DEFINE l == BPS * u + v + BPS * x + BPS * y
             r == BPS * cap
  <2>5. l \in Nat /\ r \in Nat /\ l <= r
    BY <1>0, <2>1, <2>4 DEF BPS
  <2>6. s * l = BPS * (s * u) + s * v + BPS * (s * x) + BPS * (s * y)
    BY <1>0, <2>1 DEF BPS
  <2>7. s * r = BPS * (s * cap)
    BY <1>0 DEF BPS
  <2> HIDE DEF l, r
  <2>8. s * l <= s * r
    BY <1>0, <2>5, ProductOrdered
  <2>9. QED BY <2>3, <2>6, <2>7, <2>8
<1>3. /\ BPS * base <= a /\ BPS * (BPS * free) <= b /\ BPS * pick <= c /\ BPS * hold <= d
  BY DEF partsWithin
<1> HIDE DEF a, b, c, d, e
<1>4. BPS * total <= e
  BY <1>0, <1>1, <1>2, <1>3 DEF BPS
<1>5. total \in Nat /\ BPS \in Nat \ {0}
  BY <1>0 DEF BPS
<1> HIDE DEF total
<1>6. total <= e \div BPS
  BY <1>1, <1>4, <1>5, QuotientIsLargest
<1>7. e \div BPS \in Nat
  BY <1>1, QuotientBounds DEF BPS
<1>8. ~(total > e \div BPS)
  BY <1>5, <1>6, <1>7
<1>9. QED BY <1>8 DEF total, e

LEMMA ResultCovered ==
  ASSUME NEW preset, isPreset(preset), capsCoverFeatures(preset), NEW stake \in Nat,
         numbersFit(preset, stake),
         NEW base \in gridOutcomes(preset, stake),
         NEW free, withinFree(preset, stake, free),
         NEW pick, withinPick(preset, stake, pick),
         NEW hold, withinHold(preset, stake, hold)
  PROVE  spinResult(preset, stake, base, free, pick, hold) # Reverted
<1> DEFINE events == free.events + pick.events + hold.respinsUsed
           payout == base.payout + free.payout + pick.payout + hold.payout
           cap == (stake * preset.maxPayoutMultiplierBps) \div BPS
           result == spinResult(preset, stake, base, free, pick, hold)
<1>1. ~(events > preset.maxTotalEvents)
  <2> DEFINE x == free.events
             y == pick.events
             z == hold.respinsUsed
             l == mostFreeSpins(preset)
             m == mostPicks(preset)
             n == mostRespins(preset)
             top == preset.maxTotalEvents
  <2>1. /\ x \in Nat /\ y \in Nat /\ z \in Nat /\ l \in Nat /\ m \in Nat /\ n \in Nat
        /\ top \in Nat /\ x <= l /\ y <= m /\ z <= n /\ l + m + n <= top
    BY MostAreNatural, ConfigFields
       DEF isPreset, withinFree, withinPick, withinHold, capsCoverFeatures, mostEvents
  <2> HIDE DEF x, y, z, l, m, n, top
  <2>2. ~(x + y + z > top)
    BY <2>1
  <2>3. QED BY <2>2 DEF x, y, z, top
<1>2. ~(payout > cap)
  <2> DEFINE w == mostWays(preset)
             n == mostFreeSpins(preset)
             f == preset.freeSpinMultiplierBps
             k == mostPicks(preset)
             p == bestPick(preset)
             h == mostHits(preset)
             q == bestHit(preset)
             top == preset.maxPayoutMultiplierBps
             b0 == base.payout
             b1 == free.payout
             b2 == pick.payout
             b3 == hold.payout
  <2>1. /\ w \in Nat /\ n \in Nat /\ f \in Nat /\ k \in Nat /\ p \in Nat /\ h \in Nat
        /\ q \in Nat /\ top \in Nat
    BY MostAreNatural, BestPick, BestHit, ConfigFields DEF isPreset
  <2>2. BPS * w + n * w * f + BPS * k * p + BPS * h * q <= BPS * top
    BY DEF capsCoverFeatures, mostPayout, bestPick
  <2>3. b0 \in Nat /\ BPS * b0 <= stake * w
    BY GridsCovered DEF GridOutcome
  <2>4. /\ b1 \in Nat /\ BPS * (BPS * b1) <= n * ((stake * w) * f)
        /\ b2 \in Nat /\ BPS * b2 <= k * (stake * p)
        /\ b3 \in Nat /\ BPS * b3 <= h * (stake * q)
    BY DEF withinFree, withinPick, withinHold, freeSpinMost
  <2> HIDE DEF w, n, f, k, p, h, q, top, b0, b1, b2, b3
  <2>5. ~(b0 + b1 + b2 + b3 > (stake * top) \div BPS)
    <3>1. partsWithin(stake, w, n, f, k, p, h, q, top, b0, b1, b2, b3)
      BY <2>1, <2>2, <2>3, <2>4 DEF partsWithin
    <3>2. QED BY <3>1, PayoutWithin
  <2>6. QED BY <2>5 DEF top, b0, b1, b2, b3
<1>5. ~(stake * preset.maxPayoutMultiplierBps > MaxUint)
  <2> DEFINE x == stake * preset.maxPayoutMultiplierBps
  <2>1. x \in Nat /\ x <= MaxUint
    BY ConfigFields DEF isPreset, numbersFit
  <2> HIDE DEF x
  <2>2. ~(x > MaxUint)
    BY <2>1, MaxUintAssumption
  <2>3. QED BY <2>2 DEF x
<1>3. result.reverted = FALSE
  BY <1>1, <1>2, <1>5 DEF spinResult
<1>4. QED BY <1>3 DEF Reverted

LEMMA ResolutionsCovered ==
  ASSUME NEW preset, isPreset(preset), capsCoverFeatures(preset), NEW stake \in Nat,
         numbersFit(preset, stake)
  PROVE  Reverted \notin resolutions(preset, stake)
<1> DEFINE grids == gridOutcomes(preset, stake)
           freeSpins == resolveFreeSpins(preset, grids, 0)
           frees(base) == IF atLeast(base.scatters, preset.freeSpinTriggerCount)
                          THEN freeSpins ELSE {NoFreeSpins}
           draws(base, free) ==
             IF atLeast(base.bonuses, preset.pickTriggerCount)
             THEN resolvePickBonus(preset, stake, free.events) ELSE {NoPickBonus}
           holds(base, events) ==
             IF atLeast(base.fills, preset.holdTriggerCount)
             THEN resolveHoldAndSpin(preset, stake, events, base.fills)
             ELSE {NoHoldAndSpin}
           result(base, free, pick, hold) ==
             IF hold.reverted THEN Reverted
             ELSE spinResult(preset, stake, base, free, pick, hold)
           afterPick(base, free, pick) ==
             IF pick.reverted THEN {Reverted}
             ELSE {result(base, free, pick, hold) : hold \in holds(base, free.events + pick.events)}
           afterFree(base, free) ==
             IF free.reverted THEN {Reverted}
             ELSE UNION {afterPick(base, free, pick) : pick \in draws(base, free)}
<1>1. resolutions(preset, stake)
        = UNION {UNION {afterFree(base, free) : free \in frees(base)} : base \in grids}
  BY Zenon DEF resolutions
<1>2. /\ preset.freeSpinTriggerCount \in Nat /\ preset.pickTriggerCount \in Nat
      /\ preset.holdTriggerCount \in Nat
  BY ConfigFields DEF isPreset
<1>3. ASSUME NEW base \in grids
      PROVE  base.fills \in Nat /\ base.scatters \in Nat /\ base.bonuses \in Nat
  <2>1. base \in GridOutcome
    BY GridsCovered
  <2>2. QED BY <2>1 DEF GridOutcome
<1>4. ASSUME NEW base \in grids, NEW free \in frees(base)
      PROVE  /\ withinFree(preset, stake, free) /\ ~free.reverted
             /\ free.events \in Nat /\ free.events <= mostFreeSpins(preset)
  <2>1. free = NoFreeSpins \/ (preset.freeSpinTriggerCount # 0 /\ free \in freeSpins)
    <3> HIDE DEF freeSpins, grids
    <3>1. QED BY <1>2 DEF atLeast
  <2>2. withinFree(preset, stake, free)
    BY <2>1, FreeWithin
  <2>3. QED BY <2>2 DEF withinFree
<1>5. ASSUME NEW base \in grids, NEW free \in frees(base), NEW pick \in draws(base, free)
      PROVE  /\ withinPick(preset, stake, pick) /\ ~pick.reverted
             /\ pick.events \in Nat /\ pick.events <= mostPicks(preset)
  <2>1. pick = NoPickBonus \/ /\ preset.pickTriggerCount # 0
                              /\ pick \in resolvePickBonus(preset, stake, free.events)
    BY <1>2 DEF atLeast
  <2>2. withinPick(preset, stake, pick)
    BY <1>4, <2>1, PickWithin
  <2>3. QED BY <2>2 DEF withinPick
<1>6. ASSUME NEW base \in grids, NEW free \in frees(base), NEW pick \in draws(base, free),
             NEW hold \in holds(base, free.events + pick.events)
      PROVE  result(base, free, pick, hold) # Reverted
  <2> DEFINE events == free.events + pick.events
  <2>1. events \in Nat /\ events <= mostFreeSpins(preset) + mostPicks(preset)
    BY <1>4, <1>5, MostAreNatural
  <2>2. withinHold(preset, stake, hold)
    <3> HIDE DEF events
    <3>1. hold \in holds(base, events)
      BY DEF events
    <3>2. hold = NoHoldAndSpin \/ /\ preset.holdTriggerCount # 0
                                  /\ hold \in resolveHoldAndSpin(preset, stake, events, base.fills)
      BY <1>2, <3>1 DEF atLeast
    <3>3. QED BY <1>3, <2>1, <3>2, HoldWithin
  <2>3. ~hold.reverted
    BY <2>2 DEF withinHold
  <2>4. spinResult(preset, stake, base, free, pick, hold) # Reverted
    BY <1>4, <1>5, <2>2, ResultCovered
  <2>5. QED BY <2>3, <2>4
<1> HIDE DEF grids, frees, draws, holds, result
<1>7. ASSUME NEW base \in grids, NEW free \in frees(base), NEW pick \in draws(base, free)
      PROVE  Reverted \notin afterPick(base, free, pick)
  <2>1. ~pick.reverted
    BY <1>5
  <2>2. \A hold \in holds(base, free.events + pick.events) :
          result(base, free, pick, hold) # Reverted
    BY <1>6
  <2>3. QED BY <2>1, <2>2
<1>8. ASSUME NEW base \in grids, NEW free \in frees(base)
      PROVE  Reverted \notin afterFree(base, free)
  <2>1. ~free.reverted
    BY <1>4
  <2>2. \A pick \in draws(base, free) : Reverted \notin afterPick(base, free, pick)
    BY <1>7
  <2> HIDE DEF afterPick
  <2>3. QED BY <2>1, <2>2
<1> HIDE DEF afterFree
<1>9. QED BY <1>1, <1>8

LEMMA InvCoversSpins == SlotInv => CoveredSpinsResolve
<1> SUFFICES ASSUME SlotInv, NEW presetId \in DOMAIN presets, NEW seeds \in Resolutions,
                    seeds.config = presets[presetId], capsCoverFeatures(presets[presetId]),
                    numbersFit(presets[presetId], seeds.stake)
             PROVE  Reverted \notin seeds.results
  BY DEF CoveredSpinsResolve
<1>1. PICK preset \in Presets, stake \in Wagers :
        seeds = [config |-> preset, stake |-> stake, results |-> resolutions(preset, stake)]
  BY DEF Resolutions, Presets
<1>2. /\ stake \in Nat /\ seeds.config = preset /\ seeds.stake = stake
      /\ seeds.results = resolutions(preset, stake)
  BY <1>1, SoloAssumption
<1>3. isPreset(preset)
  BY PresetIsConfig DEF isPreset, Presets
<1>4. QED BY <1>2, <1>3, ResolutionsCovered

\* SlotMachineEngine counts events and caps the payout as it computes an answer,
\* in checked arithmetic, and reverts the whole answer when a cap is passed or a
\* number does not fit.  A registered preset whose caps leave room for the most its
\* features can pay, and whose payout cap and largest retrigger fit the engine's
\* integers, never reverts: whatever the seed, the coordinator can answer the spin.
THEOREM CoveredSpinsAlwaysResolve == SlotSpec => []CoveredSpinsResolve
  BY InitSlotInv, StepSlotInv, InvCoversSpins, PTL DEF SlotSpec
=============================================================================
