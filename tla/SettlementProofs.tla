-------------------------- MODULE SettlementProofs --------------------------
(***************************************************************************)
(* Proofs about the settlement layer, for every set of accounts, modules,  *)
(* expressions and epochs: epochs close in order and are paid once, the    *)
(* ledger's supply is what its accounts hold; and what a step of           *)
(* governance, a developer or the clock leaves alone, which the proofs of  *)
(* the games rest on.                                                      *)
(***************************************************************************)
EXTENDS ProtocolSettlement, SumTheorems, SequenceTheorems

-----------------------------------------------------------------------------
(* The module catalog.                                                     *)

\* Its inductive invariant, of which ContractProofs shows more: well-typed
\* records whose indexes agree.
CatalogInv == Catalog!TypeOK /\ Catalog!IndexesAgree

LEMMA StatusKeepsInv ==
  ASSUME CatalogInv, NEW moduleId \in Nat, NEW status \in Catalog!ModuleStatus,
         Catalog!setModuleStatus(moduleId, status)
  PROVE  CatalogInv'
<1> USE DEF CatalogInv, Catalog!TypeOK, Catalog!IndexesAgree
<1> DEFINE updated == [modules[moduleId] EXCEPT !.status = status]
<1>1. /\ moduleId \in 1..Len(modules)
      /\ modules' = [modules EXCEPT ![moduleId] = updated]
  <2>1. DOMAIN modules = 1..Len(modules)
    BY LenProperties
  <2>2. QED BY <2>1 DEF Catalog!setModuleStatus
<1>2. /\ updated \in Catalog!Module
      /\ updated.controller = modules[moduleId].controller
      /\ updated.engine = modules[moduleId].engine
  <2>1. modules[moduleId] \in Catalog!Module
    BY <1>1, ElementOfSeq
  <2>2. QED BY <2>1 DEF Catalog!Module
<1>3. /\ modules' \in Seq(Catalog!Module)
      /\ DOMAIN modules' = DOMAIN modules
      /\ \A i \in DOMAIN modules :
           /\ modules'[i].controller = modules[i].controller
           /\ modules'[i].engine = modules[i].engine
  <2> HIDE DEF updated
  <2>1. /\ modules' \in Seq(Catalog!Module)
        /\ Len(modules') = Len(modules)
        /\ \A i \in 1..Len(modules) :
             modules'[i] = IF i = moduleId THEN updated ELSE modules[i]
    BY <1>1, <1>2, ExceptSeq
  <2>2. DOMAIN modules = 1..Len(modules) /\ DOMAIN modules' = 1..Len(modules')
    BY <2>1, LenProperties
  <2>3. QED BY <1>2, <2>1, <2>2
<1>4. QED BY <1>3 DEF Catalog!setModuleStatus

-----------------------------------------------------------------------------
(* Developer rewards.                                                      *)

\* The inductive invariant: the types, the order of closing and the payments,
\* which stand because nothing is accrued to an epoch that can be claimed.
RewardsInv == RewardsTypeOK /\ ClosedAreThePast /\ PaidIsClaimed

\* What an epoch is worth to d.
accrualIn(E, d) == [e \in E |-> epochAccrual[e][d]]

LEMMA AccrualsSummable ==
  ASSUME RewardsTypeOK, NEW d \in Developers, NEW E \in SUBSET Epochs
  PROVE  Summable(accrualIn(E, d)) /\ SumFunction(accrualIn(E, d)) \in Nat
<1>1. IsFiniteSet(E)
  <2>1. IsFiniteSet(Epochs)
    BY RewardsAssumption, FS_Interval DEF Epochs
  <2>2. QED BY <2>1, FS_Subset
<1>2. /\ DOMAIN accrualIn(E, d) = E
      /\ \A e \in E : accrualIn(E, d)[e] \in Nat
  BY DEF accrualIn, RewardsTypeOK
<1>3. QED BY <1>1, <1>2, SumOfNats

LEMMA InitRewardsInv == RewardsInit => RewardsInv
<1> SUFFICES ASSUME RewardsInit PROVE RewardsInv
  OBVIOUS
<1>1. RewardsTypeOK /\ ClosedAreThePast
  BY RewardsAssumption DEF RewardsInit, RewardsTypeOK, ClosedAreThePast, Epochs
<1>2. ASSUME NEW d \in Developers
      PROVE  claimMinted[d] = SumFunction(accrualIn(claimedEpochs(d), d))
  <2>1. claimedEpochs(d) = {}
    BY DEF RewardsInit, claimedEpochs
  <2>2. SumFunction(accrualIn({}, d)) = 0
    <3>1. DOMAIN accrualIn({}, d) = {}
      BY DEF accrualIn
    <3>2. QED BY <3>1, SumOfZeros, FS_EmptySet
  <2>3. QED BY <2>1, <2>2 DEF RewardsInit
<1>3. QED BY <1>1, <1>2 DEF RewardsInv, PaidIsClaimed, accrualIn

\* A step that changes neither marks, nor payments, nor what a closed epoch
\* holds, keeps the payments explained.
LEMMA KeepsPaid ==
  ASSUME RewardsInv, UNCHANGED <<epochClaimed, claimMinted>>,
         \A e \in Epochs : epochClosed[e] => epochAccrual'[e] = epochAccrual[e]
  PROVE  PaidIsClaimed'
<1> SUFFICES ASSUME NEW d \in Developers
             PROVE  claimMinted'[d] = SumFunction([e \in claimedEpochs(d)' |->
                                                     epochAccrual'[e][d]])
  BY DEF PaidIsClaimed
<1>1. claimedEpochs(d)' = claimedEpochs(d)
  BY DEF claimedEpochs
<1>2. \A e \in claimedEpochs(d) : epochAccrual'[e] = epochAccrual[e]
  BY DEF RewardsInv, ClosedAreThePast, claimedEpochs
<1>3. [e \in claimedEpochs(d)' |-> epochAccrual'[e][d]]
        = [e \in claimedEpochs(d) |-> epochAccrual[e][d]]
  BY <1>1, <1>2
<1>4. QED BY <1>3 DEF RewardsInv, PaidIsClaimed

\* What claim pays is what the epochs it marks are worth.
LEMMA ClaimKeepsPaid ==
  ASSUME RewardsInv, NEW d \in Developers, NEW epochs \in ClaimLists,
         claim(d, epochs)
  PROVE  /\ claimTotal(d, epochs) \in Nat
         /\ claimMinted' = [claimMinted EXCEPT ![d] = @ + claimTotal(d, epochs)]
         /\ PaidIsClaimed'
<1> DEFINE E == Range(epochs)
           C(c) == claimedEpochs(c)
<1>1. /\ E \in SUBSET Epochs
      /\ \A e \in E : ~epochClaimed[e][d]
  BY DEF ClaimLists, claim, Range
<1>2. claimTotal(d, epochs) = SumFunction(accrualIn(E, d))
  BY DEF claimTotal, accrualIn
<1>3. claimTotal(d, epochs) \in Nat /\ Summable(accrualIn(E, d))
  BY <1>1, <1>2, AccrualsSummable DEF RewardsInv
<1>4. claimMinted' = [claimMinted EXCEPT ![d] = @ + claimTotal(d, epochs)]
  BY DEF claim
<1>5. claimedEpochs(d)' = C(d) \cup E /\ C(d) \cap E = {}
  BY <1>1 DEF claim, claimedEpochs, RewardsInv, RewardsTypeOK
<1>6. ASSUME NEW c \in Developers, c # d PROVE claimedEpochs(c)' = C(c)
  BY <1>6 DEF claim, claimedEpochs, RewardsInv, RewardsTypeOK
<1>7. ASSUME NEW c \in Developers
      PROVE  claimMinted'[c] = SumFunction([e \in claimedEpochs(c)' |->
                                              epochAccrual'[e][c]])
  <2>1. claimMinted[c] = SumFunction(accrualIn(C(c), c))
    BY DEF RewardsInv, PaidIsClaimed, accrualIn
  <2>2. CASE c # d
    <3>1. claimedEpochs(c)' = C(c)
      BY <1>6, <2>2
    <3>2. claimMinted'[c] = claimMinted[c]
      BY <1>4, <2>2 DEF RewardsInv, RewardsTypeOK
    <3>3. [e \in claimedEpochs(c)' |-> epochAccrual'[e][c]] = accrualIn(C(c), c)
      BY <3>1 DEF claim, accrualIn
    <3>4. QED BY <2>1, <3>2, <3>3
  <2>3. CASE c = d
    <3> DEFINE f == accrualIn(C(d), d)
               g == accrualIn(E, d)
               h == accrualIn(C(d) \cup E, d)
    <3>1. /\ DOMAIN f = C(d) /\ DOMAIN g = E /\ DOMAIN h = C(d) \cup E
          /\ \A e \in C(d) : h[e] = f[e]
          /\ \A e \in E : h[e] = g[e]
      BY DEF accrualIn
    <3>2. Summable(f) /\ Summable(g)
      <4>1. C(d) \in SUBSET Epochs
        BY DEF claimedEpochs
      <4>2. QED BY <1>3, <4>1, AccrualsSummable DEF RewardsInv
    <3>3. [e \in claimedEpochs(c)' |-> epochAccrual'[e][c]] = h
      BY <1>5, <2>3 DEF claim, accrualIn
    <3> HIDE DEF f, g, h
    <3>4. SumFunction(h) = SumFunction(f) + SumFunction(g)
      BY <1>5, <3>1, <3>2, SumJoined
    <3>5. claimMinted'[d] = claimMinted[d] + claimTotal(d, epochs)
      BY <1>4 DEF RewardsInv, RewardsTypeOK
    <3>6. QED BY <1>2, <2>1, <2>3, <3>3, <3>4, <3>5 DEF f, g
  <2>4. QED BY <2>2, <2>3
<1>8. QED BY <1>3, <1>4, <1>7 DEF PaidIsClaimed

LEMMA TickKeepsRewards == RewardsInv /\ Tick => RewardsInv'
<1> SUFFICES ASSUME RewardsInv, Tick PROVE RewardsInv'
  OBVIOUS
<1>1. PaidIsClaimed'
  BY KeepsPaid DEF Tick
<1>2. QED BY <1>1 DEF Tick, RewardsInv, RewardsTypeOK, ClosedAreThePast

LEMMA DurationKeepsRewards ==
  ASSUME RewardsInv, NEW newDuration \in Durations, setEpochDuration(newDuration)
  PROVE  RewardsInv'
<1>1. PaidIsClaimed'
  BY KeepsPaid DEF setEpochDuration
<1>2. QED BY <1>1, RewardsAssumption
       DEF setEpochDuration, RewardsInv, RewardsTypeOK, ClosedAreThePast

LEMMA AccrueKeepsRewards ==
  ASSUME RewardsInv, NEW developer \in Developers, NEW amount \in Nat,
         accrue(developer, amount)
  PROVE  /\ RewardsInv'
         /\ \A e \in Epochs : epochClosed[e] => epochAccrual'[e] = epochAccrual[e]
<1>1. epochAccrual' \in [Epochs -> [Developers -> Nat]]
  BY DEF accrue, RewardsInv, RewardsTypeOK
<1>2. \A e \in Epochs : epochClosed[e] => epochAccrual'[e] = epochAccrual[e]
  BY DEF accrue, RewardsInv, RewardsTypeOK, ClosedAreThePast, Epochs
<1>3. PaidIsClaimed'
  BY <1>2, KeepsPaid DEF accrue
<1>4. QED BY <1>1, <1>2, <1>3
       DEF accrue, RewardsInv, RewardsTypeOK, ClosedAreThePast

LEMMA CloseKeepsRewards == RewardsInv /\ closeCurrentEpoch => RewardsInv'
<1> SUFFICES ASSUME RewardsInv, closeCurrentEpoch PROVE RewardsInv'
  OBVIOUS
<1>1. PaidIsClaimed'
  BY KeepsPaid DEF closeCurrentEpoch
<1>2. QED BY <1>1, RewardsAssumption
       DEF closeCurrentEpoch, RewardsInv, RewardsTypeOK, ClosedAreThePast, Epochs

LEMMA ClaimKeepsRewards ==
  ASSUME RewardsInv, NEW d \in Developers, NEW epochs \in ClaimLists,
         claim(d, epochs)
  PROVE  RewardsInv'
<1> USE DEF RewardsInv, RewardsTypeOK, ClosedAreThePast
<1>1. PaidIsClaimed' /\ claimMinted' \in [Developers -> Nat]
  BY ClaimKeepsPaid
<1>2. epochClaimed' \in [Epochs -> [Developers -> BOOLEAN]]
  BY DEF claim
<1>3. ASSUME NEW e \in Epochs, NEW c \in Developers, epochClaimed'[e][c]
      PROVE  epochClosed[e]
  <2>1. CASE epochClaimed[e][c]
    BY <2>1
  <2>2. CASE ~epochClaimed[e][c]
    <3>1. e \in Range(epochs)
      BY <1>3, <2>2 DEF claim
    <3>2. QED BY <3>1 DEF claim, Range
  <2>3. QED BY <2>1, <2>2
<1>4. QED BY <1>1, <1>2, <1>3 DEF claim

LEMMA StepRewardsInv == RewardsInv /\ [RewardsNext]_rewardsVars => RewardsInv'
<1> SUFFICES ASSUME RewardsInv, [RewardsNext]_rewardsVars PROVE RewardsInv'
  OBVIOUS
<1>1. CASE UNCHANGED rewardsVars
  <2>1. PaidIsClaimed'
    BY <1>1, KeepsPaid DEF rewardsVars
  <2>2. QED BY <1>1, <2>1
         DEF rewardsVars, RewardsInv, RewardsTypeOK, ClosedAreThePast
<1>2. QED BY <1>1, TickKeepsRewards, DurationKeepsRewards, AccrueKeepsRewards,
             CloseKeepsRewards, ClaimKeepsRewards DEF RewardsNext

\* DeveloperRewards.sol closes epochs strictly in order, and nothing can be
\* claimed from an epoch before it is closed.
THEOREM EpochsCloseInOrder == RewardsSpec => []ClosedAreThePast
<1>1. RewardsInv => ClosedAreThePast
  BY DEF RewardsInv
<1>2. QED BY <1>1, InitRewardsInv, StepRewardsInv, PTL DEF RewardsSpec

\* A developer has been minted exactly what the epochs it claimed are worth,
\* whatever lists it claims, in whatever order and however often.
THEOREM ClaimsPaidOnce == RewardsSpec => []PaidIsClaimed
<1>1. RewardsInv => PaidIsClaimed
  BY DEF RewardsInv
<1>2. QED BY <1>1, InitRewardsInv, StepRewardsInv, PTL DEF RewardsSpec

\* Once closeCurrentEpoch has closed an epoch, no later call changes what it
\* holds.
THEOREM ClosedEpochsAreFinal == RewardsSpec => ClosedEpochFrozen
<1> DEFINE Frozen == \A e \in Epochs : epochClosed[e] =>
                       epochClosed'[e] /\ epochAccrual'[e] = epochAccrual[e]
<1>1. RewardsInv /\ [RewardsNext]_rewardsVars => [Frozen]_rewardsVars
  <2> SUFFICES ASSUME RewardsInv, RewardsNext PROVE Frozen
    OBVIOUS
  <2> USE DEF RewardsInv, RewardsTypeOK, ClosedAreThePast
  <2>1. CASE Tick
    BY <2>1 DEF Tick
  <2>2. ASSUME NEW newDuration \in Durations, setEpochDuration(newDuration)
        PROVE  Frozen
    BY <2>2 DEF setEpochDuration
  <2>3. ASSUME NEW developer \in Developers, NEW amount \in Nat,
               accrue(developer, amount)
        PROVE  Frozen
    <3>1. ~epochClosed[currentEpoch]
      BY DEF Epochs
    <3>2. QED BY <2>3, <3>1 DEF accrue
  <2>4. CASE closeCurrentEpoch
    BY <2>4 DEF closeCurrentEpoch
  <2>5. ASSUME NEW d \in Developers, NEW epochs \in ClaimLists, claim(d, epochs)
        PROVE  Frozen
    BY <2>5 DEF claim
  <2>6. QED BY <2>1, <2>2, <2>3, <2>4, <2>5 DEF RewardsNext
<1>2. QED BY <1>1, InitRewardsInv, StepRewardsInv, PTL
       DEF RewardsSpec, ClosedEpochFrozen

-----------------------------------------------------------------------------
(* The ledger.                                                             *)

LedgerInv(l) == l \in Token!Ledger /\ Token!SupplyHeld(l)

LEMMA TokenSum ==
  ASSUME NEW f
  PROVE  Token!SumFunction(f) = SumFunction(f)
  BY DEF Token!SumFunction, Token!SumFunctionOnSet, Token!FoldFunctionOnSet,
         Token!MapThenFoldSet, SumFunction, SumFunctionOnSet, FoldFunctionOnSet,
         MapThenFoldSet

LEMMA SupplyIsSum ==
  ASSUME NEW l
  PROVE  Token!SupplyHeld(l) <=> l.totalSupply = SumFunction(l.balance)
  BY TokenSum DEF Token!SupplyHeld

\* What burning and minting do to a ledger's record.
updated(l, a, x, y) == [l EXCEPT !.balance[a] = x, !.totalSupply = y]

LEMMA LedgerUpdate ==
  ASSUME NEW l \in Token!Ledger, NEW a \in Accounts, NEW x \in Nat, NEW y \in Nat
  PROVE  /\ updated(l, a, x, y) \in Token!Ledger
         /\ updated(l, a, x, y).balance = [l.balance EXCEPT ![a] = x]
         /\ updated(l, a, x, y).totalSupply = y
<1>1. updated(l, a, x, y) \in Token!Ledger
  BY DEF Token!Ledger, updated
<1>2. updated(l, a, x, y).balance = [l.balance EXCEPT ![a] = x]
  BY DEF Token!Ledger, updated
<1>3. updated(l, a, x, y).totalSupply = y
  BY DEF Token!Ledger, updated
<1>4. QED BY <1>1, <1>2, <1>3

LEMMA FiniteAccounts == IsFiniteSet(Accounts)
<1>1. IsFiniteSet(Players) /\ IsFiniteSet(Developers)
  BY SettlementAssumption
<1>2. QED BY <1>1, FS_Union DEF Accounts

LEMMA BalancesSummable ==
  ASSUME NEW l \in Token!Ledger
  PROVE  /\ DOMAIN l.balance = Accounts /\ Summable(l.balance)
         /\ \A a \in Accounts : l.balance[a] <= SumFunction(l.balance)
<1>1. DOMAIN l.balance = Accounts /\ \A a \in Accounts : l.balance[a] \in Nat
  BY DEF Token!Ledger
<1>2. QED BY <1>1, FiniteAccounts, SumOfNats

\* A ledger with one balance and the supply changed alike.
LEMMA OneBalanceChanged ==
  ASSUME NEW l, LedgerInv(l), NEW m \in Token!Ledger, NEW a \in Accounts,
         \A b \in Accounts \ {a} : m.balance[b] = l.balance[b],
         m.totalSupply - l.totalSupply = m.balance[a] - l.balance[a]
  PROVE  LedgerInv(m)
<1>1. SumFunction(m.balance) = SumFunction(l.balance) - l.balance[a] + m.balance[a]
  <2>1. /\ DOMAIN l.balance = Accounts /\ DOMAIN m.balance = Accounts
        /\ Summable(l.balance) /\ Summable(m.balance)
    BY BalancesSummable DEF LedgerInv
  <2>2. m.balance[a] \in Int
    BY <2>1 DEF Summable
  <2>3. QED BY <2>1, <2>2, SumChanged
<1>2. /\ l.totalSupply \in Nat /\ m.totalSupply \in Nat
      /\ l.balance[a] \in Nat /\ m.balance[a] \in Nat
  BY DEF LedgerInv, Token!Ledger
<1>3. SumFunction(l.balance) = l.totalSupply
  BY SupplyIsSum DEF LedgerInv
<1>4. m.totalSupply = SumFunction(m.balance)
  <2>1. m.totalSupply - l.totalSupply = m.balance[a] - l.balance[a]
    OBVIOUS
  <2>2. m.totalSupply = l.totalSupply - l.balance[a] + m.balance[a]
    BY <1>2, <2>1
  <2>3. QED BY <1>1, <1>3, <2>2
<1>5. Token!SupplyHeld(m)
  BY <1>4, SupplyIsSum
<1>6. QED BY <1>5 DEF LedgerInv

\* Burning a wager that may be spent.
LEMMA BurnKeepsLedger ==
  ASSUME NEW l, LedgerInv(l), NEW p \in Accounts, NEW amount \in Nat,
         Token!canSpend(l, p, "settlement", amount)
  PROVE  LET m == burnPlayerWager(l, p, amount)
         IN  /\ LedgerInv(m)
             /\ m.balance = [l.balance EXCEPT ![p] = @ - amount]
             /\ m.totalSupply = l.totalSupply - amount
<1> DEFINE s == Token!spendAllowance(l, p, "settlement", amount)
           m == burnPlayerWager(l, p, amount)
<1>1. s \in Token!Ledger /\ s.balance = l.balance /\ s.totalSupply = l.totalSupply
  BY DEF LedgerInv, Token!Ledger, Token!spendAllowance, Token!canSpend
<1>2. amount <= l.totalSupply /\ amount <= l.balance[p]
      /\ l.totalSupply \in Nat /\ l.balance \in [Accounts -> Nat]
  <2>1. l.balance[p] <= SumFunction(l.balance)
    BY BalancesSummable DEF LedgerInv
  <2>2. l.balance[p] \in Nat /\ l.totalSupply \in Nat
    BY DEF LedgerInv, Token!Ledger
  <2>3. l.totalSupply = SumFunction(l.balance)
    BY SupplyIsSum DEF LedgerInv
  <2>4. amount <= l.balance[p] /\ l.balance \in [Accounts -> Nat]
    BY DEF LedgerInv, Token!Ledger, Token!canSpend
  <2>5. QED BY <2>1, <2>2, <2>3, <2>4
<1>3. m = updated(s, p, s.balance[p] - amount, s.totalSupply - amount)
  BY DEF burnPlayerWager, Token!burnFrom, Token!burn, updated
<1> HIDE DEF s, m
<1>4. /\ m \in Token!Ledger
      /\ m.balance = [l.balance EXCEPT ![p] = l.balance[p] - amount]
      /\ m.totalSupply = l.totalSupply - amount
  <2>1. s.balance[p] - amount \in Nat /\ s.totalSupply - amount \in Nat
    BY <1>1, <1>2
  <2>2. /\ m \in Token!Ledger
        /\ m.balance = [s.balance EXCEPT ![p] = s.balance[p] - amount]
        /\ m.totalSupply = s.totalSupply - amount
    BY <1>1, <1>3, <2>1, LedgerUpdate
  <2>3. QED BY <1>1, <2>2
<1>5. LedgerInv(m)
  BY <1>2, <1>4, OneBalanceChanged
<1>6. QED BY <1>4, <1>5 DEF m

LEMMA MintKeepsLedger ==
  ASSUME NEW l, LedgerInv(l), NEW a \in Accounts, NEW amount \in Nat
  PROVE  LET m == Token!mint(l, a, amount)
         IN  /\ LedgerInv(m)
             /\ m.balance = [l.balance EXCEPT ![a] = @ + amount]
             /\ m.totalSupply = l.totalSupply + amount
<1> DEFINE m == Token!mint(l, a, amount)
<1>1. l.totalSupply \in Nat /\ l.balance \in [Accounts -> Nat] /\ l \in Token!Ledger
  BY DEF LedgerInv, Token!Ledger
<1>2. m = updated(l, a, l.balance[a] + amount, l.totalSupply + amount)
  BY DEF Token!mint, updated
<1> HIDE DEF m
<1>3. /\ m \in Token!Ledger
      /\ m.balance = [l.balance EXCEPT ![a] = l.balance[a] + amount]
      /\ m.totalSupply = l.totalSupply + amount
  <2>1. l.balance[a] + amount \in Nat /\ l.totalSupply + amount \in Nat
    BY <1>1
  <2>2. QED BY <1>1, <1>2, <2>1, LedgerUpdate
<1>4. LedgerInv(m)
  BY <1>1, <1>3, OneBalanceChanged
<1>5. QED BY <1>3, <1>4 DEF m

LEMMA ApproveKeepsLedger ==
  ASSUME NEW l, LedgerInv(l), NEW a \in Accounts, NEW amount \in Nat
  PROVE  LET m == Token!approve(l, a, "settlement", amount)
         IN  LedgerInv(m) /\ m.balance = l.balance /\ m.totalSupply = l.totalSupply
<1> DEFINE m == Token!approve(l, a, "settlement", amount)
<1>1. m \in Token!Ledger /\ m.balance = l.balance /\ m.totalSupply = l.totalSupply
  BY DEF LedgerInv, Token!Ledger, Token!approve
<1>2. QED BY <1>1, SupplyIsSum DEF LedgerInv

\* Rewards minted one after the other come to all of them at once.
LEMMA RewardsKeepLedger ==
  ASSUME NEW l, LedgerInv(l), NEW rewards \in [Accounts -> Nat]
  PROVE  LET m == mintPlayerRewards(l, rewards)
         IN  /\ LedgerInv(m)
             /\ m.balance = [a \in Accounts |-> l.balance[a] + rewards[a]]
             /\ m.totalSupply = l.totalSupply + SumFunction(rewards)
<1> DEFINE m == mintPlayerRewards(l, rewards)
<1>1. /\ l.totalSupply \in Nat /\ l.balance \in [Accounts -> Nat]
      /\ l \in Token!Ledger
      /\ SumFunction(l.balance) = l.totalSupply
  BY SupplyIsSum DEF LedgerInv, Token!Ledger
<1>2. Summable(rewards) /\ SumFunction(rewards) \in Nat
  <2>1. DOMAIN rewards = Accounts /\ \A a \in Accounts : rewards[a] \in Nat
    OBVIOUS
  <2>2. QED BY <2>1, FiniteAccounts, SumOfNats
<1>3. m = [l EXCEPT !.balance = [a \in Accounts |-> l.balance[a] + rewards[a]],
                    !.totalSupply = l.totalSupply + SumFunction(rewards)]
  BY DEF mintPlayerRewards
<1> HIDE DEF m
<1>4. /\ m \in Token!Ledger
      /\ m.balance = [a \in Accounts |-> l.balance[a] + rewards[a]]
      /\ m.totalSupply = l.totalSupply + SumFunction(rewards)
  <2>1. m = [balance |-> [a \in Accounts |-> l.balance[a] + rewards[a]],
             allowance |-> l.allowance,
             totalSupply |-> l.totalSupply + SumFunction(rewards)]
    BY <1>1, <1>3 DEF Token!Ledger
  <2>2. [a \in Accounts |-> l.balance[a] + rewards[a]] \in [Accounts -> Nat]
    BY <1>1
  <2>3. l.allowance \in [Accounts -> [{"settlement"} -> Nat]]
        /\ l.totalSupply + SumFunction(rewards) \in Nat
    BY <1>1, <1>2 DEF Token!Ledger
  <2>4. QED BY <2>1, <2>2, <2>3 DEF Token!Ledger
<1>5. SumFunction(m.balance) = SumFunction(l.balance) + SumFunction(rewards)
  <2>1. /\ DOMAIN l.balance = Accounts /\ Summable(l.balance)
        /\ DOMAIN rewards = Accounts /\ DOMAIN m.balance = Accounts
        /\ \A a \in Accounts : m.balance[a] = l.balance[a] + rewards[a]
    BY <1>1, <1>4, BalancesSummable
  <2>2. QED BY <1>2, <2>1, SumAdded
<1>6. LedgerInv(m)
  BY <1>1, <1>4, <1>5, SupplyIsSum DEF LedgerInv
<1>7. QED BY <1>4, <1>6 DEF m

-----------------------------------------------------------------------------
(* The expression registry.                                                *)

RegistryInv ==
  /\ nextExpressionId \in Nat \ {0}
  /\ expressions \in [Registry!ExpressionIds -> Registry!Expression]

LEMMA ExpressionsKeepRegistry ==
  ASSUME RegistryInv, ManageExpressions
  PROVE  RegistryInv'
<1> USE DEF RegistryInv, Registry!Expression
<1>1. ASSUME NEW d \in Developers, NEW t \in ExpressionTypes,
             Registry!mintExpression(d, t)
      PROVE  RegistryInv'
  <2>1. MaxExpressions \in Nat
    BY SettlementAssumption DEF Registry!RegistryAssumption
  <2>2. nextExpressionId \in Registry!ExpressionIds
    BY <1>1, <2>1 DEF Registry!mintExpression, Registry!ExpressionIds
  <2>3. QED BY <1>1, <2>2 DEF Registry!mintExpression
<1>2. ASSUME NEW id \in Registry!ExpressionIds, NEW active \in BOOLEAN,
             Registry!setExpressionActive(id, active)
      PROVE  RegistryInv'
  BY <1>2 DEF Registry!setExpressionActive
<1>3. ASSUME NEW id \in Registry!ExpressionIds, NEW d \in Developers,
             Registry!transferExpression(id, d)
      PROVE  RegistryInv'
  BY <1>3 DEF Registry!transferExpression
<1>4. QED BY <1>1, <1>2, <1>3 DEF ManageExpressions

LEMMA CompatibleHasOwner ==
  ASSUME RegistryInv, NEW t, NEW x, Registry!isExpressionCompatible(t, x)
  PROVE  expressions[x].owner \in Developers
  BY DEF RegistryInv, Registry!isExpressionCompatible, Registry!exists,
         Registry!Expression

-----------------------------------------------------------------------------
(* The settlement layer.                                                   *)

\* The inductive invariant of everything a game shares with the others.
SettlementInv == LedgerInv(token) /\ CatalogInv /\ RegistryInv /\ RewardsInv

registered(c) == controllerModuleIds[c] # 0
rate(c) == Catalog!getModuleByController(c).developerRewardBps

\* What developers are owed or have claimed, over all epochs.
owed == SumFunction([e \in Epochs |-> SumFunction(epochAccrual[e])])

LEMMA RatesAreNatural ==
  ASSUME NEW r \in RewardBps
  PROVE  r \in Nat
<1>1. RewardBps \subseteq 0..10000
  BY SettlementAssumption, SMTT(60)
<1>2. r \in 0..10000
  BY <1>1
<1>3. QED BY <1>2

LEMMA RateType ==
  ASSUME CatalogInv, NEW c \in Controllers, registered(c)
  PROVE  rate(c) \in Nat /\ \A amount \in Nat : developerAccrual(c, amount) \in Nat
<1>1. modules[controllerModuleIds[c]] \in Catalog!Module
  <2>1. controllerModuleIds[c] \in 1..Len(modules)
    BY LenProperties DEF CatalogInv, Catalog!TypeOK, Catalog!IndexesAgree, registered
  <2>2. QED BY <2>1, ElementOfSeq DEF CatalogInv, Catalog!TypeOK
<1>2. rate(c) \in RewardBps
  BY <1>1 DEF rate, Catalog!getModuleByController, Catalog!Module
<1>3. rate(c) \in Nat
  BY <1>2, RatesAreNatural
<1>4. ASSUME NEW amount \in Nat PROVE developerAccrual(c, amount) \in Nat
  <2>1. amount * rate(c) \in Nat
    BY <1>3
  <2>2. (amount * rate(c)) \div 10000 \in Nat
    BY <2>1
  <2>3. QED BY <2>2 DEF developerAccrual, rate
<1>5. QED BY <1>3, <1>4

\* Changing a module's status leaves every rate alone.
LEMMA StatusKeepsRates ==
  ASSUME CatalogInv, NEW moduleId \in DOMAIN modules, NEW status,
         Catalog!setModuleStatus(moduleId, status)
  PROVE  /\ controllerModuleIds' = controllerModuleIds
         /\ \A c \in Controllers : registered(c) => rate(c)' = rate(c)
<1>1. modules \in [1..Len(modules) -> Catalog!Module] /\ moduleId \in 1..Len(modules)
  BY LenProperties DEF CatalogInv, Catalog!TypeOK
<1>2. \A i \in 1..Len(modules) :
        modules'[i].developerRewardBps = modules[i].developerRewardBps
  BY <1>1 DEF Catalog!setModuleStatus, Catalog!Module
<1>3. \A c \in Controllers : registered(c) => controllerModuleIds[c] \in 1..Len(modules)
  BY <1>1 DEF CatalogInv, Catalog!IndexesAgree, registered
<1>4. controllerModuleIds' = controllerModuleIds
  BY DEF Catalog!setModuleStatus
<1>5. QED BY <1>2, <1>3, <1>4 DEF registered, rate, Catalog!getModuleByController

LEMMA InitSettlementInv ==
  ASSUME ProtocolInit
  PROVE  SettlementInv
<1>1. LedgerInv(token)
  <2> DEFINE balance == [a \in Accounts |-> IF a \in Players THEN InitialBalance ELSE 0]
             supply == InitialBalance * Cardinality(Players)
  <2>1. /\ InitialBalance \in Nat /\ InitialAllowance \in Nat
        /\ IsFiniteSet(Players) /\ Cardinality(Players) \in Nat
        /\ Players \subseteq Accounts
    <3>1. InitialBalance \in Nat /\ InitialAllowance \in Nat /\ IsFiniteSet(Players)
      BY SettlementAssumption
    <3>2. QED BY <3>1, FS_CardinalityType DEF Accounts
  <2>2. /\ token.balance = balance /\ token.totalSupply = supply
        /\ token = [balance |-> balance, allowance |-> token.allowance,
                    totalSupply |-> supply]
        /\ token.allowance \in [Accounts -> [{"settlement"} -> Nat]]
    BY <2>1 DEF ProtocolInit
  <2>3. SumFunction(balance) = supply
    <3>1. /\ DOMAIN balance = Accounts
          /\ \A a \in Players : balance[a] = InitialBalance
          /\ \A a \in Accounts \ Players : balance[a] = 0
      BY <2>1
    <3> HIDE DEF balance
    <3>2. QED BY <2>1, <3>1, FiniteAccounts, SumOfEqualParts
  <2>4. supply \in Nat /\ balance \in [Accounts -> Nat]
    BY <2>1
  <2> HIDE DEF balance, supply
  <2>5. token \in Token!Ledger
    BY <2>2, <2>4 DEF Token!Ledger
  <2>6. QED BY <2>2, <2>3, <2>5, SupplyIsSum DEF LedgerInv
<1>2. CatalogInv
  <2> DEFINE D == DeployedModules
  <2>1. /\ D \in Seq(Catalog!Module) /\ DOMAIN D = 1..Len(D) /\ Len(D) \in Nat
        /\ \A i \in DOMAIN D : D[i].controller \in Controllers
                               /\ D[i].engine \in Engines
        /\ \A i, j \in DOMAIN D : i # j => D[i].controller # D[j].controller
                                           /\ D[i].engine # D[j].engine
    <3>1. D \in Seq(Catalog!Module)
      BY SettlementAssumption
    <3>2. D \in [1..Len(D) -> Catalog!Module] /\ Len(D) \in Nat
      BY <3>1, LenProperties
    <3>3. \A i, j \in DOMAIN D : i # j => D[i].controller # D[j].controller
                                           /\ D[i].engine # D[j].engine
      BY SettlementAssumption, SMTT(60)
    <3>4. QED BY <3>1, <3>2, <3>3 DEF Catalog!Module
  <2>2. /\ modules = D
        /\ controllerModuleIds = [c \in Controllers |-> deployedId("controller", c)]
        /\ engineModuleIds = [e \in Engines |-> deployedId("engine", e)]
    BY DEF ProtocolInit
  <2>3. ASSUME NEW c
        PROVE  /\ deployedId("controller", c) \in Nat
               /\ deployedId("controller", c) # 0 =>
                    /\ deployedId("controller", c) \in DOMAIN D
                    /\ D[deployedId("controller", c)].controller = c
               /\ \A i \in DOMAIN D :
                    D[i].controller = c => deployedId("controller", c) = i
    <3> DEFINE ids == {i \in DOMAIN D : D[i]["controller"] = c}
    <3>1. CASE ids = {}
      <4>1. deployedId("controller", c) = 0
        BY <3>1 DEF deployedId
      <4>2. QED BY <3>1, <4>1
    <3>2. CASE ids # {}
      <4>1. deployedId("controller", c) = CHOOSE i \in ids : TRUE
        BY <3>2 DEF deployedId
      <4>2. deployedId("controller", c) \in ids
        BY <3>2, <4>1
      <4>3. QED BY <2>1, <4>2
    <3>3. QED BY <3>1, <3>2
  <2>4. ASSUME NEW e
        PROVE  /\ deployedId("engine", e) \in Nat
               /\ deployedId("engine", e) # 0 =>
                    /\ deployedId("engine", e) \in DOMAIN D
                    /\ D[deployedId("engine", e)].engine = e
               /\ \A i \in DOMAIN D :
                    D[i].engine = e => deployedId("engine", e) = i
    <3> DEFINE ids == {i \in DOMAIN D : D[i]["engine"] = e}
    <3>1. CASE ids = {}
      <4>1. deployedId("engine", e) = 0
        BY <3>1 DEF deployedId
      <4>2. QED BY <3>1, <4>1
    <3>2. CASE ids # {}
      <4>1. deployedId("engine", e) = CHOOSE i \in ids : TRUE
        BY <3>2 DEF deployedId
      <4>2. deployedId("engine", e) \in ids
        BY <3>2, <4>1
      <4>3. QED BY <2>1, <4>2
    <3>3. QED BY <3>1, <3>2
  <2> HIDE DEF D
  <2>5. QED BY <2>1, <2>2, <2>3, <2>4
         DEF CatalogInv, Catalog!TypeOK, Catalog!IndexesAgree
<1>3. RegistryInv
  <2>1. (CHOOSE t \in ExpressionTypes : TRUE) \in ExpressionTypes
    <3>1. ExpressionTypes # {}
      BY SettlementAssumption
    <3>2. QED BY <3>1
  <2>2. QED BY <2>1
         DEF ProtocolInit, Registry!Init, RegistryInv, Registry!Expression
<1>4. RewardsInv
  BY InitRewardsInv DEF ProtocolInit
<1>5. QED BY <1>1, <1>2, <1>3, <1>4 DEF SettlementInv

\* What a step that is not a game call leaves alone: it mints nothing but
\* claims, books no accrual, and changes no module's index or rate.
OutsideStep ==
  /\ UNCHANGED <<controllerModuleIds, epochAccrual>>
  /\ \A c \in Controllers : registered(c) => rate(c)' = rate(c)
  /\ \A a \in Accounts :
       token'.balance[a] = token.balance[a]
         + (IF a \in Developers THEN claimMinted'[a] - claimMinted[a] ELSE 0)
  /\ token'.totalSupply =
       token.totalSupply + SumFunction(claimMinted') - SumFunction(claimMinted)

\* The same, for a step that moves no money at all.
MovesNothing ==
  /\ token'.balance = token.balance /\ token'.totalSupply = token.totalSupply
  /\ UNCHANGED <<controllerModuleIds, claimMinted, epochAccrual>>
  /\ \A c \in Controllers : registered(c) => rate(c)' = rate(c)

LEMMA MovesNothingIsOutside ==
  ASSUME SettlementInv, MovesNothing
  PROVE  OutsideStep
<1>1. token.totalSupply \in Nat /\ token.balance \in [Accounts -> Nat]
      /\ claimMinted \in [Developers -> Nat]
  BY DEF SettlementInv, LedgerInv, Token!Ledger, RewardsInv, RewardsTypeOK
<1>2. SumFunction(claimMinted) \in Int
  <2>1. IsFiniteSet(Developers)
    BY SettlementAssumption
  <2>2. DOMAIN claimMinted = Developers /\ \A d \in Developers : claimMinted[d] \in Nat
    BY <1>1
  <2>3. QED BY <2>1, <2>2, SumOfNats
<1>3. claimMinted' = claimMinted
  BY DEF MovesNothing
<1>4. QED BY <1>1, <1>2, <1>3 DEF MovesNothing, OutsideStep

LEMMA GovernIsOutside ==
  ASSUME SettlementInv, Govern
  PROVE  SettlementInv' /\ OutsideStep
<1>1. PICK i \in DOMAIN modules, status \in StatusChanges :
        Catalog!setModuleStatus(i, status)
  BY DEF Govern
<1>2. i \in Nat /\ status \in Catalog!ModuleStatus
  <2>1. StatusChanges \subseteq Catalog!ModuleStatus
    BY SettlementAssumption
  <2>2. DOMAIN modules = 1..Len(modules)
    BY LenProperties DEF SettlementInv, CatalogInv, Catalog!TypeOK
  <2>3. QED BY <2>1, <2>2
<1>3. CatalogInv'
  BY <1>1, <1>2, StatusKeepsInv DEF SettlementInv
<1>4. /\ controllerModuleIds' = controllerModuleIds
      /\ \A c \in Controllers : registered(c) => rate(c)' = rate(c)
  BY <1>1, StatusKeepsRates DEF SettlementInv
<1>5. /\ LedgerInv(token)' /\ RegistryInv' /\ RewardsInv'
  BY SMTT(60) DEF Govern, SettlementInv, LedgerInv, RegistryInv, RewardsInv, registryVars,
         rewardsVars, RewardsTypeOK, ClosedAreThePast, PaidIsClaimed, claimedEpochs
<1>6. MovesNothing
  BY <1>4 DEF Govern, MovesNothing, rewardsVars
<1>7. QED BY <1>3, <1>5, <1>6, MovesNothingIsOutside DEF SettlementInv

\* A step that leaves the catalog alone.
LEMMA SameCatalog ==
  ASSUME CatalogInv, UNCHANGED catalogVars
  PROVE  /\ CatalogInv' /\ controllerModuleIds' = controllerModuleIds
         /\ \A c \in Controllers : rate(c)' = rate(c)
         /\ \A c \in Controllers, amount \in Nat :
              developerAccrual(c, amount)' = developerAccrual(c, amount)
  BY DEF catalogVars, CatalogInv, Catalog!TypeOK, Catalog!IndexesAgree, rate,
         Catalog!getModuleByController, developerAccrual

LEMMA SameRegistry ==
  ASSUME RegistryInv, UNCHANGED registryVars
  PROVE  RegistryInv'
  BY DEF registryVars, RegistryInv

LEMMA SameRewards ==
  ASSUME RewardsInv, UNCHANGED rewardsVars
  PROVE  RewardsInv' /\ UNCHANGED <<claimMinted, epochAccrual>>
<1>1. RewardsInv'
  BY StepRewardsInv
<1>2. QED BY <1>1 DEF rewardsVars

LEMMA ExpressionsAreOutside ==
  ASSUME SettlementInv, ManageExpressions
  PROVE  SettlementInv' /\ OutsideStep
<1>1. UNCHANGED <<token, catalogVars, rewardsVars>>
  BY DEF ManageExpressions
<1>2. CatalogInv' /\ RewardsInv' /\ MovesNothing
  BY <1>1, SameCatalog, SameRewards DEF SettlementInv, MovesNothing
<1>3. RegistryInv'
  BY ExpressionsKeepRegistry DEF SettlementInv
<1>4. LedgerInv(token)'
  BY <1>1 DEF SettlementInv, LedgerInv
<1>5. QED BY <1>2, <1>3, <1>4, MovesNothingIsOutside DEF SettlementInv

LEMMA ApproveIsOutside ==
  ASSUME SettlementInv, Approve
  PROVE  SettlementInv' /\ OutsideStep
<1>1. UNCHANGED <<catalogVars, registryVars, rewardsVars>>
  BY DEF Approve
<1>2. PICK p \in Players, amount \in ApproveAmounts :
        token' = Token!approve(token, p, "settlement", amount)
  BY DEF Approve
<1>3. p \in Accounts /\ amount \in Nat
  <2>1. ASSUME NEW n \in ApproveAmounts PROVE n \in Nat
    BY SettlementAssumption, SMTT(60)
  <2>2. QED BY <2>1 DEF Accounts
<1>4. LedgerInv(token)' /\ token'.balance = token.balance
      /\ token'.totalSupply = token.totalSupply
  BY <1>2, <1>3, ApproveKeepsLedger DEF SettlementInv
<1>5. CatalogInv' /\ RegistryInv' /\ RewardsInv' /\ MovesNothing
  BY <1>1, <1>4, SameCatalog, SameRegistry, SameRewards DEF SettlementInv, MovesNothing
<1>6. QED BY <1>4, <1>5, MovesNothingIsOutside DEF SettlementInv

LEMMA EpochsAreOutside ==
  ASSUME SettlementInv, RunEpochs
  PROVE  SettlementInv' /\ OutsideStep
<1>1. UNCHANGED <<token, catalogVars, registryVars>>
  BY DEF RunEpochs
<1>2. RewardsInv' /\ UNCHANGED <<claimMinted, epochAccrual>>
  <2>1. CASE Tick
    BY <2>1, TickKeepsRewards DEF SettlementInv, Tick
  <2>2. CASE closeCurrentEpoch
    BY <2>2, CloseKeepsRewards DEF SettlementInv, closeCurrentEpoch
  <2>3. ASSUME NEW duration \in Durations, setEpochDuration(duration)
        PROVE  RewardsInv' /\ UNCHANGED <<claimMinted, epochAccrual>>
    BY <2>3, DurationKeepsRewards DEF SettlementInv, setEpochDuration
  <2>4. QED BY <2>1, <2>2, <2>3 DEF RunEpochs
<1>3. CatalogInv' /\ RegistryInv' /\ MovesNothing
  BY <1>1, <1>2, SameCatalog, SameRegistry DEF SettlementInv, MovesNothing
<1>4. LedgerInv(token)'
  BY <1>1 DEF SettlementInv, LedgerInv
<1>5. QED BY <1>2, <1>3, <1>4, MovesNothingIsOutside DEF SettlementInv

LEMMA ClaimIsOutside ==
  ASSUME SettlementInv, NEW d \in Developers, NEW epochs \in ClaimLists,
         Claim(d, epochs)
  PROVE  SettlementInv' /\ OutsideStep
<1> DEFINE total == claimTotal(d, epochs)
<1>1. /\ claim(d, epochs)
      /\ token' = Token!mint(token, d, total)
      /\ UNCHANGED <<catalogVars, registryVars>>
  BY DEF Claim
<1>2. /\ total \in Nat
      /\ claimMinted' = [claimMinted EXCEPT ![d] = claimMinted[d] + total]
      /\ claimMinted \in [Developers -> Nat]
      /\ RewardsInv'
      /\ epochAccrual' = epochAccrual
  BY <1>1, ClaimKeepsPaid, ClaimKeepsRewards
  DEF SettlementInv, RewardsInv, RewardsTypeOK, claim
<1> HIDE DEF total
<1>3. /\ LedgerInv(token)'
      /\ token'.balance = [token.balance EXCEPT ![d] = token.balance[d] + total]
      /\ token'.totalSupply = token.totalSupply + total
  BY <1>1, <1>2, MintKeepsLedger DEF SettlementInv, Accounts
<1>4. /\ CatalogInv' /\ RegistryInv' /\ controllerModuleIds' = controllerModuleIds
      /\ \A c \in Controllers : rate(c)' = rate(c)
  BY <1>1, SameCatalog, SameRegistry DEF SettlementInv
<1>5. token.totalSupply \in Nat /\ token.balance \in [Accounts -> Nat]
  BY DEF SettlementInv, LedgerInv, Token!Ledger
<1>6. /\ SumFunction(claimMinted') = SumFunction(claimMinted) + total
      /\ SumFunction(claimMinted) \in Int
  <2>1. IsFiniteSet(Developers)
    BY SettlementAssumption
  <2>2. /\ DOMAIN claimMinted = Developers /\ DOMAIN claimMinted' = Developers
        /\ \A c \in Developers : claimMinted[c] \in Nat
        /\ claimMinted'[d] = claimMinted[d] + total
        /\ \A c \in Developers \ {d} : claimMinted'[c] = claimMinted[c]
    BY <1>2
  <2>3. Summable(claimMinted) /\ SumFunction(claimMinted) \in Int
    BY <2>1, <2>2, SumOfNats
  <2>4. SumFunction(claimMinted') = SumFunction(claimMinted) - claimMinted[d]
                                    + claimMinted'[d]
    <3>1. claimMinted'[d] \in Int
      BY <1>2, <2>2
    <3>2. QED BY <2>2, <2>3, <3>1, SumChanged
  <2>5. QED BY <1>2, <2>2, <2>3, <2>4
<1>7. ASSUME NEW a \in Accounts
      PROVE  token'.balance[a] = token.balance[a]
               + (IF a \in Developers THEN claimMinted'[a] - claimMinted[a] ELSE 0)
  <2>1. CASE a = d
    BY <1>2, <1>3, <1>5, <2>1
  <2>2. CASE a # d /\ a \in Developers
    BY <1>2, <1>3, <1>5, <2>2
  <2>3. CASE a \notin Developers
    BY <1>3, <1>5, <2>3
  <2>4. QED BY <2>1, <2>2, <2>3
<1>8. token'.totalSupply =
        token.totalSupply + SumFunction(claimMinted') - SumFunction(claimMinted)
  BY <1>2, <1>3, <1>5, <1>6
<1>9. QED BY <1>2, <1>3, <1>4, <1>7, <1>8 DEF SettlementInv, OutsideStep

\* Whatever happens between two game calls.
LEMMA OutsideStepsKeepSettlement ==
  ASSUME SettlementInv, ProtocolNext
  PROVE  SettlementInv' /\ OutsideStep
  BY GovernIsOutside, ExpressionsAreOutside, ApproveIsOutside, EpochsAreOutside,
     ClaimIsOutside DEF ProtocolNext

\* What a game's call to the developer rewards books: the rate of the activity.
LEMMA AccrualKeepsRewards ==
  ASSUME SettlementInv, NEW c \in Controllers, NEW x, NEW amount \in Nat,
         accrueDeveloperForExpression(c, x, amount)
  PROVE  /\ RewardsInv' /\ registered(c)
         /\ developerAccrual(c, amount) \in Nat
         /\ claimMinted' = claimMinted
         /\ owed \in Int /\ owed' = owed + developerAccrual(c, amount)
<1> DEFINE due == developerAccrual(c, amount)
           totals == [e \in Epochs |-> SumFunction(epochAccrual[e])]
<1>1. registered(c) /\ due \in Nat
  BY RateType
  DEF accrueDeveloperForExpression, Catalog!isSettlableController, registered,
      SettlementInv
<1>2. /\ IsFiniteSet(Developers) /\ IsFiniteSet(Epochs)
      /\ epochAccrual \in [Epochs -> [Developers -> Nat]]
      /\ currentEpoch \in Epochs
  <2>1. IsFiniteSet(Developers)
    BY SettlementAssumption
  <2>2. IsFiniteSet(Epochs)
    BY RewardsAssumption, FS_Interval DEF Epochs
  <2>3. QED BY <2>1, <2>2 DEF SettlementInv, RewardsInv, RewardsTypeOK
<1>3. ASSUME NEW f \in [Developers -> Nat]
      PROVE  Summable(f) /\ SumFunction(f) \in Nat
  <2>1. DOMAIN f = Developers /\ \A d \in Developers : f[d] \in Nat
    OBVIOUS
  <2>2. QED BY <1>2, <2>1, SumOfNats
<1>4. DOMAIN totals = Epochs /\ Summable(totals) /\ SumFunction(totals) \in Int
  <2>1. DOMAIN totals = Epochs /\ \A e \in Epochs : totals[e] \in Nat
    BY <1>2, <1>3
  <2> HIDE DEF totals
  <2>2. QED BY <1>2, <2>1, SumOfNats
<1>5. owed = SumFunction(totals)
  BY DEF owed
<1>6. CASE amount = 0 /\ UNCHANGED rewardsVars
  <2>1. RewardsInv' /\ UNCHANGED <<claimMinted, epochAccrual>>
    BY <1>6, SameRewards DEF SettlementInv
  <2>2. due = 0
    <3>1. 0 * rate(c) = 0
      BY <1>1, RateType DEF SettlementInv
    <3>2. due = 0 \div 10000
      BY <1>6, <3>1 DEF developerAccrual, rate
    <3>3. QED BY <3>2
  <2>3. owed' = owed
    BY <2>1 DEF owed
  <2>4. QED BY <1>1, <1>4, <1>5, <2>1, <2>2, <2>3
<1>7. CASE /\ Registry!isExpressionCompatible(
                Catalog!getModuleByController(c).engineType, x)
           /\ accrue(expressions[x].owner, due)
  <2> DEFINE d == expressions[x].owner
             mine == epochAccrual[currentEpoch]
             totals2 == [e \in Epochs |-> SumFunction(epochAccrual'[e])]
  <2>1. d \in Developers
    BY <1>7, CompatibleHasOwner DEF SettlementInv
  <2>2. /\ RewardsInv' /\ claimMinted' = claimMinted
        /\ epochAccrual' = [epochAccrual EXCEPT ![currentEpoch] =
                              [mine EXCEPT ![d] = mine[d] + due]]
    <3>1. RewardsInv'
      BY <1>1, <1>7, <2>1, AccrueKeepsRewards DEF SettlementInv
    <3>2. QED BY <1>7, <3>1 DEF accrue
  <2> HIDE DEF due, d
  <2>3. /\ mine \in [Developers -> Nat]
        /\ epochAccrual'[currentEpoch] = [mine EXCEPT ![d] = mine[d] + due]
        /\ \A e \in Epochs \ {currentEpoch} : epochAccrual'[e] = epochAccrual[e]
    BY <1>2, <2>2
  <2> DEFINE new == [mine EXCEPT ![d] = mine[d] + due]
  <2>4. SumFunction(new) = SumFunction(mine) + due
    <3>1. /\ DOMAIN mine = Developers /\ DOMAIN new = Developers
          /\ new[d] = mine[d] + due /\ new[d] \in Int /\ mine[d] \in Int
          /\ \A b \in Developers \ {d} : new[b] = mine[b]
      BY <1>1, <2>1, <2>3
    <3>2. Summable(mine) /\ SumFunction(mine) \in Nat
      BY <1>3, <2>3
    <3> HIDE DEF mine, new
    <3>3. SumFunction(new) = SumFunction(mine) - mine[d] + new[d]
      BY <2>1, <3>1, <3>2, SumChanged
    <3>4. QED BY <1>1, <3>1, <3>2, <3>3
  <2>5. /\ DOMAIN totals2 = Epochs
        /\ totals2[currentEpoch] = totals[currentEpoch] + due
        /\ totals[currentEpoch] \in Int
        /\ \A e \in Epochs \ {currentEpoch} : totals2[e] = totals[e]
    BY <1>2, <1>3, <2>3, <2>4
  <2>6. owed' = SumFunction(totals2)
    BY DEF owed
  <2> HIDE DEF totals, totals2
  <2>7. SumFunction(totals2)
          = SumFunction(totals) - totals[currentEpoch] + totals2[currentEpoch]
    <3>1. totals2[currentEpoch] \in Int
      BY <1>1, <2>5
    <3>2. QED BY <1>2, <1>4, <2>5, <3>1, SumChanged
  <2>8. owed' = owed + due
    BY <1>1, <1>4, <1>5, <2>5, <2>6, <2>7
  <2>9. QED BY <1>1, <1>4, <1>5, <2>2, <2>8 DEF due
<1>8. QED BY <1>6, <1>7 DEF accrueDeveloperForExpression

\* The rates of registered modules stay what they are.
RatesKept == \A c \in Controllers : registered(c) => rate(c)' = rate(c)

\* What a game that pays one reward and books its activity does to the
\* settlement layer.
LEMMA PaymentKeepsSettlement ==
  ASSUME SettlementInv, NEW c \in Controllers, NEW l, LedgerInv(l),
         NEW player \in Players, NEW payout \in Nat, NEW amount \in Nat, NEW x,
         token' = mintPlayerReward(l, player, payout),
         accrueDeveloperForExpression(c, x, amount),
         UNCHANGED <<catalogVars, registryVars>>
  PROVE  /\ SettlementInv' /\ RatesKept /\ registered(c)
         /\ token'.balance = [l.balance EXCEPT ![player] = @ + payout]
         /\ UNCHANGED <<controllerModuleIds, claimMinted>>
         /\ developerAccrual(c, amount) \in Nat
         /\ owed' = owed + developerAccrual(c, amount)
<1>1. /\ LedgerInv(token)'
      /\ token'.balance = [l.balance EXCEPT ![player] = @ + payout]
  <2>1. LET m == Token!mint(l, player, payout)
        IN  LedgerInv(m) /\ m.balance = [l.balance EXCEPT ![player] = @ + payout]
    BY MintKeepsLedger DEF Accounts
  <2>2. QED BY <2>1 DEF mintPlayerReward, LedgerInv
<1>2. /\ CatalogInv' /\ RegistryInv' /\ RatesKept
      /\ controllerModuleIds' = controllerModuleIds
  BY SameCatalog, SameRegistry DEF SettlementInv, RatesKept
<1>3. /\ RewardsInv' /\ registered(c) /\ developerAccrual(c, amount) \in Nat
      /\ claimMinted' = claimMinted
      /\ owed' = owed + developerAccrual(c, amount)
  BY AccrualKeepsRewards
<1>4. QED BY <1>1, <1>2, <1>3 DEF SettlementInv
=============================================================================
