--------------------------- MODULE ContractProofs ---------------------------
(***************************************************************************)
(* Proofs about two contracts that stand alone: for any number of modules  *)
(* the catalog's records and its indexes stay one relation, and for any    *)
(* holders and amounts the staking wrapper is fully backed and only        *)
(* exchanges, whatever else its holders do with the two tokens.            *)
(***************************************************************************)
EXTENDS GameCatalog, ScuroStaking, FiniteSetTheorems, SequenceTheorems, TLAPS

-----------------------------------------------------------------------------
(* The module catalog.                                                     *)

\* The inductive invariant: well-typed records whose indexes agree.
CatalogInv == TypeOK /\ IndexesAgree

LEMMA InitCatalogInv == Init => CatalogInv
  BY DEF Init, CatalogInv, TypeOK, IndexesAgree,
         Module, ModuleStatus

LEMMA RegisterKeepsInv ==
  ASSUME CatalogInv, NEW moduleData \in Module, registerModule(moduleData)
  PROVE  CatalogInv'
<1> USE DEF CatalogInv, TypeOK, IndexesAgree
<1>1. /\ modules' \in Seq(Module)
      /\ Len(modules') = Len(modules) + 1
      /\ modules'[Len(modules) + 1] = moduleData
      /\ \A i \in DOMAIN modules :
           i \in DOMAIN modules' /\ modules'[i] = modules[i]
      /\ \A i \in DOMAIN modules' : i \in DOMAIN modules \/ i = Len(modules) + 1
      /\ Len(modules) + 1 \in DOMAIN modules'
      /\ moduleData.controller \in Controllers /\ moduleData.engine \in Engines
  BY DEF registerModule, Module
<1>2. TypeOK'
  BY <1>1 DEF registerModule, nextModuleId
<1>3. IndexesAgree'
  BY <1>1, SMTT(60) DEF registerModule, nextModuleId, Module
<1>4. QED BY <1>2, <1>3

LEMMA StatusKeepsInv ==
  ASSUME CatalogInv, NEW moduleId \in Nat, NEW status \in ModuleStatus,
         setModuleStatus(moduleId, status)
  PROVE  CatalogInv'
<1> USE DEF CatalogInv, TypeOK, IndexesAgree
<1> DEFINE updated == [modules[moduleId] EXCEPT !.status = status]
<1>1. /\ moduleId \in 1..Len(modules)
      /\ modules' = [modules EXCEPT ![moduleId] = updated]
  <2>1. DOMAIN modules = 1..Len(modules)
    BY LenProperties
  <2>2. QED BY <2>1 DEF setModuleStatus
<1>2. /\ updated \in Module
      /\ updated.controller = modules[moduleId].controller
      /\ updated.engine = modules[moduleId].engine
  <2>1. modules[moduleId] \in Module
    BY <1>1, ElementOfSeq
  <2>2. QED BY <2>1 DEF Module
<1>3. /\ modules' \in Seq(Module)
      /\ DOMAIN modules' = DOMAIN modules
      /\ \A i \in DOMAIN modules :
           /\ modules'[i].controller = modules[i].controller
           /\ modules'[i].engine = modules[i].engine
  <2> HIDE DEF updated
  <2>1. /\ modules' \in Seq(Module)
        /\ Len(modules') = Len(modules)
        /\ \A i \in 1..Len(modules) :
             modules'[i] = IF i = moduleId THEN updated ELSE modules[i]
    BY <1>1, <1>2, ExceptSeq
  <2>2. DOMAIN modules = 1..Len(modules) /\ DOMAIN modules' = 1..Len(modules')
    BY <2>1, LenProperties
  <2>3. QED BY <1>2, <2>1, <2>2
<1>4. QED BY <1>3 DEF setModuleStatus

LEMMA StepCatalogInv == CatalogInv /\ [Next]_vars => CatalogInv'
<1> SUFFICES ASSUME CatalogInv, [Next]_vars PROVE CatalogInv'
  OBVIOUS
<1>1. ASSUME NEW moduleData \in Module, registerModule(moduleData)
      PROVE  CatalogInv'
  BY <1>1, RegisterKeepsInv
<1>2. ASSUME NEW moduleId \in 1..MaxModules,
             NEW status \in ModuleStatus,
             setModuleStatus(moduleId, status)
      PROVE  CatalogInv'
  <2>1. moduleId \in Nat
    BY <1>2, CatalogAssumption
  <2>2. QED BY <1>2, <2>1, StatusKeepsInv
<1>3. CASE UNCHANGED vars
  BY <1>3 DEF vars, CatalogInv, TypeOK, IndexesAgree
<1>4. QED BY <1>1, <1>2, <1>3 DEF Next

LEMMA CatalogInvImpliesGates == CatalogInv => GatesAgree
  BY DEF CatalogInv, TypeOK, IndexesAgree, GatesAgree,
         isAuthorizedControllerForEngine, isSettlableController,
         isSettlableEngine

\* GameCatalog.sol keeps modules, controllerModuleIds and engineModuleIds in
\* step through every registration and every status change.
THEOREM CatalogIndexed == Spec => []IndexesAgree
<1>1. CatalogInv => IndexesAgree
  BY DEF CatalogInv
<1>2. QED BY <1>1, InitCatalogInv, StepCatalogInv, PTL DEF Spec

\* The controller gate and the engine gate of a module never disagree, and an
\* engine never answers to two controllers.
THEOREM CatalogGates == Spec => []GatesAgree
  BY InitCatalogInv, StepCatalogInv, CatalogInvImpliesGates, PTL DEF Spec

\* No governance action changes what a registered module is, only its status.
THEOREM CatalogTermsFixed == Spec => ModuleTermsFixed
<1> DEFINE Fixed ==
      \A i \in DOMAIN modules :
        /\ i \in DOMAIN modules'
        /\ modules'[i] = [modules[i] EXCEPT !.status = modules'[i].status]
        /\ controllerModuleIds'[modules[i].controller] = i
<1>1. CatalogInv /\ [Next]_vars => [Fixed]_vars
  <2> SUFFICES ASSUME CatalogInv, Next PROVE Fixed
    OBVIOUS
  <2> USE DEF CatalogInv, TypeOK, IndexesAgree, Module
  <2>1. ASSUME NEW moduleData \in Module, registerModule(moduleData)
        PROVE  Fixed
    <3>1. \A i \in DOMAIN modules :
            i \in DOMAIN modules' /\ modules'[i] = modules[i]
      BY <2>1 DEF registerModule
    <3>2. \A i \in DOMAIN modules :
            /\ modules[i] \in Module
            /\ modules[i].controller # moduleData.controller
      <4>1. modules \in [1..Len(modules) -> Module] /\ Len(modules) \in Nat
        BY LenProperties
      <4>2. QED BY <2>1, <4>1 DEF registerModule
    <3>3. \A i \in DOMAIN modules :
            controllerModuleIds'[modules[i].controller] = i
      BY <2>1, <3>2 DEF registerModule
    <3>4. QED BY <3>1, <3>2, <3>3
  <2>2. ASSUME NEW moduleId \in 1..MaxModules,
               NEW status \in ModuleStatus,
               setModuleStatus(moduleId, status)
        PROVE  Fixed
    <3>1. modules \in [1..Len(modules) -> Module] /\ moduleId \in 1..Len(modules)
      <4>1. modules \in [1..Len(modules) -> Module]
        BY LenProperties
      <4>2. QED BY <2>2, <4>1 DEF setModuleStatus
    <3>2. QED BY <2>2, <3>1 DEF setModuleStatus
  <2>3. QED BY <2>1, <2>2 DEF Next
<1>2. QED BY <1>1, InitCatalogInv, StepCatalogInv, PTL
       DEF Spec, ModuleTermsFixed

-----------------------------------------------------------------------------
(* The staking wrapper.                                                    *)

\* A ledger, but for the supply being only an integer: that it is not negative
\* is a fact about sums of balances, which the argument does not need.
WeakLedger == [balance: [Accounts -> Nat],
                allowance: [Accounts -> [{Wrapper} -> Nat]],
                totalSupply: Int]

BackedInv == {scu, sScu} \subseteq WeakLedger /\ Backed

LEMMA AmountsAreNat ==
  /\ InitialBalance * Cardinality(Holders) \in Nat
  /\ Amounts \cup {0, Unlimited} \subseteq Nat
<1>1. Cardinality(Holders) \in Nat /\ InitialBalance \in Nat
  BY StakingAssumption, FS_CardinalityType
<1>2. Unlimited \in Nat
  BY StakingAssumption DEF Token!TokenAssumption
<1>3. QED BY <1>1, <1>2 DEF Amounts

\* What the ledger operators do to a ledger, for any ledger.
LEMMA TransferKeepsLedger ==
  ASSUME NEW l \in WeakLedger,
         NEW a \in Accounts, NEW b \in Accounts, NEW n \in Nat, l.balance[a] >= n
  PROVE  LET m == Token!transfer(l, a, b, n) IN
         /\ m \in WeakLedger
         /\ m.totalSupply = l.totalSupply
         /\ m.balance[b] = IF a = b THEN l.balance[b] ELSE l.balance[b] + n
         /\ a # b => m.balance[a] = l.balance[a] - n
         /\ \A c \in Accounts \ {a, b} : m.balance[c] = l.balance[c]
<1> DEFINE debited == [l.balance EXCEPT ![a] = @ - n]
           moved == [debited EXCEPT ![b] = @ + n]
<1>1. l.balance \in [Accounts -> Nat] /\ l.balance[a] - n \in Nat
  BY DEF WeakLedger
<1>2. /\ debited \in [Accounts -> Nat]
      /\ debited[a] = l.balance[a] - n
      /\ \A c \in Accounts \ {a} : debited[c] = l.balance[c]
  BY <1>1
<1>3. /\ moved \in [Accounts -> Nat]
      /\ moved[b] = debited[b] + n
      /\ \A c \in Accounts \ {b} : moved[c] = debited[c]
  <2> HIDE DEF debited
  <2>1. QED BY <1>2
<1>4. Token!transfer(l, a, b, n) = [l EXCEPT !.balance = moved]
  BY DEF Token!transfer
<1> HIDE DEF debited, moved
<1>5. LET m == Token!transfer(l, a, b, n) IN
      m \in WeakLedger /\ m.balance = moved /\ m.totalSupply = l.totalSupply
  BY <1>3, <1>4 DEF WeakLedger
<1>6. /\ moved[b] = IF a = b THEN l.balance[b] ELSE l.balance[b] + n
      /\ a # b => moved[a] = l.balance[a] - n
      /\ \A c \in Accounts \ {a, b} : moved[c] = l.balance[c]
  BY <1>1, <1>2, <1>3
<1>7. QED BY <1>5, <1>6

LEMMA MintKeepsLedger ==
  ASSUME NEW l \in WeakLedger, NEW a \in Accounts, NEW n \in Nat
  PROVE  LET m == Token!mint(l, a, n) IN
         /\ m \in WeakLedger /\ m.totalSupply = l.totalSupply + n
         /\ m.balance[a] = l.balance[a] + n
         /\ \A c \in Accounts \ {a} : m.balance[c] = l.balance[c]
<1> DEFINE held == [l.balance EXCEPT ![a] = @ + n]
<1>1. /\ held \in [Accounts -> Nat]
      /\ held[a] = l.balance[a] + n
      /\ \A c \in Accounts \ {a} : held[c] = l.balance[c]
  BY DEF WeakLedger
<1>2. Token!mint(l, a, n) =
        [l EXCEPT !.balance = held, !.totalSupply = l.totalSupply + n]
  BY DEF Token!mint, WeakLedger
<1>3. l.totalSupply + n \in Int
  BY DEF WeakLedger
<1> DEFINE supply == l.totalSupply + n
<1> HIDE DEF held, supply
<1>4. /\ [l EXCEPT !.balance = held, !.totalSupply = supply] \in WeakLedger
      /\ [l EXCEPT !.balance = held, !.totalSupply = supply].totalSupply = supply
      /\ [l EXCEPT !.balance = held, !.totalSupply = supply].balance = held
  <2>1. supply \in Int
    BY <1>3 DEF supply
  <2>2. QED BY <1>1, <2>1 DEF WeakLedger
<1>5. QED BY <1>1, <1>2, <1>4 DEF supply

LEMMA BurnKeepsLedger ==
  ASSUME NEW l \in WeakLedger, NEW a \in Accounts, NEW n \in Nat,
         l.balance[a] >= n
  PROVE  LET m == Token!burn(l, a, n) IN
         /\ m \in WeakLedger /\ m.totalSupply = l.totalSupply - n
         /\ m.balance[a] = l.balance[a] - n
         /\ \A c \in Accounts \ {a} : m.balance[c] = l.balance[c]
<1> DEFINE held == [l.balance EXCEPT ![a] = @ - n]
<1>1. /\ held \in [Accounts -> Nat]
      /\ held[a] = l.balance[a] - n
      /\ \A c \in Accounts \ {a} : held[c] = l.balance[c]
  BY DEF WeakLedger
<1>2. Token!burn(l, a, n) =
        [l EXCEPT !.balance = held, !.totalSupply = l.totalSupply - n]
  BY DEF Token!burn, WeakLedger
<1>3. l.totalSupply - n \in Int
  BY DEF WeakLedger
<1> DEFINE supply == l.totalSupply - n
<1> HIDE DEF held, supply
<1>4. /\ [l EXCEPT !.balance = held, !.totalSupply = supply] \in WeakLedger
      /\ [l EXCEPT !.balance = held, !.totalSupply = supply].totalSupply = supply
      /\ [l EXCEPT !.balance = held, !.totalSupply = supply].balance = held
  <2>1. supply \in Int
    BY <1>3 DEF supply
  <2>2. QED BY <1>1, <2>1 DEF WeakLedger
<1>5. QED BY <1>1, <1>2, <1>4 DEF supply

LEMMA SpendKeepsLedger ==
  ASSUME NEW l \in WeakLedger, NEW a \in Accounts, NEW n \in Nat,
         l.allowance[a][Wrapper] >= n
  PROVE  LET m == Token!spendAllowance(l, a, Wrapper, n) IN
         m \in WeakLedger /\ m.balance = l.balance
<1>1. CASE l.allowance[a][Wrapper] = Unlimited
  BY <1>1 DEF Token!spendAllowance
<1>2. CASE l.allowance[a][Wrapper] # Unlimited
  <2> DEFINE spent == [l.allowance[a] EXCEPT ![Wrapper] = @ - n]
             granted == [l.allowance EXCEPT ![a] = spent]
  <2>1. l.allowance \in [Accounts -> [{Wrapper} -> Nat]]
    BY DEF WeakLedger
  <2>2. spent \in [{Wrapper} -> Nat]
    BY <2>1
  <2>3. granted \in [Accounts -> [{Wrapper} -> Nat]]
    <3> HIDE DEF spent
    <3>1. QED BY <2>1, <2>2
  <2>4. Token!spendAllowance(l, a, Wrapper, n) = [l EXCEPT !.allowance = granted]
    BY <1>2 DEF Token!spendAllowance
  <2> HIDE DEF granted
  <2>5. QED BY <2>3, <2>4 DEF WeakLedger
<1>3. QED BY <1>1, <1>2

LEMMA InitBacked == StakingInit => BackedInv
  BY AmountsAreNat, StakingAssumption
  DEF StakingInit, BackedInv, Backed, WeakLedger, Accounts

\* A step that exchanges one token for the other, between one holder and the
\* wrapper.
Exchanges ==
  /\ \A h \in Holders : holdings(h)' = holdings(h)
  /\ scu'.balance[Wrapper] - scu.balance[Wrapper]
       = sScu'.totalSupply - sScu.totalSupply

LEMMA StakeBacked ==
  ASSUME BackedInv, NEW h \in Holders, NEW n \in Nat, stake(h, n)
  PROVE  BackedInv' /\ Exchanges
<1>1. h \in Accounts /\ Wrapper \in Accounts /\ h # Wrapper
  BY StakingAssumption DEF Accounts
<1> DEFINE l == Token!spendAllowance(scu, h, Wrapper, n)
<1>2. l \in WeakLedger /\ l.balance = scu.balance /\ scu.balance[h] >= n
  BY <1>1, SpendKeepsLedger DEF BackedInv, stake, Token!canSpend
<1>3. scu' = Token!transfer(l, h, Wrapper, n)
  BY DEF stake, Token!transferFrom
<1> HIDE DEF l
<1>4. /\ scu' \in WeakLedger /\ scu'.balance[Wrapper] = scu.balance[Wrapper] + n
      /\ scu'.balance[h] = scu.balance[h] - n
      /\ \A c \in Holders \ {h} : scu'.balance[c] = scu.balance[c]
  <2>1. \A c \in Holders : c \in Accounts \ {Wrapper}
    BY StakingAssumption DEF Accounts
  <2>2. QED BY <1>1, <1>2, <1>3, <2>1, TransferKeepsLedger
<1>5. /\ sScu' \in WeakLedger /\ sScu'.totalSupply = sScu.totalSupply + n
      /\ sScu'.balance[h] = sScu.balance[h] + n
      /\ \A c \in Holders \ {h} : sScu'.balance[c] = sScu.balance[c]
  BY <1>1, MintKeepsLedger DEF stake, BackedInv, Accounts
<1>6. /\ scu.balance[Wrapper] \in Nat /\ sScu.totalSupply \in Int
      /\ scu.balance[h] \in Nat /\ sScu.balance[h] \in Nat
  BY <1>1 DEF BackedInv, WeakLedger
<1>7. BackedInv'
  BY <1>4, <1>5, <1>6 DEF BackedInv, Backed
<1>8. Exchanges
  BY <1>4, <1>5, <1>6 DEF Exchanges, holdings
<1>9. QED BY <1>7, <1>8

LEMMA UnstakeBacked ==
  ASSUME BackedInv, NEW h \in Holders, NEW n \in Nat, unstake(h, n)
  PROVE  BackedInv' /\ Exchanges
<1>1. h \in Accounts /\ Wrapper \in Accounts /\ h # Wrapper
  BY StakingAssumption DEF Accounts
<1>2. /\ scu.balance[Wrapper] >= n /\ sScu.balance[h] >= n
      /\ scu' = Token!transfer(scu, Wrapper, h, n)
  BY DEF unstake, Token!canTransfer
<1>3. /\ scu' \in WeakLedger /\ scu'.balance[Wrapper] = scu.balance[Wrapper] - n
      /\ scu'.balance[h] = scu.balance[h] + n
      /\ \A c \in Holders \ {h} : scu'.balance[c] = scu.balance[c]
  <2>1. \A c \in Holders : c \in Accounts \ {Wrapper}
    BY StakingAssumption DEF Accounts
  <2>2. QED BY <1>1, <1>2, <2>1, TransferKeepsLedger DEF BackedInv
<1>4. /\ sScu' \in WeakLedger /\ sScu'.totalSupply = sScu.totalSupply - n
      /\ sScu'.balance[h] = sScu.balance[h] - n
      /\ \A c \in Holders \ {h} : sScu'.balance[c] = sScu.balance[c]
  BY <1>1, <1>2, BurnKeepsLedger DEF unstake, BackedInv, Accounts
<1>5. /\ scu.balance[Wrapper] \in Nat /\ sScu.totalSupply \in Int
      /\ scu.balance[h] \in Nat /\ sScu.balance[h] \in Nat
  BY <1>1 DEF BackedInv, WeakLedger
<1>6. BackedInv'
  BY <1>3, <1>4, <1>5 DEF BackedInv, Backed
<1>7. Exchanges
  BY <1>3, <1>4, <1>5 DEF Exchanges, holdings
<1>8. QED BY <1>6, <1>7

LEMMA ApproveBacked ==
  ASSUME BackedInv, NEW h \in Holders, NEW n \in Nat, Approve(h, n)
  PROVE  BackedInv'
<1>1. h \in Accounts
  BY DEF Accounts
<1> DEFINE granted == [scu.allowance[h] EXCEPT ![Wrapper] = n]
<1>2. granted \in [{Wrapper} -> Nat]
  BY <1>1 DEF BackedInv, WeakLedger
<1>3. scu' = [scu EXCEPT !.allowance = [scu.allowance EXCEPT ![h] = granted]]
  BY DEF Approve, Token!approve
<1> HIDE DEF granted
<1>4. scu' \in WeakLedger /\ scu'.balance = scu.balance
  BY <1>1, <1>2, <1>3 DEF BackedInv, WeakLedger
<1>5. QED BY <1>4 DEF Approve, BackedInv, Backed

LEMMA TransfersBacked ==
  ASSUME BackedInv, NEW h \in Holders, NEW to \in Accounts, NEW n \in Nat,
         TransferScu(h, to, n) \/ TransferShares(h, to, n)
  PROVE  BackedInv'
<1>1. h \in Accounts /\ Wrapper \in Accounts /\ h # Wrapper
  BY StakingAssumption DEF Accounts
<1>2. CASE TransferScu(h, to, n)
  <2>1. scu' \in WeakLedger /\ scu'.balance[Wrapper] >= scu.balance[Wrapper]
    <3>1. /\ scu' = Token!transfer(scu, h, to, n) /\ scu.balance[h] >= n
          /\ scu \in WeakLedger /\ scu.balance[Wrapper] \in Nat
      BY <1>1, <1>2 DEF TransferScu, Token!canTransfer, BackedInv, WeakLedger
    <3>2. QED BY <1>1, <3>1, TransferKeepsLedger
  <2>2. scu.balance[Wrapper] \in Nat /\ scu'.balance[Wrapper] \in Nat
    BY <1>1, <2>1 DEF BackedInv, WeakLedger
  <2>3. sScu' = sScu /\ sScu.totalSupply \in Int
    BY <1>2 DEF TransferScu, BackedInv, WeakLedger
  <2>4. QED BY <2>1, <2>2, <2>3 DEF BackedInv, Backed
<1>3. CASE TransferShares(h, to, n)
  <2>1. sScu' \in WeakLedger /\ sScu'.totalSupply = sScu.totalSupply
    BY <1>1, <1>3, TransferKeepsLedger
    DEF TransferShares, Token!canTransfer, BackedInv
  <2>2. QED BY <1>3, <2>1 DEF TransferShares, BackedInv, Backed
<1>4. QED BY <1>2, <1>3

LEMMA StepBacked ==
  ASSUME BackedInv, [StakingNext]_stakingVars
  PROVE  BackedInv' /\ (sScu'.totalSupply # sScu.totalSupply => Exchanges)
<1>1. ASSUME NEW h \in Holders, NEW n \in Amounts \cup {0, Unlimited},
             stake(h, n) \/ unstake(h, n)
      PROVE  BackedInv' /\ Exchanges
  <2>1. n \in Nat
    BY AmountsAreNat
  <2>2. QED BY <1>1, <2>1, StakeBacked, UnstakeBacked
<1>2. ASSUME NEW h \in Holders, NEW n \in Amounts \cup {0, Unlimited}, Approve(h, n)
      PROVE  BackedInv' /\ sScu' = sScu
  <2>1. n \in Nat
    BY AmountsAreNat
  <2>2. QED BY <1>2, <2>1, ApproveBacked DEF Approve
<1>3. ASSUME NEW h \in Holders, NEW n \in Amounts \cup {0, Unlimited},
             NEW to \in Accounts, TransferScu(h, to, n) \/ TransferShares(h, to, n)
      PROVE  BackedInv' /\ sScu'.totalSupply = sScu.totalSupply
  <2>1. n \in Nat
    BY AmountsAreNat
  <2>2. sScu'.totalSupply = sScu.totalSupply
    BY <1>3, <2>1, TransferKeepsLedger
    DEF TransferScu, TransferShares, Token!canTransfer, BackedInv, Accounts
  <2>3. QED BY <1>3, <2>1, <2>2, TransfersBacked
<1>4. CASE UNCHANGED stakingVars
  BY <1>4 DEF stakingVars, BackedInv, Backed
<1>5. QED BY <1>1, <1>2, <1>3, <1>4 DEF StakingNext

\* Every sSCU can always be exchanged back: stake, unstake, approvals and
\* transfers of either token, in any order, keep the wrapper's SCU at or above
\* the sSCU in circulation (ScuroStakingToken).
THEOREM AlwaysBacked == StakingSpec => []Backed
<1>1. BackedInv => Backed
  BY DEF BackedInv
<1>2. QED BY <1>1, InitBacked, StepBacked, PTL DEF StakingSpec

\* Whoever stakes or unstakes, no holder has more or less in the two tokens
\* together, and the wrapper holds as much more as there are more shares.
THEOREM WrappingAlwaysEven == StakingSpec => WrappingIsEven
<1>1. BackedInv /\ [StakingNext]_stakingVars =>
        [sScu'.totalSupply # sScu.totalSupply =>
           /\ \A h \in Holders : holdings(h)' = holdings(h)
           /\ scu'.balance[Wrapper] - scu.balance[Wrapper]
                = sScu'.totalSupply - sScu.totalSupply]_stakingVars
  BY StepBacked DEF Exchanges
<1>2. QED BY <1>1, InitBacked, StepBacked, PTL DEF StakingSpec, WrappingIsEven
=============================================================================
