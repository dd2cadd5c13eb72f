------------------------- MODULE ProtocolSettlement -------------------------
(***************************************************************************)
(* The settlement layer (src/src/ProtocolSettlement.sol) together with the *)
(* contracts it moves value through: the SCU ledger, the module catalog,   *)
(* the expression registry and the developer rewards.  Game modules extend *)
(* this one.  A controller's transaction is one step, built from settlement *)
(* calls: a guard can...(controller, ...) and an effect on the ledger, or, *)
(* for developer accrual, an action on the rewards.                        *)
(*                                                                         *)
(* ProtocolNext is everything that may happen between two game calls:      *)
(* governance, moderation, expression mints and transfers, approvals, the  *)
(* clock, epoch closing and claims.  The deployment is the initial state.  *)
(***************************************************************************)
EXTENDS Integers, Sequences, FiniteSets, FiniteSetsExt, Functions, DeveloperRewards

CONSTANTS Players, Nobody,
          Controllers, Engines, EngineTypes, RewardBps,
          DeployedModules,   \* the modules the deployment registered, in order
          StatusChanges,     \* statuses governance may set
          ExpressionTypes,   \* engine types developers mint expressions for
          MaxExpressions,
          ApproveAmounts,    \* allowances players may set
          InitialBalance,    \* SCU of each player at deployment
          InitialAllowance,  \* what each player has approved at deployment
          MaxSupply, Unlimited

VARIABLES token,
          modules, controllerModuleIds, engineModuleIds,
          nextExpressionId, expressions

Accounts == Players \cup Developers

Token == INSTANCE ScuroToken WITH Spenders <- {"settlement"}
Catalog == INSTANCE GameCatalog WITH MaxModules <- Len(DeployedModules)
Registry == INSTANCE DeveloperExpressionRegistry
              WITH EngineTypes <- ExpressionTypes

ASSUME SettlementAssumption ==
  /\ Token!TokenAssumption
  /\ Registry!RegistryAssumption
  /\ IsFiniteSet(Players) /\ IsFiniteSet(Developers) /\ Nobody \notin Players
  /\ InitialBalance \in Nat /\ InitialAllowance \in Nat
  /\ ApproveAmounts \subseteq Nat
  /\ ExpressionTypes # {}
  /\ RewardBps \subseteq 0..10000
  /\ StatusChanges \subseteq Catalog!ModuleStatus
  /\ DeployedModules \in Seq(Catalog!Module)
  /\ \A i, j \in DOMAIN DeployedModules : i # j =>
       /\ DeployedModules[i].controller # DeployedModules[j].controller
       /\ DeployedModules[i].engine # DeployedModules[j].engine

catalogVars == <<modules, controllerModuleIds, engineModuleIds>>
registryVars == <<nextExpressionId, expressions>>
protocolVars == <<token, catalogVars, registryVars, rewardsVars>>

-----------------------------------------------------------------------------
(* The settlement calls.                                                   *)

canBurnPlayerWager(controller, player, amount) ==
  /\ Catalog!isSettlableController(controller)
  /\ Token!canSpend(token, player, "settlement", amount)

burnPlayerWager(l, player, amount) ==
  Token!burnFrom(l, "settlement", player, amount)

\* A reward of 0 returns before the token is called.
canMintPlayerReward(controller, l, amount) ==
  /\ Catalog!isSettlableController(controller)
  /\ amount = 0 \/ Token!canMint(l, amount)

mintPlayerReward(l, player, amount) == Token!mint(l, player, amount)

\* Several rewards minted one after the other in one transaction.
mintPlayerRewards(l, rewards) ==
  [l EXCEPT !.balance = [a \in Accounts |-> @[a] + rewards[a]],
            !.totalSupply = @ + SumFunction(rewards)]

developerAccrual(controller, activityAmount) ==
  (activityAmount * Catalog!getModuleByController(controller).developerRewardBps)
    \div 10000

\* Compatibility is asked for whenever there is activity, even at a rate of 0.
accrueDeveloperForExpression(controller, expressionTokenId, activityAmount) ==
  /\ Catalog!isSettlableController(controller)
  /\ \/ /\ activityAmount = 0
        /\ UNCHANGED rewardsVars
     \/ /\ activityAmount > 0
        /\ Registry!isExpressionCompatible(
             Catalog!getModuleByController(controller).engineType,
             expressionTokenId)
        /\ accrue(expressions[expressionTokenId].owner,
                          developerAccrual(controller, activityAmount))

-----------------------------------------------------------------------------
(* The deployment, and everything that is not a game call.                 *)

deployedId(field, address) ==
  LET ids == {i \in DOMAIN DeployedModules : DeployedModules[i][field] = address}
  IN  IF ids = {} THEN 0 ELSE CHOOSE i \in ids : TRUE

ProtocolInit ==
  /\ token = [balance |-> [a \in Accounts |->
                             IF a \in Players THEN InitialBalance ELSE 0],
              allowance |-> [a \in Accounts |-> [s \in {"settlement"} |->
                             IF a \in Players THEN InitialAllowance ELSE 0]],
              totalSupply |-> InitialBalance * Cardinality(Players)]
  /\ modules = DeployedModules
  /\ controllerModuleIds = [c \in Controllers |-> deployedId("controller", c)]
  /\ engineModuleIds = [e \in Engines |-> deployedId("engine", e)]
  /\ Registry!Init
  /\ RewardsInit

Govern ==
  /\ \E i \in DOMAIN modules, status \in StatusChanges :
       Catalog!setModuleStatus(i, status)
  /\ UNCHANGED <<token, registryVars, rewardsVars>>

ManageExpressions ==
  /\ \/ \E d \in Developers, t \in ExpressionTypes : Registry!mintExpression(d, t)
     \/ \E id \in Registry!ExpressionIds :
          \/ \E active \in BOOLEAN : Registry!setExpressionActive(id, active)
          \/ \E d \in Developers : Registry!transferExpression(id, d)
  /\ UNCHANGED <<token, catalogVars, rewardsVars>>

Approve ==
  /\ \E p \in Players, amount \in ApproveAmounts :
       token' = Token!approve(token, p, "settlement", amount)
  /\ UNCHANGED <<catalogVars, registryVars, rewardsVars>>

RunEpochs ==
  /\ \/ Tick
     \/ closeCurrentEpoch
     \/ \E duration \in Durations : setEpochDuration(duration)
  /\ UNCHANGED <<token, catalogVars, registryVars>>

Claim(d, epochs) ==
  /\ claim(d, epochs)
  /\ Token!canMint(token, claimTotal(d, epochs))
  /\ token' = Token!mint(token, d, claimTotal(d, epochs))
  /\ UNCHANGED <<catalogVars, registryVars>>

ProtocolNext ==
  \/ Govern
  \/ ManageExpressions
  \/ Approve
  \/ RunEpochs
  \/ \E d \in Developers, epochs \in ClaimLists : Claim(d, epochs)
=============================================================================
