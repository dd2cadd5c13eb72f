---------------------------- MODULE ScuroStaking ----------------------------
(***************************************************************************)
(* The staking wrapper (src/src/ScuroStakingToken.sol): SCU in, the same   *)
(* amount of sSCU out, and back.  Both tokens move freely between holders, *)
(* and nothing stops SCU from being sent to the wrapper's own address, or  *)
(* games from burning and minting holders' SCU.  Vote checkpoints and      *)
(* permits are left out.                                                   *)
(***************************************************************************)
EXTENDS Integers, FiniteSets, Functions

CONSTANTS Holders, Wrapper,  \* Wrapper is the staking contract's address
          InitialBalance, MaxSupply, Unlimited

VARIABLES scu, sScu  \* the two ledgers

stakingVars == <<scu, sScu>>

Accounts == Holders \cup {Wrapper}

Token == INSTANCE ScuroToken WITH Spenders <- {Wrapper}

ASSUME StakingAssumption ==
  /\ Token!TokenAssumption
  /\ Wrapper \notin Holders /\ IsFiniteSet(Holders)
  /\ InitialBalance \in Nat
  /\ InitialBalance * Cardinality(Holders) <= MaxSupply

Amounts == 1..(InitialBalance * Cardinality(Holders))

StakingInit ==
  /\ scu = [balance |-> [a \in Accounts |->
                           IF a \in Holders THEN InitialBalance ELSE 0],
            allowance |-> [a \in Accounts |-> [s \in {Wrapper} |-> 0]],
            totalSupply |-> InitialBalance * Cardinality(Holders)]
  /\ sScu = [balance |-> [a \in Accounts |-> 0],
             allowance |-> [a \in Accounts |-> [s \in {Wrapper} |-> 0]],
             totalSupply |-> 0]

-----------------------------------------------------------------------------
(* Plausible bugs, defined to show that the properties can fail.           *)

\* sSCU is burned only when the wrapper's SCU would otherwise not cover it
unstakeKeepsShares(holder, amount) ==
  /\ amount > 0
  /\ Token!canTransfer(sScu, holder, amount)
  /\ Token!canTransfer(scu, Wrapper, amount)
  /\ scu' = Token!transfer(scu, Wrapper, holder, amount)
  /\ sScu' = IF scu.balance[Wrapper] > sScu.totalSupply
               THEN sScu ELSE Token!burn(sScu, holder, amount)

\* sSCU is worth a share of the wrapper's whole SCU balance, which transfers
\* to the wrapper inflate
unstakeProRata(holder, amount) ==
  LET paid == (amount * scu.balance[Wrapper]) \div sScu.totalSupply IN
  /\ amount > 0
  /\ Token!canTransfer(sScu, holder, amount)
  /\ scu' = Token!transfer(scu, Wrapper, holder, paid)
  /\ sScu' = Token!burn(sScu, holder, amount)

-----------------------------------------------------------------------------
stake(holder, amount) ==
  /\ amount > 0
  /\ Token!canSpend(scu, holder, Wrapper, amount)
  /\ Token!canMint(sScu, amount)
  /\ scu' = Token!transferFrom(scu, Wrapper, holder, Wrapper, amount)
  /\ sScu' = Token!mint(sScu, holder, amount)

unstake(holder, amount) ==
  /\ amount > 0
  /\ Token!canTransfer(sScu, holder, amount)
  /\ Token!canTransfer(scu, Wrapper, amount)
  /\ scu' = Token!transfer(scu, Wrapper, holder, amount)
  /\ sScu' = Token!burn(sScu, holder, amount)

Approve(holder, amount) ==
  /\ scu' = Token!approve(scu, holder, Wrapper, amount)
  /\ UNCHANGED sScu

TransferScu(holder, to, amount) ==
  /\ Token!canTransfer(scu, holder, amount)
  /\ scu' = Token!transfer(scu, holder, to, amount)
  /\ UNCHANGED sScu

TransferShares(holder, to, amount) ==
  /\ Token!canTransfer(sScu, holder, amount)
  /\ sScu' = Token!transfer(sScu, holder, to, amount)
  /\ UNCHANGED scu

StakingNext ==
  \E holder \in Holders, amount \in Amounts \cup {0, Unlimited} :
    \/ stake(holder, amount)
    \/ unstake(holder, amount)
    \/ Approve(holder, amount)
    \/ \E to \in Accounts : TransferScu(holder, to, amount)
                              \/ TransferShares(holder, to, amount)

StakingSpec == StakingInit /\ [][StakingNext]_stakingVars

-----------------------------------------------------------------------------
\* The wrapper always holds the SCU that every sSCU in circulation can be
\* exchanged for, whoever transferred what to whom.
Backed == scu.balance[Wrapper] >= sScu.totalSupply

\* Staking and unstaking only exchange: a step that changes the supply of sSCU
\* leaves what every holder has in the two tokens together as it was, and moves
\* the wrapper's SCU by the same amount.
holdings(a) == scu.balance[a] + sScu.balance[a]

WrappingIsEven ==
  [][ sScu'.totalSupply # sScu.totalSupply =>
        /\ \A h \in Holders : holdings(h)' = holdings(h)
        /\ scu'.balance[Wrapper] - scu.balance[Wrapper]
             = sScu'.totalSupply - sScu.totalSupply ]_stakingVars
=============================================================================
