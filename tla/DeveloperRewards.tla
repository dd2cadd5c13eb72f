-------------------------- MODULE DeveloperRewards --------------------------
(***************************************************************************)
(* Epoch accounting of developer rewards (src/src/DeveloperRewards.sol).   *)
(* Settlement accrues into the current epoch; an epoch manager closes it   *)
(* once its wall-clock duration has passed; a developer claims any list of *)
(* closed epochs and is minted their total in one call.  claimMinted is    *)
(* the SCU that claim() has asked the token to mint, per developer.        *)
(***************************************************************************)
EXTENDS Naturals, Sequences, Functions

CONSTANTS Developers,     \* accounts that own expressions
          Durations,      \* epoch durations the manager may set
          MaxEpoch,       \* bound: the last epoch that can be current
          MaxTime,        \* bound on block.timestamp
          MaxClaimLength  \* bound on the length of claim's epoch list

ASSUME RewardsAssumption ==
  /\ Durations \subseteq Nat \ {0} /\ Durations # {}
  /\ MaxEpoch \in Nat \ {0}

VARIABLES now,            \* block.timestamp
          currentEpoch, epochDuration, epochStart,
          epochClosed, epochAccrual, epochClaimed,
          claimMinted

rewardsVars == <<now, currentEpoch, epochDuration, epochStart,
                 epochClosed, epochAccrual, epochClaimed, claimMinted>>

Epochs == 1..MaxEpoch

-----------------------------------------------------------------------------
(* Plausible bugs, defined to show that the properties can fail.           *)

\* the list is checked once up front, so a repeated epoch is paid twice
claimCountsRepeats(d, epochs) ==
  /\ \A i \in DOMAIN epochs :
       epochClosed[epochs[i]] /\ ~epochClaimed[epochs[i]][d]
  /\ epochClaimed' = [e \in Epochs |->
       [epochClaimed[e] EXCEPT ![d] = @ \/ e \in Range(epochs)]]
  /\ claimMinted' = [claimMinted EXCEPT ![d] =
       @ + SumFunction([i \in DOMAIN epochs |-> epochAccrual[epochs[i]][d]])]
  /\ UNCHANGED <<now, currentEpoch, epochDuration, epochStart,
                 epochClosed, epochAccrual>>

\* accruals are booked by start time, into the epoch before the current one
\* once the current epoch has begun
accrueLate(developer, amount) ==
  LET epoch == IF currentEpoch > 1 /\ now = epochStart
                 THEN currentEpoch - 1 ELSE currentEpoch
  IN  /\ epochAccrual' = [epochAccrual EXCEPT ![epoch][developer] = @ + amount]
      /\ UNCHANGED <<now, currentEpoch, epochDuration, epochStart,
                     epochClosed, epochClaimed, claimMinted>>

-----------------------------------------------------------------------------
RewardsInit ==
  /\ now = 0
  /\ currentEpoch = 1
  /\ epochDuration \in Durations
  /\ epochStart = now
  /\ epochClosed = [e \in Epochs |-> FALSE]
  /\ epochAccrual = [e \in Epochs |-> [d \in Developers |-> 0]]
  /\ epochClaimed = [e \in Epochs |-> [d \in Developers |-> FALSE]]
  /\ claimMinted = [d \in Developers |-> 0]

Tick ==
  /\ now < MaxTime
  /\ now' = now + 1
  /\ UNCHANGED <<currentEpoch, epochDuration, epochStart,
                 epochClosed, epochAccrual, epochClaimed, claimMinted>>

\* EPOCH_MANAGER_ROLE
setEpochDuration(newDuration) ==
  /\ epochDuration' = newDuration
  /\ UNCHANGED <<now, currentEpoch, epochStart,
                 epochClosed, epochAccrual, epochClaimed, claimMinted>>

\* SETTLEMENT_ROLE; an amount of 0 returns early, which adding 0 is.
accrue(developer, amount) ==
  /\ epochAccrual' =
       [epochAccrual EXCEPT ![currentEpoch][developer] = @ + amount]
  /\ UNCHANGED <<now, currentEpoch, epochDuration, epochStart,
                 epochClosed, epochClaimed, claimMinted>>

\* EPOCH_MANAGER_ROLE
closeCurrentEpoch ==
  /\ currentEpoch < MaxEpoch
  /\ now >= epochStart + epochDuration
  /\ epochClosed' = [epochClosed EXCEPT ![currentEpoch] = TRUE]
  /\ currentEpoch' = currentEpoch + 1
  /\ epochStart' = now
  /\ UNCHANGED <<now, epochDuration, epochAccrual, epochClaimed, claimMinted>>

\* What the closed, unclaimed epochs of a list are worth to d.
claimTotal(d, epochs) ==
  SumFunction([e \in Range(epochs) |-> epochAccrual[e][d]])

\* The loop rejects an epoch that is open or already marked, and marks as it
\* goes, so a list that repeats an epoch reverts.
claim(d, epochs) ==
  /\ \A i \in DOMAIN epochs :
       epochClosed[epochs[i]] /\ ~epochClaimed[epochs[i]][d]
  /\ IsInjective(epochs)
  /\ epochClaimed' = [e \in Epochs |->
       [epochClaimed[e] EXCEPT ![d] = @ \/ e \in Range(epochs)]]
  /\ claimMinted' = [claimMinted EXCEPT ![d] = @ + claimTotal(d, epochs)]
  /\ UNCHANGED <<now, currentEpoch, epochDuration, epochStart,
                 epochClosed, epochAccrual>>

ClaimLists == UNION {[1..n -> Epochs] : n \in 0..MaxClaimLength}

\* Settlement may accrue any amount to anyone; ProtocolSettlement has the
\* amounts it does accrue.
RewardsNext ==
  \/ Tick
  \/ \E newDuration \in Durations : setEpochDuration(newDuration)
  \/ \E developer \in Developers, amount \in Nat : accrue(developer, amount)
  \/ closeCurrentEpoch
  \/ \E d \in Developers, epochs \in ClaimLists : claim(d, epochs)

RewardsSpec == RewardsInit /\ [][RewardsNext]_rewardsVars

-----------------------------------------------------------------------------
\* The types of the accounting state.
RewardsTypeOK ==
  /\ now \in Nat
  /\ currentEpoch \in Epochs
  /\ epochDuration \in Nat \ {0}
  /\ epochStart \in Nat /\ epochStart <= now
  /\ epochClosed \in [Epochs -> BOOLEAN]
  /\ epochAccrual \in [Epochs -> [Developers -> Nat]]
  /\ epochClaimed \in [Epochs -> [Developers -> BOOLEAN]]
  /\ claimMinted \in [Developers -> Nat]

\* The closed epochs are exactly those before the current one, so whatever
\* settlement accrues becomes claimable when its epoch closes and never before.
ClosedAreThePast ==
  /\ \A e \in Epochs : epochClosed[e] <=> e < currentEpoch
  /\ \A e \in Epochs, d \in Developers :
       epochClaimed[e][d] => epochClosed[e]

claimedEpochs(d) == {e \in Epochs : epochClaimed[e][d]}

\* What a developer has been minted is what the epochs marked as claimed are
\* worth: no list of epochs, in any order, with repeats or over several calls,
\* is paid twice or left out, and a claimed epoch gains nothing afterwards.
PaidIsClaimed ==
  \A d \in Developers :
    claimMinted[d] = SumFunction([e \in claimedEpochs(d) |-> epochAccrual[e][d]])

\* A closed epoch is final: it never reopens and no accrual lands in it, even
\* one booked by a session that was opened while the epoch was current.
ClosedEpochFrozen ==
  [][ \A e \in Epochs : epochClosed[e] =>
        epochClosed'[e] /\ epochAccrual'[e] = epochAccrual[e] ]_rewardsVars
=============================================================================
