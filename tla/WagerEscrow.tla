---------------------------- MODULE WagerEscrow ----------------------------
(***************************************************************************)
(* What a zero-sum table promises about money, without saying how: wagers  *)
(* leave circulation into the table's escrow, and the table, once, returns *)
(* all of its escrow to circulation.  Nothing is lost in rounding, no table *)
(* creates anything, and no wager is accepted by a table that is over.     *)
(* What comes into circulation otherwise is issued, and counted.           *)
(***************************************************************************)
EXTENDS Naturals, Functions

CONSTANTS Games, Supply,
          Cap    \* circulation is never issued above it

VARIABLES circulating, issued, escrow, over

vars == <<circulating, issued, escrow, over>>

Init ==
  /\ circulating = Supply
  /\ issued = 0
  /\ escrow = [g \in Games |-> 0]
  /\ over = [g \in Games |-> FALSE]

Deposit(g) ==
  /\ ~over[g]
  /\ \E amount \in 1..circulating :
       /\ escrow' = [escrow EXCEPT ![g] = @ + amount]
       /\ circulating' = circulating - amount
  /\ UNCHANGED <<issued, over>>

Release(g) ==
  /\ ~over[g] /\ escrow[g] > 0
  /\ escrow' = [escrow EXCEPT ![g] = 0]
  /\ circulating' = circulating + escrow[g]
  /\ over' = [over EXCEPT ![g] = TRUE]
  /\ UNCHANGED issued

Issue ==
  /\ \E amount \in 1..(Cap - circulating) :
       /\ circulating' = circulating + amount
       /\ issued' = issued + amount
  /\ UNCHANGED <<escrow, over>>

Next ==
  \/ \E g \in Games : Deposit(g) \/ Release(g)
  \/ Issue

Spec == Init /\ [][Next]_vars

\* No unit is lost and none comes from nowhere.
Conserved == circulating + SumFunction(escrow) = Supply + issued
=============================================================================
