----------------------------- MODULE MatchEngine -----------------------------
(***************************************************************************)
(* What the competitive controllers rely on in an engine                   *)
(* (src/src/interfaces/ITournamentGameEngine.sol): a match is initialized  *)
(* at most once and, if it completes, names its winner for good.           *)
(***************************************************************************)
VARIABLES matchState, matchWinner, isTie

vars == <<matchState, matchWinner, isTie>>

Init == matchState = "Inactive" /\ matchWinner = 2 /\ isTie = FALSE

initialize ==
  /\ matchState = "Inactive"
  /\ matchState' = "Active"
  /\ UNCHANGED <<matchWinner, isTie>>

complete(winner) ==
  /\ matchState = "Active"
  /\ matchState' = "Completed"
  /\ matchWinner' = winner
  /\ UNCHANGED isTie

Next == initialize \/ \E winner \in {0, 1} : complete(winner)

Spec == Init /\ [][Next]_vars
=============================================================================
