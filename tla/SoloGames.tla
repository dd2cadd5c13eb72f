------------------------------ MODULE SoloGames ------------------------------
(***************************************************************************)
(* The two solo games with one randomness coordinator, one ledger and one  *)
(* settlement: SuperBaccarat and NumberPicker, interleaved with everything *)
(* governance, developers and the clock may do.  Each engine files its     *)
(* requests under the number it reads ahead from the shared coordinator.   *)
(*                                                                         *)
(* The coordinator answers a request inside it or later.  A number picker  *)
(* request that is not answered inside reverts, and play with it; with     *)
(* DelayedVRF no request is ever answered inside.                          *)
(***************************************************************************)
EXTENDS BaseSoloController

CONSTANTS baccaratController, baccaratEngine, Sides,
          Wad, PLAYER_PAYOUT_WAD, BANKER_PAYOUT_WAD, TIE_PAYOUT_WAD,
          pickerController, pickerEngine, DelayedVRF, Selections, Rolls

ASSUME GamesAssumption ==
  /\ {baccaratController, pickerController} \subseteq SoloControllers \cap Controllers
  /\ baccaratController # pickerController
  /\ {baccaratEngine, pickerEngine} \subseteq Engines
  /\ Sides \subseteq {"Player", "Banker", "Tie"}
  /\ Wad \in Nat \ {0}
  /\ {PLAYER_PAYOUT_WAD, BANKER_PAYOUT_WAD, TIE_PAYOUT_WAD} \subseteq Nat
  /\ DelayedVRF \in BOOLEAN
  /\ Selections \subseteq Nat /\ Rolls \subseteq 1..100

VARIABLES baccaratRequests, pickerRequests

Baccarat == INSTANCE SuperBaccarat WITH playRequests <- baccaratRequests
Picker == INSTANCE NumberPicker WITH playRequests <- pickerRequests

vars == <<protocolVars, soloVars, baccaratRequests, pickerRequests>>

Init ==
  /\ ProtocolInit /\ SoloInit
  /\ Baccarat!SuperBaccaratInit
  /\ Picker!NumberPickerInit

PickerPlays == Picker!NumberPickerPlay /\ UNCHANGED baccaratRequests

Next ==
  \/ Baccarat!SuperBaccaratNext /\ UNCHANGED pickerRequests
  \/ PickerPlays
  \/ ProtocolNext /\ UNCHANGED <<soloVars, baccaratRequests, pickerRequests>>

NextDelayed ==
  \/ Next
  \/ Picker!NumberPickerLater /\ UNCHANGED baccaratRequests

Spec == Init /\ [][Next]_vars

Answered(id) ==
  /\ \E outcome \in Baccarat!BaccaratOutcome :
       Baccarat!rawFulfillRandomWords(id, outcome)
  /\ UNCHANGED pickerRequests

Settled(id) == Baccarat!settle(id) /\ UNCHANGED pickerRequests

\* The coordinator answers every request it is able to, and somebody (the
\* player has the interest, anyone has the right) settles what can be settled.
FairSpec ==
  Spec /\ \A id \in RequestIds : WF_vars(Answered(id)) /\ WF_vars(Settled(id))

PickerAnswered(id) ==
  /\ \E roll \in Rolls : Picker!rawFulfillRandomWords(id, roll)
  /\ UNCHANGED baccaratRequests

PickerFinalized(id) == Picker!finalize(id) /\ UNCHANGED baccaratRequests

\* A player who keeps trying to play, with a coordinator that answers every
\* request it can, later, and a caller who finalizes whatever is completed.
FairSpecDelayed ==
  /\ Init /\ [][NextDelayed]_vars
  /\ WF_vars(PickerPlays)
  /\ \A id \in RequestIds : WF_vars(PickerAnswered(id)) /\ WF_vars(PickerFinalized(id))

-----------------------------------------------------------------------------
\* Every balance is explained by sessions and claims: the wagers burned at
\* play, the payouts of settled sessions paid once each, and what the account
\* has been minted as a developer.  A number picker session is settled as it is
\* played, no request belongs to both engines, and the supply is what accounts
\* hold.
BalancesExplained ==
  /\ Token!SupplyHeld(token)
  /\ Picker!settledSessions = Picker!sessions
  /\ Baccarat!sessions \cup Picker!sessions = 1..requestCounter
  /\ Baccarat!sessions \cap Picker!sessions = {}
  /\ \A p \in Players :
       LET rounds == {id \in Baccarat!sessions : baccaratRequests[id].player = p}
           picks == {id \in Picker!sessions : pickerRequests[id].player = p}
       IN  token.balance[p]
             + SumFunction([id \in rounds |-> baccaratRequests[id].wager])
             + SumFunction([id \in picks |-> pickerRequests[id].wager]) =
           InitialBalance
             + SumFunction([id \in rounds \cap Baccarat!settledSessions |->
                             baccaratRequests[id].payout])
             + SumFunction([id \in picks |-> pickerRequests[id].payout])
             + (IF p \in Developers THEN claimMinted[p] ELSE 0)

\* Developers together are owed the rate of the wagers of settled sessions, at
\* their module's rate and rounded per session, whatever happened to the
\* expressions, the modules and the epochs between play and settlement; none of
\* it is accrued for a session that is not settled.
AccrualsExplained ==
  SumFunction([e \in Epochs |-> SumFunction(epochAccrual[e])]) =
    SumFunction([id \in Baccarat!settledSessions |->
                   developerAccrual(baccaratController, baccaratRequests[id].wager)])
    + SumFunction([id \in Picker!settledSessions |->
                     developerAccrual(pickerController, pickerRequests[id].wager)])

\* A settled baccarat session is completed and its terms are final, and so is a
\* played pick, whatever the other game does on the same coordinator.
RoundsFinal == Baccarat!RoundsFinal /\ Picker!PicksFinal

\* A winning pick never returns less than its wager and a losing one nothing;
\* a higher selection never pays more on the same wager.
PayoutsOrdered == Picker!PayoutsOrdered

\* A session whose module is not disabled for good and whose expression ends
\* up compatible is settled: retiring the module, deactivating the expression
\* for a while, or a late answer of the coordinator only delay it.
SessionsSettle ==
  \A id \in RequestIds :
    <>[]Baccarat!StaysSettlable(id) =>
      (id \in Baccarat!sessions ~> id \in Baccarat!settledSessions)

\* docs/session-specs/number-picker.md: the controller finalizes a request at
\* once if it is resolved, "otherwise any caller may later call finalize".
\* A funded player who keeps calling play on a launchable module, with a
\* compatible expression, has some play settled in the end.
PlaysSettle == <>[]Picker!CanPlay => <>(Picker!settledSessions # {})
=============================================================================
