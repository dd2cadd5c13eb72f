----------------------------- MODULE SlotMachine -----------------------------
(***************************************************************************)
(* SlotMachineController over SlotMachineEngine (src/src/controllers and   *)
(* src/src/engines).  A manager registers presets and switches them on and *)
(* off; spin burns the stake, asks for randomness, gets the answer and     *)
(* settles, all in one transaction, which reverts if the answer does.  The *)
(* coordinator is the mock, which answers inside the request: with one     *)
(* that answers later, spin reverts on the pending request, as the number  *)
(* picker's play does, and with the mock settle finds nothing to settle.   *)
(*                                                                         *)
(* Presets are immutable records; SlotFeatures has what a spin of one may  *)
(* resolve to.                                                             *)
(***************************************************************************)
EXTENDS BaseSoloController, SlotFeatures

CONSTANTS slotController, slotEngine,
          PresetConfigs,  \* the configurations managers try to register
          MaxPresets      \* bound: presets registered

\* What a preset is made of, before it is validated.
PresetConfig ==
  [reelCount: Nat, rowCount: Nat, minStake: Nat, maxStake: Nat,
   maxPayoutMultiplierBps: Nat,
   wildSymbolId: Nat, scatterSymbolId: Nat, bonusSymbolId: Nat, jackpotSymbolId: Nat,
   reels: Seq(SUBSET Nat),
   paytable: Seq([symbol: Nat, matchCount: Nat, multiplierBps: Nat]),
   freeSpinTriggerCount: Nat, freeSpinAwardCounts: Seq(Nat),
   maxFreeSpins: Nat, maxRetriggers: Nat, freeSpinMultiplierBps: Nat,
   pickTriggerCount: Nat, maxPickReveals: Nat, pickAwardMultiplierBps: Seq(Nat),
   holdTriggerCount: Nat, holdBoardSize: Nat, initialRespins: Nat, maxRespins: Nat,
   holdValueMultiplierBps: Seq(Nat),
   jackpotTiers: Seq([tierId: Nat, awardMultiplierBps: Nat, weight: Nat]),
   maxTotalEvents: Nat]

ASSUME SlotAssumption ==
  /\ slotController \in SoloControllers \cap Controllers
  /\ PresetConfigs \subseteq PresetConfig

VARIABLES presets, presetActive, spins

slotVars == <<presets, presetActive, spins>>
spinVars == <<protocolVars, soloVars, slotVars>>

NoSpin == [player |-> Nobody, presetId |-> 0, stake |-> 0, result |-> Reverted]

SlotInit ==
  /\ ProtocolInit /\ SoloInit
  /\ presets = <<>>
  /\ presetActive = <<>>
  /\ spins = [id \in RequestIds |-> NoSpin]

\* The parts of the validation that the configurations here can fail.
validatePreset(config) ==
  /\ config.reelCount \in 3..6 /\ config.rowCount \in 3..4
  /\ Len(config.reels) = config.reelCount
  /\ \A reel \in DOMAIN config.reels : config.reels[reel] # {}
  /\ config.paytable # <<>>
  /\ config.freeSpinAwardCounts # <<>>
  /\ config.maxFreeSpins > 0 /\ config.maxRetriggers <= config.maxFreeSpins
  /\ config.maxPickReveals \in 1..16 /\ config.pickAwardMultiplierBps # <<>>
  /\ config.holdBoardSize > 0 /\ config.holdValueMultiplierBps # <<>>
  /\ config.initialRespins > 0 /\ config.maxRespins > 0
  /\ Len(config.jackpotTiers) <= 4
  /\ config.maxTotalEvents \in 1..64

registerPreset(config) ==
  /\ Len(presets) < MaxPresets
  /\ validatePreset(config)
  /\ presets' = Append(presets, config)
  /\ presetActive' = Append(presetActive, TRUE)
  /\ UNCHANGED <<spins, protocolVars, soloVars>>

setPresetActive(presetId, active) ==
  /\ presetId \in DOMAIN presets
  /\ presetActive[presetId] # active  \* setting it again changes nothing
  /\ presetActive' = [presetActive EXCEPT ![presetId] = active]
  /\ UNCHANGED <<presets, spins, protocolVars, soloVars>>

\* The resolutions of every configuration and stake, which no state changes.
Resolutions == {[config |-> config, stake |-> stake, results |-> resolutions(config, stake)] :
                  config \in {c \in PresetConfigs : validatePreset(c)}, stake \in Wagers}

stakeAllowed(preset, stake) ==
  /\ stake >= preset.minStake
  /\ preset.maxStake # 0 => stake <= preset.maxStake

-----------------------------------------------------------------------------
\* Bug: the jackpot, already part of the hold and spin's payout, is paid again
finalizeSpinJackpotTwice(spinId, l) ==
  /\ Catalog!isSettlableController(slotController)
  /\ markSettled(slotController, spinId)
  /\ ~spins'[spinId].result.reverted
  /\ mintAndAccrue(slotController, l, spins'[spinId].player,
                   spins'[spinId].result.totalPayout + spins'[spinId].result.jackpotPayout,
                   spins'[spinId].stake, spinId)

\* _finalize, over the spins as this transaction leaves them and the ledger l
\* it has produced so far.
finalizeSpin(spinId, l) ==
  /\ Catalog!isSettlableController(slotController)
  /\ markSettled(slotController, spinId)
  /\ ~spins'[spinId].result.reverted
  /\ mintAndAccrue(slotController, l, spins'[spinId].player,
                   spins'[spinId].result.totalPayout, spins'[spinId].stake, spinId)

\* The engine's side, with the coordinator's answer inside the request: it
\* resolves the spin or reverts.
requestSpin(player, stake, presetId, result) ==
  /\ Catalog!isAuthorizedControllerForEngine(slotController, slotEngine)
  /\ presetActive[presetId]
  /\ stakeAllowed(presets[presetId], stake)
  /\ requestRandomWords
  /\ Catalog!isSettlableEngine(slotEngine)
  /\ ~result.reverted
  /\ spins' = [spins EXCEPT ![nextRequestId] =
       [player |-> player, presetId |-> presetId, stake |-> stake, result |-> result]]
  /\ UNCHANGED <<presets, presetActive>>

spin(player, stake, presetId, expressionTokenId, result) ==
  /\ Catalog!isLaunchableController(slotController)
  /\ canBurnPlayerWager(slotController, player, stake)
  /\ requestSpin(player, stake, presetId, result)
  /\ recordExpressionTokenId(slotController, nextRequestId, expressionTokenId)
  /\ finalizeSpin(nextRequestId, burnPlayerWager(token, player, stake))
  /\ UNCHANGED <<catalogVars, registryVars>>

Spins ==
  \E player \in Players, presetId \in DOMAIN presets, x \in ExpressionChoices,
     seeds \in Resolutions :
    /\ seeds.config = presets[presetId]
    /\ \E result \in seeds.results : spin(player, seeds.stake, presetId, x, result)

Manage ==
  \/ \E config \in PresetConfigs : registerPreset(config)
  \/ \E presetId \in DOMAIN presets, active \in BOOLEAN : setPresetActive(presetId, active)

SlotNext ==
  \/ Manage
  \/ Spins
  \/ ProtocolNext /\ UNCHANGED <<soloVars, slotVars>>

SlotSpec == SlotInit /\ [][SlotNext]_spinVars
-----------------------------------------------------------------------------
sessions == {id \in RequestIds : spins[id].player # Nobody}
played(p) == {id \in sessions : spins[id].player = p}

\* Every balance is explained by claims and the player's spins, each settled as
\* it is played and paid once, whatever features it went through; what was
\* resolved fits the preset it was played on, also when that is inactive by now:
\* each event is a free spin awarded, a pick or a respin, the loops stop where
\* the preset says, the caps hold, and a jackpot that is reported is one that can
\* be hit, whose award is in the jackpots' payout and with that in the spin's.
SpinsExplained ==
  /\ Token!SupplyHeld(token)
  /\ sessions = {id \in RequestIds : sessionSettled[slotController][id]}
  /\ \A p \in Players :
       token.balance[p] + SumFunction([id \in played(p) |-> spins[id].stake]) =
         InitialBalance
           + SumFunction([id \in played(p) |-> spins[id].result.totalPayout])
           + (IF p \in Developers THEN claimMinted[p] ELSE 0)
  /\ \A id \in sessions :
       LET preset == presets[spins[id].presetId]
           r == spins[id].result
       IN  /\ r.totalEventCount =
                r.freeSpinCount + r.pickRevealCount + r.holdRespinsUsed
           /\ r.freeSpinCount <= Max({preset.freeSpinAwardCounts[1], preset.maxFreeSpins})
           /\ r.freeSpinRetriggersUsed <= preset.maxRetriggers
           /\ r.holdFilledCount <= preset.holdBoardSize
           /\ r.holdRespinsUsed <= preset.maxRespins
           /\ r.jackpotPayout > 0 => r.jackpotTierHit # 0
           /\ r.jackpotTierHit # 0 =>
                \E tier \in Range(preset.jackpotTiers) :
                  /\ tier.tierId = r.jackpotTierHit /\ tier.weight > 0
                  /\ r.jackpotPayout >= (spins[id].stake * tier.awardMultiplierBps) \div BPS
           /\ r.jackpotPayout <= r.totalPayout
           /\ r.totalPayout * BPS <= spins[id].stake * preset.maxPayoutMultiplierBps
           /\ r.totalEventCount <= preset.maxTotalEvents

\* The most events and the most payout, in BPS of BPS of the stake, that a
\* preset's numbers allow: every way of every paytable entry in the base game
\* and in each free spin, the best pick each time and the best hit in each slot.
mostFreeSpins(preset) ==
  IF preset.freeSpinTriggerCount = 0 THEN 0
  ELSE Max({preset.freeSpinAwardCounts[1], preset.maxFreeSpins})
mostPicks(preset) == IF preset.pickTriggerCount = 0 THEN 0 ELSE preset.maxPickReveals
mostRespins(preset) == IF preset.holdTriggerCount = 0 THEN 0 ELSE preset.maxRespins
mostEvents(preset) == mostFreeSpins(preset) + mostPicks(preset) + mostRespins(preset)
allWays(preset) ==
  LET through[n \in 0..preset.reelCount] ==
        IF n = 0 THEN 1 ELSE through[n - 1] * preset.rowCount
  IN  through[preset.reelCount]
mostWays(preset) ==
  allWays(preset)
    * SumFunction([i \in DOMAIN preset.paytable |-> preset.paytable[i].multiplierBps])
mostHits(preset) == IF preset.holdTriggerCount = 0 THEN 0 ELSE preset.holdBoardSize
bestHit(preset) ==
  Max(Range(preset.holdValueMultiplierBps)
        \cup {tier.awardMultiplierBps : tier \in Range(preset.jackpotTiers)})
mostPayout(preset) ==
  BPS * mostWays(preset)
    + mostFreeSpins(preset) * mostWays(preset) * preset.freeSpinMultiplierBps
    + BPS * mostPicks(preset) * Max(Range(preset.pickAwardMultiplierBps))
    + BPS * mostHits(preset) * bestHit(preset)

capsCoverFeatures(preset) ==
  /\ mostEvents(preset) <= preset.maxTotalEvents
  /\ mostPayout(preset) <= BPS * preset.maxPayoutMultiplierBps

\* The cap on the payout is a uint256, and the largest award can be added, as a
\* uint8, to the most free spins at which a retrigger is still looked up.
numbersFit(preset, stake) ==
  /\ stake * preset.maxPayoutMultiplierBps <= MaxUint
  /\ preset.freeSpinTriggerCount # 0 /\ preset.maxRetriggers > 0 =>
       Max(Range(preset.freeSpinAwardCounts)) + preset.maxFreeSpins - 1 <= MAX_UINT8

\* A spin of a preset whose caps leave room for the most its features can do
\* never reverts for its seed, at any stake the preset allows, as long as the
\* payout cap and a retrigger at its largest fit the engine's integers: no event
\* is counted that those numbers do not allow and no other sum or product is too
\* large.  (With tighter caps or larger numbers a seed that exceeds one undoes
\* the spin, the player keeps the stake.)
CoveredSpinsResolve ==
  \A presetId \in DOMAIN presets, seeds \in Resolutions :
    /\ seeds.config = presets[presetId]
    /\ capsCoverFeatures(presets[presetId])
    /\ numbersFit(presets[presetId], seeds.stake)
    /\ stakeAllowed(presets[presetId], seeds.stake)
    => Reverted \notin seeds.results
=============================================================================
