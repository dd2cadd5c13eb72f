---------------------------- MODULE SlotFeatures ----------------------------
(***************************************************************************)
(* What one seed of SlotMachineEngine.sol may resolve a spin to: the base  *)
(* grid and the features it triggers.  The engine hashes every symbol,     *)
(* award and hit from the seed under a salt of its own; here each is any   *)
(* value that draw can have, so that a spin has a set of resolutions.  One *)
(* of them is Reverted: the caps are checked while the answer is computed, *)
(* in checked arithmetic, and a seed that exceeds a cap or a width undoes  *)
(* the transaction.  The widths that numbers of a preset can exceed are    *)
(* modelled; the other products and sums of the engine have room: a stake  *)
(* that was burned is below 2^208, the token's limit on its supply, a      *)
(* multiplier below 2^32, the ways of a grid are at most 4^6, and events   *)
(* are checked against maxTotalEvents, at most 64, before they are counted.*)
(*                                                                         *)
(* A preset's reels are sequences of sets, the symbols with a weight; the  *)
(* weights themselves only say how often.  A loop is the set of states it  *)
(* may be in after each number of rounds.                                  *)
(***************************************************************************)
EXTENDS Integers, Sequences, FiniteSetsExt, Functions

CONSTANT MaxUint  \* type(uint256).max, scaled

ASSUME MaxUintAssumption == MaxUint \in Nat

MAX_UINT8 == 255

BPS == 10000

Reverted == [reverted |-> TRUE]

Cells(preset) == (1..preset.reelCount) \X (1..preset.rowCount)

Grids(preset) ==
  {grid \in [Cells(preset) -> UNION {preset.reels[reel] : reel \in 1..preset.reelCount}] :
     \A cell \in Cells(preset) : grid[cell] \in preset.reels[cell[1]]}

\* Symbol 0 stands for a feature the preset does not have.
countSymbol(preset, grid, symbol) ==
  IF symbol = 0 THEN 0
  ELSE Cardinality({cell \in Cells(preset) : grid[cell] = symbol})

\* Consecutive reels from the left with the symbol, and the ways through them.
countWays(preset, grid, symbol) ==
  LET reelMatches == [reel \in 1..preset.reelCount |->
        Cardinality({row \in 1..preset.rowCount :
          \/ grid[<<reel, row>>] = symbol
          \/ preset.wildSymbolId # 0 /\ grid[<<reel, row>>] = preset.wildSymbolId})]
      matches == Max({n \in 0..preset.reelCount :
                        \A reel \in 1..n : reelMatches[reel] > 0})
      ways[reel \in 0..preset.reelCount] ==
        IF reel = 0 THEN 1 ELSE ways[reel - 1] * reelMatches[reel]
  IN  [matches |-> matches,
       waysCount |-> IF matches = 0 THEN 0 ELSE ways[matches]]

evaluateWays(preset, stake, grid) ==
  SumFunction([i \in DOMAIN preset.paytable |->
    LET entry == preset.paytable[i]
        ways == countWays(preset, grid, entry.symbol)
    IN  IF ways.matches >= entry.matchCount /\ ways.waysCount > 0
        THEN (stake * entry.multiplierBps * ways.waysCount) \div BPS ELSE 0])

\* All that a grid means to a spin.
gridOutcomes(preset, stake) ==
  {[payout |-> evaluateWays(preset, stake, grid),
    scatters |-> countSymbol(preset, grid, preset.scatterSymbolId),
    fills |-> countSymbol(preset, grid, preset.bonusSymbolId)
                + countSymbol(preset, grid, preset.jackpotSymbolId),
    bonuses |-> countSymbol(preset, grid, preset.bonusSymbolId)] :
     grid \in Grids(preset)}

-----------------------------------------------------------------------------
(* Free spins.                                                             *)

lookupFreeSpinCount(preset, count) ==
  preset.freeSpinAwardCounts[Min({count - preset.freeSpinTriggerCount + 1,
                                  Len(preset.freeSpinAwardCounts)})]

\* Bug: a retrigger is not cut to what is left under the preset's cap
extraSpinsUncut(preset, awarded, scatters) ==
  lookupFreeSpinCount(preset, scatters)

extraSpins(preset, awarded, scatters) ==
  Min({lookupFreeSpinCount(preset, scatters), preset.maxFreeSpins - awarded})

\* The award is added to the spins so far, as a uint8, before it is cut.
retriggerOverflows(preset, awarded, scatters) ==
  awarded + lookupFreeSpinCount(preset, scatters) > MAX_UINT8

freeSpin(preset, state, startingEvents, grid) ==
  LET retriggers == /\ grid.scatters >= preset.freeSpinTriggerCount
                    /\ state.retriggersUsed < preset.maxRetriggers
                    /\ state.awarded < preset.maxFreeSpins
      extra == IF retriggers THEN extraSpins(preset, state.awarded, grid.scatters)
                             ELSE 0
  IN  IF \/ startingEvents + state.events >= preset.maxTotalEvents
         \/ grid.payout * preset.freeSpinMultiplierBps > MaxUint
         \/ retriggers /\ retriggerOverflows(preset, state.awarded, grid.scatters)
      THEN Reverted
      ELSE [reverted |-> FALSE,
            awarded |-> state.awarded + extra,
            remaining |-> state.remaining + extra - 1,
            retriggersUsed |-> state.retriggersUsed + (IF retriggers THEN 1 ELSE 0),
            payout |-> state.payout
                         + (grid.payout * preset.freeSpinMultiplierBps) \div BPS,
            events |-> state.events + 1]

\* The event cap ends the loop within maxTotalEvents rounds and one.
resolveFreeSpins(preset, grids, startingEvents) ==
  LET award == lookupFreeSpinCount(preset, preset.freeSpinTriggerCount)
      step(state) == IF state.reverted \/ state.remaining = 0 THEN {state}
                     ELSE {freeSpin(preset, state, startingEvents, grid) : grid \in grids}
      after[n \in 0..(preset.maxTotalEvents + 1)] ==
        IF n = 0
        THEN {[reverted |-> FALSE, awarded |-> award, remaining |-> award,
               retriggersUsed |-> 0, payout |-> 0, events |-> 0]}
        ELSE UNION {step(state) : state \in after[n - 1]}
  IN  after[preset.maxTotalEvents + 1]

NoFreeSpins == [reverted |-> FALSE, awarded |-> 0, remaining |-> 0,
                retriggersUsed |-> 0, payout |-> 0, events |-> 0]

-----------------------------------------------------------------------------
(* Pick bonus.                                                             *)

resolvePickBonus(preset, stake, startingEvents) ==
  IF startingEvents + preset.maxPickReveals > preset.maxTotalEvents THEN {Reverted}
  ELSE {[reverted |-> FALSE, events |-> preset.maxPickReveals,
         payout |-> SumFunction([i \in DOMAIN picks |-> (stake * picks[i]) \div BPS])] :
          picks \in [1..preset.maxPickReveals -> Range(preset.pickAwardMultiplierBps)]}

NoPickBonus == [reverted |-> FALSE, events |-> 0, payout |-> 0]

-----------------------------------------------------------------------------
(* Hold and spin.                                                          *)

\* What one hit may be worth, and the jackpot tier it hits, 0 for none.
drawHoldValue(preset, stake) ==
  {[payout |-> (stake * bps) \div BPS, tier |-> 0] :
     bps \in Range(preset.holdValueMultiplierBps)}
  \cup {[payout |-> (stake * jackpot.awardMultiplierBps) \div BPS, tier |-> jackpot.tierId] :
          jackpot \in {j \in Range(preset.jackpotTiers) : j.weight > 0}}

\* The last jackpot of a spin is the tier it reports; all of them are paid.
hit(state, value) ==
  [state EXCEPT !.payout = @ + value.payout,
                !.jackpotTierHit = IF value.tier # 0 THEN value.tier ELSE @,
                !.jackpotPayout = @ + (IF value.tier # 0 THEN value.payout ELSE 0)]

accumulateHoldHits(preset, stake, state, newHits) ==
  LET after[n \in 0..newHits] ==
        IF n = 0 THEN {state}
        ELSE {hit(s, value) : s \in after[n - 1], value \in drawHoldValue(preset, stake)}
  IN  after[newHits]

holdEnded(preset, state) ==
  \/ state.reverted
  \/ state.remaining = 0
  \/ state.filled >= preset.holdBoardSize
  \/ state.respinsUsed >= preset.maxRespins

respin(preset, stake, state, startingEvents) ==
  IF startingEvents + state.respinsUsed >= preset.maxTotalEvents THEN {Reverted}
  ELSE UNION {accumulateHoldHits(preset, stake,
                [state EXCEPT !.remaining =
                                IF newHits > 0 THEN preset.initialRespins ELSE @ - 1,
                              !.filled = @ + newHits,
                              !.respinsUsed = @ + 1], newHits) :
              newHits \in 0..(preset.holdBoardSize - state.filled)}

resolveHoldAndSpin(preset, stake, startingEvents, initialFilled) ==
  LET step(state) == IF holdEnded(preset, state) THEN {state}
                     ELSE respin(preset, stake, state, startingEvents)
      after[n \in 0..(preset.maxTotalEvents + 1)] ==
        IF n = 0
        THEN {[reverted |-> FALSE, remaining |-> preset.initialRespins,
               respinsUsed |-> 0, filled |-> Min({initialFilled, preset.holdBoardSize}),
               payout |-> 0, jackpotTierHit |-> 0, jackpotPayout |-> 0]}
        ELSE UNION {step(state) : state \in after[n - 1]}
  IN  after[preset.maxTotalEvents + 1]

NoHoldAndSpin == [reverted |-> FALSE, remaining |-> 0, respinsUsed |-> 0, filled |-> 0,
                  payout |-> 0, jackpotTierHit |-> 0, jackpotPayout |-> 0]

-----------------------------------------------------------------------------
(* A whole answer: base grid, then free spins, picks, hold and spin, each   *)
(* beginning at the events so far, then the caps.                           *)

spinResult(preset, stake, base, free, pick, hold) ==
  LET events == free.events + pick.events + hold.respinsUsed
      payout == base.payout + free.payout + pick.payout + hold.payout
  IN  IF \/ events > preset.maxTotalEvents
         \/ stake * preset.maxPayoutMultiplierBps > MaxUint
         \/ payout > (stake * preset.maxPayoutMultiplierBps) \div BPS
      THEN Reverted
      ELSE [reverted |-> FALSE,
            freeSpinCount |-> free.awarded,
            freeSpinRetriggersUsed |-> free.retriggersUsed,
            pickRevealCount |-> pick.events,
            holdFilledCount |-> hold.filled,
            holdRespinsUsed |-> hold.respinsUsed,
            jackpotTierHit |-> hold.jackpotTierHit,
            jackpotPayout |-> hold.jackpotPayout,
            totalEventCount |-> events,
            totalPayout |-> payout]

atLeast(count, trigger) == trigger > 0 /\ count >= trigger

resolutions(preset, stake) ==
  LET grids == gridOutcomes(preset, stake)
      freeSpins == resolveFreeSpins(preset, grids, 0)
      frees(base) == IF atLeast(base.scatters, preset.freeSpinTriggerCount)
                     THEN freeSpins ELSE {NoFreeSpins}
      picks(base, free) ==
        IF atLeast(base.bonuses, preset.pickTriggerCount)
        THEN resolvePickBonus(preset, stake, free.events) ELSE {NoPickBonus}
      holds(base, events) ==
        IF atLeast(base.fills, preset.holdTriggerCount)
        THEN resolveHoldAndSpin(preset, stake, events, base.fills) ELSE {NoHoldAndSpin}
      afterPick(base, free, pick) ==
        IF pick.reverted THEN {Reverted}
        ELSE {IF hold.reverted THEN Reverted
              ELSE spinResult(preset, stake, base, free, pick, hold) :
                hold \in holds(base, free.events + pick.events)}
      afterFree(base, free) ==
        IF free.reverted THEN {Reverted}
        ELSE UNION {afterPick(base, free, pick) : pick \in picks(base, free)}
  IN  UNION {UNION {afterFree(base, free) : free \in frees(base)} : base \in grids}
=============================================================================
