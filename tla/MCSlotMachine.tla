---------------------------- MODULE MCSlotMachine ----------------------------
EXTENDS SlotMachine, TLC

CONSTANTS p1, d1

MCControllers == {slotController}
MCEngines == {slotEngine}
MCModules == << [controller |-> slotController, engine |-> slotEngine,
                 engineType |-> "SLOT_MACHINE", developerRewardBps |-> 500,
                 status |-> "LIVE"] >>

\* Symbols: 1 pays, 2 is the scatter, 3 the bonus, 4 the jackpot, 5 is wild.
\* As in the tests' presets a reel has few symbols and a preset one purpose.
base == [reelCount |-> 3, rowCount |-> 3, minStake |-> 2, maxStake |-> 3,
  maxPayoutMultiplierBps |-> 100000,
  wildSymbolId |-> 5, scatterSymbolId |-> 2, bonusSymbolId |-> 3, jackpotSymbolId |-> 4,
  reels |-> <<{1, 5}, {1, 2}, {2}>>,
  paytable |-> << [symbol |-> 1, matchCount |-> 2, multiplierBps |-> 1000] >>,
  freeSpinTriggerCount |-> 0, freeSpinAwardCounts |-> <<1, 2>>,
  maxFreeSpins |-> 3, maxRetriggers |-> 2, freeSpinMultiplierBps |-> 15000,
  pickTriggerCount |-> 0, maxPickReveals |-> 2, pickAwardMultiplierBps |-> <<15000>>,
  holdTriggerCount |-> 0, holdBoardSize |-> 6, initialRespins |-> 2, maxRespins |-> 3,
  holdValueMultiplierBps |-> <<5000>>,
  jackpotTiers |-> << [tierId |-> 1, awardMultiplierBps |-> 7500, weight |-> 1],
                      [tierId |-> 2, awardMultiplierBps |-> 20000, weight |-> 0] >>,
  maxTotalEvents |-> 1]

\* A first award of 1, a retrigger of 1 and then the largest that can be added to
\* the 2 as a uint8, which is cut to 1.
freeSpins == [base EXCEPT !.reels = <<{2}, {1, 2}, {1}>>, !.freeSpinTriggerCount = 4,
  !.freeSpinAwardCounts = <<1, 253>>,
  !.paytable = << [symbol |-> 2, matchCount |-> 1, multiplierBps |-> 500] >>,
  !.maxTotalEvents = 3]

\* Every way of every reel wins, in the base game and in every free spin, of
\* which the first award is above the cap on the others: the payout cap is the
\* most that the preset's numbers allow, and not far above what is paid.
fullReels == [base EXCEPT !.reels = <<{2}, {2}, {2}>>, !.freeSpinTriggerCount = 3,
  !.paytable = << [symbol |-> 2, matchCount |-> 3, multiplierBps |-> 1000] >>,
  !.freeSpinAwardCounts = <<4>>, !.maxPayoutMultiplierBps = 189000, !.maxTotalEvents = 4]

\* Free spin, picks and hold and spin from one grid, with a board that is full,
\* filled later, or left when the respins run out or reach their cap.
everything == [base EXCEPT !.reels = <<{2}, {3}, {1, 4}>>, !.freeSpinTriggerCount = 3,
  !.maxFreeSpins = 1, !.maxRetriggers = 0, !.pickTriggerCount = 1, !.holdTriggerCount = 4,
  !.paytable = << [symbol |-> 2, matchCount |-> 1, multiplierBps |-> 500] >>,
  !.maxPayoutMultiplierBps = 200000, !.maxTotalEvents = 6]

\* A retrigger that cannot be added when 2 spins were awarded, and a cap whose
\* product with the stake is too large.
overflowingRetrigger == [freeSpins EXCEPT !.freeSpinAwardCounts = <<1, 254>>]
overflowingCap == [freeSpins EXCEPT !.maxPayoutMultiplierBps = 210000]

lowCap == [freeSpins EXCEPT !.maxPayoutMultiplierBps = 5000]
lowEventCap == [everything EXCEPT !.maxTotalEvents = 5]
malformed == [base EXCEPT !.maxRetriggers = 4]

MCPresetConfigs ==
  {base, freeSpins, fullReels, everything, overflowingRetrigger,
   overflowingCap, lowCap, lowEventCap, malformed}
=============================================================================
