# Scuro, modelled in TLA+

Scuro is an on-chain game protocol. Players hold a token, SCU; games burn a
wager when a session opens and mint a reward when it is settled; developers own
*expressions* (NFTs that name a variant of a game) and earn a share of the
activity of sessions that name theirs. Around the contracts stand a prover for
the card games (`src/zk/scripts/`) and the operator of an AWS testnet
(`src/ops/aws-testnet/`), which deploys them and runs proof jobs against them.
This directory holds TLA+ modules for all three, TLC configurations that check
them on small instances, and proofs of their most important properties that TLAPS checks for
all values of the constants. Paths below are relative to the directory that
contains `src/`.

## The system

| Component | State it keeps | Operations | Calls | Correct when |
|---|---|---|---|---|
| `ScuroToken` (SCU, vendored ERC20Votes) | balances, allowances, supply | transfer, approve, burnFrom, mint | - | supply is what accounts hold; minting stops at the cap |
| `ScuroStakingToken` (sSCU) | a second ledger, its own SCU | stake, unstake | SCU | every sSCU can be exchanged back, one for one |
| `GameCatalog` | modules, index by controller, index by engine | registerModule, setModuleStatus, views | - | records and both indexes are one relation; the gates agree |
| `DeveloperExpressionRegistry` | expressions (owner, engine type, active) | mint, transfer, setActive | - | compatibility follows type and flag |
| `DeveloperRewards` | epochs, accruals, claims | accrue, closeCurrentEpoch, setEpochDuration, claim | SCU | a closed epoch is final; nothing is paid twice |
| `ProtocolSettlement` | none of its own | burnPlayerWager, mintPlayerReward, accrueDeveloperForExpression | all of the above | only settlable controllers move value |
| `BaseSoloController` and the solo controllers | settled flags, expression per session | play, settle / finalize | settlement, an engine | a session is paid once, from its own outcome |
| `SuperBaccaratEngine`, `NumberPickerEngine` | play requests | requestPlay, rawFulfillRandomWords | VRF coordinator | one answer per request, payout fixed by it |
| `BaccaratRules` | none | random word to cards, totals, outcome | - | draws are fair, the tableau is the classic one |
| `CheminDeFerController` / `Engine` | tables, takers, takes / resolutions, request index | openTable, take, closeTable, forceCloseTable, cancelTable, settle / requestResolution, rawFulfillRandomWords | settlement, coordinator | escrow splits exactly, returned once, answers reach their table |
| `SingleDraw2To7Engine`, `PvPController`, `TournamentController` | hands, matches, tournaments | bets, draws, proofs, clocks; create, settle | settlement, verifier | chips conserved, turns and clocks agree, a prize is paid once |
| `BlackjackEngine` / `Controller` | sessions, hands, decisions, deadlines | openSession, the four submit...Proof, declareAction, declareInsurance, surrender, continuePlay, claimPlayerTimeout, settle | settlement, verifier | proofs form a chain, burned equals staked, a session can be settled |
| Poker prover (`prove-fixtures.mjs`) and circuits | none | witness to commitments, public inputs, proof | poseidon, snarkjs | a hand is played with the cards dealt and drawn for it |
| Blackjack prover (`blackjack-proof.mjs`) | none | witness to public state, commitments, payload | poseidon, snarkjs | hands are scored right; what it fills in leads on |
| `SlotMachineEngine` / `Controller` | presets, spins | registerPreset, setPresetActive, spin, settle / requestSpin, rawFulfillRandomWords | settlement, coordinator | features stop where the preset says, a spin is paid once |
| `GameDeploymentFactory` | nothing but roles | deploy and register | catalog | a module is registered with the contracts it predicted |
| `ScuroGovernor` | vendored governance | - | - | - |
| Operator, chain operations (`protocol.ts`, `manifest.ts`) | manifest, snapshot file and its copy, the chain | deployProtocol, resetAndDeploy, seedApprovals, exportSnapshot, restoreSnapshot, smokes | forge, cast, aws, anvil | a completed deployment is usable |
| Operator, deployment jobs (`deployment-jobs.ts`) | job files | start, run, recover | chain operations | one active deployment; none active for ever |
| Operator and worker, proof jobs (`jobs.ts`, `queue.ts`, `worker*.ts`, `proof-provider.ts`) | job files, a directory or SQS queue | create, enqueue, receive, run, acknowledge | provers, chain | no job lost; a verdict stands |

How they interact. A player or a relayer calls a *controller*. In one
transaction the controller checks the catalog, burns through
`ProtocolSettlement`, and opens a request or a session in its *engine*. Engines
that need randomness ask a VRF coordinator, which answers in the same
transaction (the mock) or in a later one (the manual mock of the tests, any real
one). Anyone may then settle: the controller reads the outcome from the engine,
mints through `ProtocolSettlement`, and settlement accrues to the developer of
the session's expression. Meanwhile governance moves modules between LIVE,
RETIRED and DISABLED, moderators deactivate expressions, developers transfer
them, and epochs close. A transaction is atomic, so the interleavings that
matter are those *between* transactions: everything above may happen between the
burn and the payout of one session.

A blackjack session is a conversation of three: the player decides, a clock
limits the decision, and a coordinator off chain deals, has each step proved and
submits the proof. The engine stores what the proof says of the table, hands,
masks, next phase, without asking whether it makes sense; that is the
prover's part, so engine and prover are modelled together. In poker the
coordinator's part is smaller: the engine keeps the phases, turns and chips by
itself and each proof only moves the commitments of the hands along, so cards
are a layer over the match.

The operator is one process that runs many requests at once, each waiting for
external commands in between; the worker is another process. They share the
directory of job files, the queue, the manifest and the chain, none of them
locked. Either process can die at any step and is restarted by systemd; the
chain's node restarts empty.

What is hard about it: state read at play and used at settlement (status,
expression owner, epoch); late, repeated or misdirected answers of the
coordinator; deadlines that race with the calls they bound; rounding of shares
that must add up; indexes kept twice; one failing call that undoes a whole
settlement; proofs that are sent again or out of turn; a decision window without
a way on; requests that look, wait and then act; crashes between two writes;
messages delivered twice or never; a chain that is reset under a running
deployment. `PROJECT.json` lists these hazards at their lines with the
properties that cover them.

## Modules

Solidity functions keep their names. A transaction is one action; a `require`
is a conjunct, an assignment a primed variable, a revert the absence of a step.
Operators under "Plausible bugs" (marked `Bug:`) are mutated forms of a
definition, there to show that a property can fail; no specification uses them.

| Module | Models | Notes |
|---|---|---|
| `GameCatalog` | `GameCatalog.sol` | a sequence of modules and two index functions, 0 where unset |
| `DeveloperRewards` | `DeveloperRewards.sol` | `now` is `block.timestamp`; `claimMinted` records what claims minted |
| `ScuroToken` | `ScuroToken.sol` and the ERC20 it extends | pure operators over a ledger record: a guard `can...` and an effect per call |
| `DeveloperExpressionRegistry` | `DeveloperExpressionRegistry.sol` | owner, type, active |
| `ProtocolSettlement` | `ProtocolSettlement.sol` over the four above | also `ProtocolNext`: all that others may do between two game calls |
| `BaseSoloController` | `BaseSoloController.sol` | settled flags, expression per session, `mintAndAccrue` |
| `SuperBaccarat` | controller and engine of super baccarat | cards abstracted to the outcome; answer is its own step |
| `BaccaratRules` | `BaccaratRules.sol` | pure: a draw from a shoe, the tableau, a round from its totals |
| `NumberPicker` | `NumberPickerAdapter.sol`, `NumberPickerEngine.sol` | `DelayedVRF` selects the coordinator |
| `SlotFeatures` | the feature loops of `SlotMachineEngine.sol` | pure: what a seed may resolve a spin to |
| `SlotMachine` | `SlotMachineController.sol`, `SlotMachineEngine.sol` | presets, and a spin in one transaction |
| `SoloGames` | both solo games on one coordinator, ledger and settlement | instances the two above; the specifications and properties of both |
| `CheminDeFer` | controller and engine of chemin de fer | other engines draw ids from the same coordinator (`OtherEngineRequests`) |
| `WagerEscrow` | abstract | what a table promises: takes money in, returns exactly that money, once; what comes into circulation otherwise is issued, and counted |
| `ScuroStaking` | `ScuroStakingToken.sol` | two ledgers of `ScuroToken`; the wrapper is an account too |
| `SingleDraw2To7` | `SingleDraw2To7Engine.sol` | one match without its cards; `deadlineAt` abstracted to off / running / passed |
| `PokerProof` | `prove-fixtures.mjs`, the poker circuits | pure: commitments, public inputs, a draw's cards, the winner |
| `PokerHands` | the engine's `HandStateView`, its public inputs, and the coordinator | `SingleDraw2To7` with the commitments of its hands |
| `MatchEngine` | abstract | what the match controllers rely on: initialized once, one winner, final |
| `CompetitiveMatches` | what the two match controllers share | matches as the abstract engine has them, burns, prizes, accruals |
| `PvPController` | `PvPController.sol` | sessions over those matches |
| `TournamentController` | `TournamentController.sol` | tournaments and their games |
| `BlackjackProof` | `blackjack-proof.mjs` | pure: scoring, defaults of the public state, commitments, payloads |
| `Blackjack` | `BlackjackEngine.sol`, `BlackjackController.sol`, and the coordinator as the smoke fixtures use it | sessions over `BlackjackProof` |
| `TestnetProtocol` | `protocol.ts`, `manifest.ts` | chain operations as tasks of the operator, one step per external command |
| `DeploymentJobs` | `deployment-jobs.ts` | a job is named by the call that made it |
| `ProofJobs` | `operator.ts`, `jobs.ts`, `queue.ts`, `worker.ts`, `worker-jobs.ts`, `proof-provider.ts` | both queues; SQS external |
| `TestnetOperator` | the processes together | crashes, restarts, fairness, the properties |
| `SumTheorems` | - | lemmas about sums of finite functions, for any module with a ledger |
| `SettlementProofs` | - | theorems of `DeveloperRewards`; what each step of `ProtocolSettlement` keeps, for the games' proofs |
| `ContractProofs` | - | theorems of `GameCatalog` and `ScuroStaking` |
| `SoloGamesProofs`, `CheminDeFerProofs` | - | theorems of the solo games and of chemin de fer, over `SettlementProofs` |
| `MatchProofs` | - | theorems of `SingleDraw2To7`, `PokerHands`, `PvPController` and `TournamentController` |
| `BlackjackProofs`, `TestnetOperatorProofs` | - | theorems of the module in the name |
| `MC...` | - | model values and the deployments the configurations bind |

Composition: `ProtocolSettlement` extends `DeveloperRewards` and instances the
token, catalog and registry under a namespace each, and shares their variables.
Game modules extend it, so that a game's `Next` is its own calls or a
`ProtocolNext` step. `SoloGames` instances two games over the same settlement.
`CheminDeFer` and `SingleDraw2To7` are each shown to implement an abstract
module (`WagerEscrow`, `MatchEngine`), and the match controllers are built on
matches that behave as `MatchEngine` says. `PokerHands` adds to each action of
`SingleDraw2To7` what it does to commitments, masks and proof sequences, and to
the proof submissions the check of the proof's public inputs; `HandsRefineMatch`
proves that the result is still a match of it. `Blackjack` extends the prover and
stands alone: gates and ledger are those of the other games, so its player has a
balance of its own. `TestnetOperator` extends `ProofJobs` and `DeploymentJobs`,
both of which extend `TestnetProtocol` and share its chain and manifest.

State and actions by module:

- `GameCatalog`: `modules[i]` is the module with id `i`; `setModuleStatus` may
  set any status, also back. Roles are not modelled: whoever may call, calls.
- `DeveloperRewards`: `Tick` advances `now`; `accrue`, `closeCurrentEpoch`,
  `setEpochDuration` and `claim(owner, epochs)` are the contract's calls, with
  claim lists that may repeat an epoch or name an open one. `RewardsSpec` is the
  contract alone, any amount accrued by whoever settles; in the compositions the
  amounts are those of settlements.
- `SuperBaccarat`, `NumberPicker`: a request is a record under its number. The
  coordinator numbers requests from a counter of its own; the engine files a
  request under the number it expects next before it asks for it, as the code
  does. An answer is any outcome (`SuperBaccarat`) or one of `Rolls`.
- `SlotFeatures`: every symbol, award and hit of the code is hashed from the seed
  under its own salt, so each is a choice of its own, and a loop is the set of
  states it may be in after each round. Weights say how often, and are left out
  but for a jackpot tier of weight 0, which is never hit. `Reverted` is the
  resolution of a seed that exceeds a cap or, in the three places where a preset's
  numbers can, the width of an integer: the sum of a retrigger, which is a `uint8`
  and taken before it is cut, the payout of a free spin times its multiplier, and
  the payout cap. The other sums and products have room (the head of the module
  says why).
- `SlotMachine`: `spin` is one step from burn to payout, because the controller
  finalizes in it; the coordinator is the mock that answers inside the request.
  With a later answer it reverts, as `NumberPicker` shows of the same code shape.
- `CheminDeFer`: `take` closes the table within the same step when the cap is
  reached, as `take` in the code calls `_closeAndRequestResolution`.
  `OtherEngineRequests` advances the coordinator's counter.
- `SingleDraw2To7`: `completeHand` and `startNextHand` are operators that the
  actions `fold`, `submitShowdownProof` and `claimTimeout` include, so paying a
  pot and posting the next blinds is one step, and a revert in posting undoes
  the paying. `level` is the number of escalation intervals elapsed. A proof
  submission is an action that takes any verdict the verifier could accept;
  `PokerHands` says which those are.
  `handleTimeout` does what `claimTimeout` does and no controller calls it.
- `PokerHands`: a proof is the record of its public signals. `verify...` compares
  them with the inputs the engine builds from its state; arguments the caller
  passes are the proof's own, since others are refused. The coordinator makes a
  proof when it submits it, and one proof of the last hand (`late`) may be sent
  again in this one, since a proof job can be delivered twice. A second sending
  within its own hand finds the phase gone or the draw resolved. Cards are named
  by the deal, the seat and the position they come from, which is all that
  commitments can tell apart, and scores come with the witness, as in the
  circuit, which does not derive them from the cards.
- `PvPController`, `TournamentController`: `SessionEnds` and `GameEnds` stand for
  whatever the engine does until a match completes; they allow a tie although the poker engine
  has none (see below), since `getOutcomes` would split the prize.
- `BlackjackProof`: a witness is a record whose unsaid fields are `None`; each
  `normalize...` fills in what its function fills in. A hash is the tuple of
  what is hashed, so two commitments are equal exactly if what they commit to is.
- `Blackjack`: `session` is what the engine keeps by itself, `view` what the
  last proof reported, both parts of one struct in the code. A proof is its
  circuit and public inputs; `verifies` compares them with the inputs the engine
  builds. The coordinator's `Prove...` actions read the session when the proof
  is made; `submitProof` may send any payload ever made, at any time, again or
  in another order. `deadline` is none, open or passed.
- `TestnetProtocol`: `task[c]` is where the process is with call `c`. A contract
  is a stage and the deployer's nonce, from which its address is computed, so a
  redeployment after a reset has the same addresses. A stage may fail with some of
  its addresses printed, which the failed manifest names: the deployer's nonce has
  advanced by them, but the model keeps nothing of a failed stage on the chain,
  since a later deployment starts over at new addresses. `disturbed` records the deployments under which another actor
  changed the chain.
- `DeploymentJobs`: `FindActive` and `Create` are two steps, as the code waits
  between them; `recover` is the first thing a restarted operator does.
- `ProofJobs`: a `send-message` or `delete-message` whose command fails may have taken
  effect at SQS all the same. `processOneJob` is a step per wait; `Receive`, `VisibilityTimeout`
  and `Redrive` are the queue's part. `dropped` records the jobs a worker died
  with after a file queue had forgotten them.

## Runs

`ScuroStaking` and `MCPokerHands` check deadlock, since there something
can always happen. In the others every bounded behaviour ends when the bounds on
time, requests and expressions are reached, which is the bounds' doing, and the
configuration says `CHECK_DEADLOCK FALSE`.

| Run | Question | Answer |
|---|---|---|
| `MCGameCatalog` | can registrations and status changes bring records and indexes apart? | no, for 3 modules |
| `MCSoloGames` | is every balance and accrual explained by settled sessions, whatever happens in between, and is every session settled in the end? | yes, for two requests shared by the two games, unless the module ends disabled or the expression incompatible |
| `MCSoloGamesDelayed` | does a pick settle with a coordinator that answers later? | **no**, see Findings |
| `ScuroStaking` | does the wrapper stay solvent and even under transfers, also to its own address? | yes |
| `MCSlotMachine` | is every balance explained by spins paid once, whatever features they went through, and do the caps undo a spin only if they are tighter than the features need? | yes, as long as cap and retriggers fit the engine's integers |
| `MCCheminDeFer` | does one table of three players split its escrow exactly, never reopen, double its winners, implement an escrow, get its own answer among other engines' requests, and get settled? | yes, with amounts at which every division rounds |
| `MCPokerHands` | is each hand played with the cards dealt and drawn for it, with proofs of the hand before sent again; are chips conserved, pots contributed half by each, turns and clocks in step, does the match implement `MatchEngine`, does every hand end? | yes, the last if its blinds are in order |
| `MCSingleDraw2To7Overflow` | can an expired clock always be resolved? | **no**, see Findings |
| `MCPvPController` | is each stake, prize and accrual counted once, and each claim paid once, early or late? | yes, with an odd prize, ties, stakes of 0 and a player against himself |
| `MCTournamentController` | are prizes paid once and is the developer credited on the terms a game was played on, with several tournaments opened and closed, created or not? | yes, but for games played for nothing before their tournament had terms |
| `MCBlackjack` | do accepted proofs form a chain, is what is burned at stake, are hands scored right, and can every session be settled, with proofs sent late, twice and out of order? | yes, but for the card 52 (see Observed) |
| `MCTestnetOperator` | is any job lost, any verdict undone, do two deployments run at once, is a completed one usable, does everything started end, with one crash of any process? | only as the properties' exceptions say: a file queue loses the job its worker died with, SQS runs a job again, racing requests both deploy |

With `MCSoloGames` TLC also evaluates the assumptions of `BaccaratRules`:
every ticket draws one value and each value as often as it has cards, from a
fresh shoe and after one card; the banker's tableau is the classic rule, for all
totals and third cards; a natural ends a round, and all ways to end a round and
all outcomes occur. That is why an answer in `SuperBaccarat` and `CheminDeFer`
is any of the three outcomes. How often each occurs, and so whether the
multipliers are EV-neutral as `docs/session-specs/super-baccarat.md:35` says, is
not checked: the weights of an eight-deck shoe are beyond TLC's integers.

Bounds. `Max...` constants bound identifiers, time and list lengths; each is a
conjunct of the action that would pass it. They are enough for the hazards: two
of a kind (sessions, tournaments, matches) suffice for one to interfere
with another, because they share only the ledger, the module status and the
coordinator's counter; two epochs give a closed one and a current one.
`MCCheminDeFer` has one table, among requests of other engines;
the theorems of `CheminDeFerProofs` cover any number of them. Amounts are small but chosen at the edges: `BANKER_RISK_PER_PLAYER_WAD`
is 1.3 on a unit of 10, so cap, risk and shares all round; balances fall short
of, meet and exceed wagers; a finite allowance, an unlimited one and one that
runs out all occur. The poker run has 5 chips a seat with blinds 2/4 and then
4/8, so a blind is posted whole, short, and as a whole stack, on either seat;
hands of two cards, of which the second may be discarded, tell a kept position
from a replaced one, and scores 0 and 1 give both winners and the tie. Hand
numbers and nonces count modulo 2, which is exact for the proofs of two hands in
a row, the most that are around.
`MaxUint` scales the word down so that the overflow is met at level 1 rather
than 252 (it is above every product in the runs that do not ask about it).
`Wad` is scaled down in the same way.

`MCSlotMachine` registers up to two of nine presets, each with few symbols and
one purpose: plain wins with a wild; free spins with a retrigger that is cut, the
largest that still fits a `uint8`; a retrigger one too large for it; a
first award above the cap on free spins, with every way a win; all features in
one spin; a payout cap whose product with the stake is too large for the word
(`MaxUint`, scaled down here too); a payout cap and an event cap below what may happen; and one that
does not validate. Where the caps cover the features they are no larger than needed
for the events, so that one event more would be noticed. Stakes are below, within
and above the presets' limits.

`MCBlackjack` deals eight hands, one for each way a session can begin (up card
low, nine, ten, ace; with a dealer's blackjack or without; a pair, a soft hand,
a 52), and two draws; six player cards allow two split hands with a draw each,
and a hand that outgrows them. One session: sessions share nothing but the
player's balance, and one spare proof is enough to send a stale proof after each
step. `MCTestnetOperator` has two calls of any kind, which is what a race needs,
whose jobs are a malformed body, a smoke, which may fail at its script, and a game
job that can be proved, which may fail at the provider or on the chain; three
deployment stages (one that needs nothing, one that needs the core, one that needs
both), two receives before the dead-letter queue and one crash; a crash during the
recovery of another leads to the same states as one crash,
because recovery is a single step.

To keep each run small, a dimension that several compositions share is opened
in one of them: claims of several epochs are made in `MCPvPController`, of one
epoch in `MCCheminDeFer` (so that something is issued beside the tables' escrow),
and time stands still elsewhere; a finite allowance is spent and renewed in `MCSoloGames`;
deadlines pass in `MCCheminDeFer`. `MCSoloGames` bets on one side, which all
three outcomes win, lose and push.

Symmetry is used in `MCGameCatalog` (controllers, engines) and
`MCTournamentController` (players), where the model values are interchangeable and
no liveness property is checked. There operators name ids 1 and 2, which are
created in that order, if at all; id 0, which is never created, behaves like one
that is not created yet.

## Fairness

Safety properties need none. The specifications named `FairSpec` (solo games,
chemin de fer, draw poker and, as `FairPokerSpec`, its hands) and `FairSpecDelayed` assume weak fairness, per
request, table or match, of

- the coordinator's answer, and the coordinator's proofs in poker: the protocol
  is built on them and has no path without (`settle` requires the answer; the
  proof phases have no clock). This is an assumption about a party outside the
  code, and the reason a stopped coordinator is listed as a hazard;
- `settle`, `forceCloseTable`, `claimTimeout`: anyone may call
  them and a participant is paid when they are called;
- time: `Tick` in `CheminDeFer`, and in poker that a player moves or the clock
  passes;
- `play` in the number picker, where the question is whether a player who keeps
  trying ever succeeds.

`Blackjack` assumes that the coordinator serves a session that waits for a
proof (weak fairness of `Coordinate`, written out so that it does not need the
enabling of a large action), that time passes, and that someone claims expired
turns and settles. Nothing is assumed of the player: `SessionsComplete` holds
for one who walks away at any point.

`TestnetOperator` assumes that a command that was started ends, that the worker
and the restarted operator run, and that a visibility timeout passes. The first
is an assumption the code does not enforce: `runCommand` in `exec.ts` has no
timeout, and a command that hangs holds its job, and with it every further
deployment, for ever. It is listed as a hazard without a property. Clients need
not call and processes need not die.

Nothing is assumed of governance, moderators or developers: the properties are
of the form `<>[]StaysSettlable => ...`, so they ask only that the module ends
up not DISABLED and the expression compatible.

## Proofs

The `...Proofs` modules prove the following for all values of the constants
that satisfy the named assumptions of the modules.

- `SumTheorems`: ledgers, escrows and accruals are sums of a finite function,
  `SumFunction`, whose order of addition is a `CHOOSE`. The recursion is shown to
  define a function, on subsets of the domain from the empty one up, and from it
  that the order does not matter and what becomes of a sum when one argument
  changes or is added. Each induction is by a smallest counterexample, among the
  subsets of a finite set, which needs no induction theorem over an operator.
- `SettlementProofs`: `RewardsInv` is the types, `ClosedAreThePast` and
  `PaidIsClaimed`. A closed epoch is final because `accrue` writes the current
  epoch only; a claim list that repeats an epoch pays it once because what the
  list pays is the change of the sum over the epochs marked claimed. The rest is
  for the games: `SettlementInv` (catalog, rewards, registry, and a ledger whose
  supply is the sum of its balances) is kept by every step of the protocol, and
  `OutsideStep` says what a step of governance, a developer or the
  clock leaves alone: the rates of the modules, what was accrued, and every balance
  but that of a developer who claims.
- `ContractProofs`: in the catalog `IndexesAgree` with `TypeOK` is inductive;
  `GatesAgree` follows from it. `CatalogTermsFixed` proves that no call moves a
  module's terms; no run checks that. For the staking wrapper `Backed` is proved
  with a weak type of the ledgers, in which the supply is any integer, and from it
  the action property `WrappingIsEven`.
- `SoloGamesProofs`: `SoloInv` says of every request number that it belongs to
  at most one of the two games, that a session is answered before it is settled,
  and of every player that the balance is what began, less the wagers of the
  player's requests, plus the payouts of those settled, plus claims. One lemma per
  call keeps it: play adds a wager to one sum, settle one payout to another and one
  share to what is owed, and an answer touches neither because its session is
  not settled. `SoloRoundsFinal`, which is about rounds and picks alike, and `PicksPayInOrder` follow from the same
  invariant, and so does `DelayedPicksNeverStart`, the unbounded form of a finding.
  `SpinsPaidOnce` is about the slot machine. A feature loop is a recursive
  function from rounds to the states the loop may be in; that it exists, and that
  what holds before the first round and is kept by each holds after the last, are
  lemmas of `SumTheorems`. `FreeSpins` and `Holds` are what the two loops keep:
  free spins awarded are those left plus those played, which is why the events
  counted are the spins awarded once none is left, as each round plays one
  and the event cap ends the loop otherwise; a jackpot reported is one of the
  preset's, and its award is in the payout. `SlotInv` adds that every settled
  session is a spin whose result fits the preset it names, and that presets are
  only appended to.
  `CoveredSpinsAlwaysResolve` says that a registered preset whose caps leave room
  for its features answers every seed, if its payout cap and its largest retrigger
  fit the engine's integers (`numbersFit`; without that it is false, and the run
  has presets that would show it). `capsCoverFeatures` compares products of
  the preset's numbers with its caps; the code checks the caps event by event. The
  cap covers at least one free spin, so the product a free spin computes is no more
  than the cap's and fits when that does (`FreeSpinsFit`). The
  states of the two loops therefore also carry what they may have paid: free spins
  their events times the most one spin pays, hold and spin its filled cells times
  the best hit (`coveredFreeSpins`, `coveredHolds`). With these no step of a loop
  can pass a cap, so none reaches `Reverted`, and `PayoutWithin` adds up what the
  parts are bounded by to the payout cap. What a spin of the reels pays at most
  needs the product of the matches on each reel to be no more than rows to the
  power of reels, which is `ProductInPower`: `allWays` writes that power as a product,
  because the provers know nothing of exponents.
- `CheminDeFerProofs`: `IInv` has three parts: `TablesInv` (each table's cap,
  risk and refund, and tables not opened yet are blank), `RequestsInv` (the
  engine's mappings name each other) and `LinkInv` (a request is open exactly
  for the closed tables with takers). The third ties controller and engine:
  without it an answer could reach a table that never asked. `CapCoversRisk` is
  the arithmetic: a risk rounded down of a cap rounded down stays within the
  escrow. `CheminInv` adds the takers, whose list holds each player with a take
  once, and the money. When the players win, the last taker gets what the others
  left, so the rewards add up to the pool; `PoolDoubles` and `OtherShare` show
  that with a multiplier of at least 1 each is at least twice the stake. With
  that every step is a deposit, a release or an issue of `WagerEscrow`, or
  leaves it alone (`TablesImplementEscrow`), and `EscrowConserves` carries the
  conservation the abstract module promises back to the tables.
- `MatchProofs`, the engine: `IInv` is `TypeOK`, `ChipsInv` and `TurnInv`. Chips
  are conserved and the winner takes all because an active hand has a pot of at
  least two chips, so that each share of a tie is positive and a tie never ends
  a match; a finished match is final because outside an active match the phase
  is one nobody may move in, and `TurnInv` carries that. `PotMatched` is proved
  on top: the history variable `contributed` adds up what each seat has put into
  the hand's pot, and while bets are open the seats' contributions differ by exactly
  what their bets do, so when the bets are equal at the end of a round each has
  contributed half. `StepOutcome` gives the refinement of `MatchEngine` and `MatchFinal`.
  `HandsRefineMatch` carries everything proved of a match over to the match with
  its cards. `ProofInv` adds to `HandsAsDealt` that the proof that may come again
  has the other hand's number, so it is no proof of this one, and takes from
  `IInv` that no draw is resolved while masks are declared.
- `MatchProofs`, the controllers: `MoneyInv(paid)` explains balances and
  supply by the matches started and those in `paid`, which are the settled
  sessions of the one controller and the reported games of the other. Its four
  lemmas, for a step outside, a start, an end and a payment, serve both.
  `SessionsInv` ties a session's number and terms to its match. `GamesInv` does so
  for a game and its tournament, whose terms are read a second time at the report:
  what is created changes its flag only, and before that its terms are 0, so that a
  game was played on the terms of the report or for nothing. What is owed to
  developers is for sessions the accrual of those settled (`PvPInv`), and for games a
  sum of what each report credited (`CreditsInv`): the terms of now, or nothing.
  `CreditsFollowTerms` is the last step.
- `TestnetOperatorProofs`: `IInv` is `TypeOK` and five parts. `TasksPlaced` says
  which tasks can be at which step; `JobsInv` ties a job's status to its message
  and to the worker (`JobsOfCalls`, `FileQueue`, `WorkerHolds`); `Exclusion`
  says that a deployment that has looked and not yet created is the only one
  unless it raced, which is what `OneDeploymentAtATime` needs to be inductive;
  `Intact` follows an undisturbed deployment through its stages: all it has
  merged so far is on the chain, the stages below the current one are there and
  the approvals below the current one recorded. `CompletedDeploysUsable` is the
  last step of that.
- `BlackjackProofs`, the chain: `ChainInv` adds to `ProofChain` what the engine
  keeps of the chain: its sequence number, the deck and the last player commitment
  are those of `accepted`, and a session has accepted nothing exactly in the two
  phases before the first proof. The first proof may set the deck and restart the
  count, so it must be accepted once; that needs a fact about the prover,
  `PayloadsLeadOn`: whatever it fills in, no payload leads back to a phase
  before the first proof. With a prover that could, the chain could be begun again.
- `BlackjackProofs`, stakes and scores: an accepted proof replaces the whole public
  state, wagers and insurance with it, so what the controller burned agrees with
  it only if the prover restates it. `StakesInv` therefore speaks of payloads too:
  each is a fair reading of the cards of its witness (`sound`), and each later one
  that may still be accepted was made of the wagers, the insurance and the pending
  burn the session has now (`timely`); one made for an earlier turn has an earlier
  sequence number or action, and the engine refuses it. `pendingFits` says that a
  declared double or split fits the hand whose turn it is, from which the proof of
  the action moves exactly the pending burn onto the hands (`splitStakes`). For the
  scores the cards must lie in the hands as the counts say (`parted`), which
  insertions by splits and draws keep (`laid`), and `BestScore` shows that
  counting every ace eleven and taking tens back while the total is over 21 gives
  the reference total, for any list of cards. `StakesExplained` and `HandsScored`
  follow from the same invariant.

Assumptions worth naming. `SettlementAssumption`: finitely many accounts,
`Nobody` is no player, amounts are naturals, shares are at most all of an
activity, and the deployed modules are well typed and share neither controllers
nor engines, which `registerModule` ensures. `GamesAssumption`: the two games
have different controllers, and selections and rolls are naturals in the range
the code accepts. `CheminAssumption`: the banker's risk per taker is no less than
the unit (1.0277, `CheminDeFerController.sol:14`); below it a winner would not be
doubled. `MatchAssumption` has positive blinds and stacks,
and that `2^l` is a positive natural, a fact about exponentiation the provers do
not have. A starting stack of 0 is excluded: an operator could ask for one, and
such a match may end in a tie. `SlotAssumption`: presets are made of naturals, and
the controller is one the catalog may know; `MaxUint` is any natural. `SoloAssumption`, `MatchesAssumption`,
`TournamentAssumption`, `RewardsAssumption`, `CatalogAssumption` and
`BlackjackAssumption` are types of the constants; the last also says that what is
dealt and drawn are cards, two first for the player, and that `None`, which
stands for what a witness leaves unsaid, is none of the values it may say.

Only model-checked: liveness and anything with fairness, which is out of the
prover's reach. Every invariant that a passing run checks is stated by a theorem.

## Findings

1. `MCSoloGamesDelayed`: `NumberPickerAdapter.play` finalizes in the same
   transaction and insists on an answer, so with a delayed coordinator no play
   succeeds and `finalize` has nothing to act on. The documents describe
   delayed finalization.
2. `MCSingleDraw2To7Overflow`: blinds double without a cap in checked
   arithmetic. Once the doubling overflows, every transaction that would start
   another hand reverts, so an expired clock stays unresolved and stakes stay
   burned. With blinds 10/20 and 180-second intervals this takes 12.6 hours.

Observed while modelling, and not checked by a run:

- `TournamentController.setTournamentActive` does not ask whether the tournament
  exists. An operator who opens a number before creating it can start a game
  without fees; it is reported under the terms of the tournament created with that
  number later, and the developer is credited for fees nobody burned.
  `src/docs/session-specs/tournament-poker.md:28` says both players burn the fee up
  front. The model does the same, and `CreditedOnTerms` says how far it goes: it
  happens to no game but one started before its tournament had terms.
- A big blind posted short of the small blind (an all-in) leaves bets that never
  match; both players may check for ever, each within the clock. `HandsEnd`
  therefore asks for `BlindsInOrder`, and fails without it.
- A player with fewer chips than a call cannot call: `bet` asks for the whole
  amount, which leaves folding or the clock.
- The documents say ties split the reward pool. `WinnerAlwaysTakesAll` proves
  that with chips in play no match ends in a tie: a tied hand leaves both
  players chips.
- DISABLED stops every call of a match but not its clocks: when the module is
  revived, the player whose clock ran out meanwhile is timed out.
- Nothing stops an operator from matching a player against himself; the runs
  include it.
- A slot machine preset may be registered whose retriggers or payout cap the engine
  cannot compute with: a retrigger of 250 spins after an award of 10 reverts the spin
  although `maxFreeSpins` would cut it, and a payout cap near the largest `uint256`
  reverts every spin. `validatePreset` asks for neither number.
- The slot machine's first award of free spins is that of the trigger count
  however many scatters hit, and `maxFreeSpins` limits retriggers only.
- A spin whose seed exceeds a cap reverts, and the player keeps the stake: a cap
  below what the features may pay makes the best results impossible rather than
  cut them. `spin` settles at once, so `settle`, which
  `src/docs/session-specs/slot-machine.md:46` offers to any caller, finds every
  spin settled.
- Blackjack cards are numbered to 103, with 104 for the empty card, but an older
  single-deck numbering to 51 with 52 for the empty card is still read: when no
  card of a list is above 52, a 52, an ace of the second deck, is dropped from
  the hand (`blackjack-proof.mjs:803`). `HandsScored` excepts such hands.
- A late surrender that is declined leaves the hand without permitted actions,
  because the mask of the proof before it was made for another phase; only the
  timeout's stand remains. `src/docs/session-specs/blackjack.md` says that ordinary
  play continues.
- A dealer's blackjack that the first proof reports makes an early surrender
  void before the peek that is to reveal it.
- Cards beyond `MAX_PLAYER_CARDS` are cut off by `padArray`, from the public state and
  the commitment alike. A busted hand keeps its HIT and STAND until the coordinator
  moves on. Extra burns are in the wagers only because the coordinator states
  them: the default of the prover is the base wager.
- A deployment job's own error is overwritten with nothing when the manifest on
  disk has none (`manifestPatch`), and a reset, a restore or a restarted node
  leaves a manifest of contracts that are not there.
- Over SQS a job runs again after its verdict if its message could not be
  deleted in time, and a deletion answered with an error marks a completed job failed
  although its proof has landed. When the deletion took effect and only the answer
  was lost, nothing runs the job again and it stays failed: `VerdictsStand` excepts
  that. A job in the dead-letter queue stays `running`.
- A crash between a job's file and its message leaves the job `queued` for ever;
  nothing reads it again.
- `poker-draw` without a fixture name fails although `worker-jobs.ts` provides a
  default: the provider throws first.
- The number picker pays `100 / selection` on a roll above the selection, as
  documented, so low selections both win more often and pay more.

## Not modelled

`ScuroGovernor` (a configuration of vendored contracts; what it may do to the
game modules is `setModuleStatus`, modelled as unrestricted), roles and access
control, vote checkpoints and permits, the deprecated `GameEngineRegistry`,
generated verifiers and the blackjack circuits (their verdict is an input), infrastructure,
SDKs and analysis scripts. Gas, reentrancy guards and event logs are below the
granularity of a transaction.

Of the slot machine: reel weights, configuration hashes and the list of
winning ways, which is display. Of the provers: salts, poker keys and ciphertext references, which no contract
reads, number formats, and the build of circuits. That replacement cards and
scores agree with a deck is not modelled, because no constraint of the poker
circuits says so: both are the witness's. The engine without a verifier bundle,
which takes any proof, is `SingleDraw2To7` alone.
Of the operator: HTTP parsing and status codes, logs, health checks, and a crash
in the middle of writing a file: `fs.ts` writes job files in place, so one cut off
could not be parsed, and `list` and `recover` would throw. A live prover's output
is kept to its last 64 KiB, so parsing it may fail; in the model a prover may throw.

`PROJECT.json` lists every part with its status.

## Plan

Done: catalog, rewards, settlement, the baccarat and number picker modules,
the baccarat rules, the slot machine, chemin de fer, staking, draw poker with its
prover, match controllers, blackjack with its prover, the testnet operator with
its worker. Left, most important first:

1. `GameDeploymentFactory`: predicted addresses, registration in one step.
2. Nothing more to prove of the invariants: `SessionsComplete` and the other
   liveness properties need fairness and stay with TLC.
