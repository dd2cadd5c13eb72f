-------------------------- MODULE TestnetProtocol --------------------------
(***************************************************************************)
(* The chain operations of the testnet operator (src/ops/aws-testnet/src/  *)
(* protocol.ts, manifest.ts): staged deployment, approvals, snapshots and  *)
(* smoke scripts.  Each runs as a task of the operator process, one step   *)
(* per external command, so tasks interleave with one another and with the *)
(* worker at every command.                                                *)
(*                                                                         *)
(* The chain is an anvil node, the commands forge, cast and aws: what they *)
(* do is external.  A contract is named by the stage that deploys it and   *)
(* the deployer's nonce, which is what its address is computed from: after *)
(* a reset the same deployment yields the same addresses again.  A forge   *)
(* script is one step of the chain.                                        *)
(***************************************************************************)
EXTENDS Integers, FiniteSets

CONSTANTS
  Calls,      \* the requests the operator serves, numbered; bounds the model
  STAGES,     \* number of DEPLOY_STAGES; the first is core, the last finalize
  APPROVALS,  \* number of approvals seeded
  None

VARIABLES
  chain,      \* the anvil node's state
  manifest,   \* manifest.json
  snapshots,  \* the snapshot file and its copy in the bucket
  task,       \* what the operator process does for a call
  accepted,   \* the calls answered with 202: a job was created for them
  disturbed   \* history: deployments whose chain another actor changed

protocolVars == <<chain, manifest, snapshots, task, accepted, disturbed>>

ASSUME ProtocolAssumption ==
  /\ Calls \subseteq Nat /\ IsFiniteSet(Calls)
  /\ STAGES \in Nat /\ STAGES > 1
  /\ APPROVALS \in Nat \ {0}
  /\ None \notin {"deploy", "reset", "completed", "failed"}

Stages == 1..STAGES
Contract == [stage : Stages, nonce : Nat]

freshChain == [nonce |-> 0, contracts |-> {}, approvals |-> {}, landed |-> {}]

\* no manifest.json yet
NoManifest == [contracts |-> {}, status |-> None]
written == manifest.status # None

NoTask == [op |-> None, pc |-> "idle", stage |-> 1, approval |-> 1,
           contracts |-> {}, state |-> None]
doneTask == [NoTask EXCEPT !.pc = "done"]

\* the calls whose task is a deployment job's run
Deploying(c) == task[c].op \in {"deploy", "reset"}

ProtocolInit ==
  /\ chain = freshChain
  /\ manifest = NoManifest
  /\ snapshots = [local |-> None, remote |-> None]
  /\ task = [c \in Calls |-> NoTask]
  /\ accepted = {}
  /\ disturbed = {}

-----------------------------------------------------------------------------
(* Steps of a task.                                                        *)

at(c, pc) == task[c].pc = pc

goTo(c, pc) == task' = [task EXCEPT ![c].pc = pc]

\* the request is answered and its task ends
respond(c) == task' = [task EXCEPT ![c] = doneTask]

\* a request is answered with the error (mapError); a deployment job's run
\* catches it
throw(c) == IF Deploying(c) THEN goTo(c, "threw") ELSE respond(c)

\* runCommand throws when its command exits with anything but 0, and waits for
\* the exit however long it takes
commandFails(c) == throw(c)

\* a JSON-RPC request throws when the node does not answer or answers an error
requestFails(c) == throw(c)

-----------------------------------------------------------------------------
(* Contracts.                                                              *)

\* the stages whose addresses a stage's script takes from its environment:
\* the modules need the core, finalize needs the core and the modules
needs(stage) ==
  CASE stage = 1      -> {}
    [] stage = STAGES -> 1..(STAGES - 1)
    [] OTHER          -> {1}

stagesOf(contracts) == {k.stage : k \in contracts}

mergeContracts(current, next) ==
  {k \in current : k.stage \notin stagesOf(next)} \cup next

live(contracts) == contracts \subseteq chain.contracts

\* a script given these addresses reaches deployed contracts of those stages
reaches(contracts, stages) ==
  \A s \in stages : \E k \in contracts : k.stage = s /\ k \in chain.contracts

\* the token is deployed by the core stage
coreOf(contracts) == {k \in contracts : k.stage = 1}

buildManifest(contracts, status) == [contracts |-> contracts, status |-> status]

-----------------------------------------------------------------------------
(* Plausible bugs, defined to show that the properties can fail.           *)

\* the last stage is taken for done when it is reached
stagesDoneEarly(c) == task[c].stage >= STAGES

-----------------------------------------------------------------------------
(* deployProtocol *)

stagesDone(c) == task[c].stage > STAGES

\* ensureFundedAccounts, before the stages
FundDeployer(c) ==
  /\ at(c, "fund")
  /\ \/ goTo(c, "stage")
     \/ commandFails(c)
  /\ UNCHANGED <<chain, manifest, snapshots, disturbed, accepted>>

\* one stage's script succeeds; its addresses are parsed from the output
StageDeploys(c) ==
  LET s == task[c].stage
      new == [stage |-> s, nonce |-> chain.nonce] IN
  /\ at(c, "stage") /\ ~stagesDone(c)
  /\ reaches(task[c].contracts, needs(s))
  /\ chain' = [chain EXCEPT !.nonce = @ + 1, !.contracts = @ \cup {new}]
  /\ task' = [task EXCEPT ![c].stage = @ + 1,
                          ![c].contracts = mergeContracts(@, {new})]
  /\ UNCHANGED <<manifest, snapshots, accepted, disturbed>>

\* combineStageOutput: what a script that failed has printed, to its log or to
\* the buffered output, of the addresses it was to deploy
printedBefore(new) == SUBSET {new}

\* a stage's script fails, before it prints its addresses or while they are
\* broadcast; the partial manifest names whatever was printed
StageFails(c) ==
  LET new == [stage |-> task[c].stage, nonce |-> chain.nonce] IN
  /\ at(c, "stage") /\ ~stagesDone(c)
  /\ \E printed \in printedBefore(new) :
       /\ chain' = [chain EXCEPT !.nonce = @ + Cardinality(printed)]
       /\ manifest' = buildManifest(mergeContracts(task[c].contracts, printed), "failed")
  /\ throw(c)
  /\ UNCHANGED <<snapshots, disturbed, accepted>>

\* all stages ran: the completed manifest replaces the old one
WriteManifest(c) ==
  /\ at(c, "stage") /\ stagesDone(c)
  /\ manifest' = buildManifest(task[c].contracts, "completed")
  /\ goTo(c, "approve")
  /\ UNCHANGED <<chain, snapshots, accepted, disturbed>>

-----------------------------------------------------------------------------
(* seedApprovals, of a deployment with its manifest or of POST /seed with  *)
(* the one on disk.  The funding before it is part of its first step.      *)

LoadSeedManifest(c) ==
  /\ at(c, "seed")
  /\ \/ /\ written
        /\ task' = [task EXCEPT ![c].pc = "approve",
                                ![c].contracts = manifest.contracts]
     \/ throw(c)
  /\ UNCHANGED <<chain, manifest, snapshots, disturbed, accepted>>

\* cast send needs the token's address; it succeeds whether or not the token
\* is on this chain, but only a token that is there records the approval
Approve(c) ==
  /\ at(c, "approve") /\ task[c].approval <= APPROVALS
  /\ \/ /\ coreOf(task[c].contracts) # {}
        /\ chain' = [chain EXCEPT !.approvals = @ \cup
              (coreOf(task[c].contracts) \cap chain.contracts)
                \X {task[c].approval}]
        /\ task' = [task EXCEPT ![c].approval = @ + 1]
     \/ commandFails(c) /\ UNCHANGED chain
  /\ UNCHANGED <<manifest, snapshots, disturbed, accepted>>

Seeded(c) == at(c, "approve") /\ task[c].approval > APPROVALS

SeedResponds(c) ==
  /\ Seeded(c) /\ ~Deploying(c)
  /\ respond(c)
  /\ UNCHANGED <<chain, manifest, snapshots, disturbed, accepted>>

-----------------------------------------------------------------------------
(* Resets of the chain.  Whoever resets it disturbs the deployments of the  *)
(* others.                                                                 *)

disturbs(c) == {d \in Calls \ {c} : Deploying(d) /\ ~at(d, "done")}

\* anvil_reset, the first command of resetAndDeploy
ResetChain(c) ==
  /\ at(c, "reset")
  /\ \/ /\ chain' = freshChain
        /\ goTo(c, "fund")
        /\ disturbed' = disturbed \cup disturbs(c)
     \/ commandFails(c) /\ UNCHANGED <<chain, disturbed>>
  /\ UNCHANGED <<manifest, snapshots, accepted>>

\* systemd restarts a dead anvil, which keeps no state
restartAnvil ==
  /\ chain # freshChain
  /\ chain' = freshChain
  /\ disturbed' = disturbed \cup {d \in Calls : Deploying(d)}
  /\ UNCHANGED <<manifest, snapshots, task, accepted>>

-----------------------------------------------------------------------------
(* exportSnapshot and restoreSnapshot *)

\* normalizeSnapshotState: a state is taken with its quotes and prefix put
\* right, but an empty one is refused, as a missing file is
emptyState(raw) == raw = None

DumpState(c) ==
  /\ at(c, "dump")
  /\ \/ task' = [task EXCEPT ![c].pc = "save", ![c].state = chain]
     \/ requestFails(c)
  /\ UNCHANGED <<chain, manifest, snapshots, disturbed, accepted>>

SaveSnapshot(c) ==
  /\ at(c, "save")
  /\ snapshots' = [snapshots EXCEPT !.local = task[c].state]
  /\ goTo(c, "upload")
  /\ UNCHANGED <<chain, manifest, accepted, disturbed>>

\* the copy is of the file, which another export may have replaced
UploadSnapshot(c) ==
  /\ at(c, "upload")
  /\ \/ snapshots' = [snapshots EXCEPT !.remote = snapshots.local] /\ respond(c)
     \/ commandFails(c) /\ UNCHANGED snapshots
  /\ UNCHANGED <<chain, manifest, disturbed, accepted>>

\* with an s3Key the file is fetched first
FetchSnapshot(c) ==
  /\ at(c, "fetch")
  /\ \/ /\ snapshots.remote # None
        /\ snapshots' = [snapshots EXCEPT !.local = snapshots.remote]
        /\ goTo(c, "read")
     \/ commandFails(c) /\ UNCHANGED snapshots
  /\ UNCHANGED <<chain, manifest, disturbed, accepted>>

\* the state is read, and a missing or empty file refused, before the chain
\* is touched
ReadSnapshot(c) ==
  /\ at(c, "read")
  /\ IF emptyState(snapshots.local)
       THEN throw(c)
       ELSE task' = [task EXCEPT ![c].pc = "wipe", ![c].state = snapshots.local]
  /\ UNCHANGED <<chain, manifest, snapshots, disturbed, accepted>>

WipeChain(c) ==
  /\ at(c, "wipe")
  /\ \/ /\ chain' = freshChain
        /\ goTo(c, "load")
        /\ disturbed' = disturbed \cup disturbs(c)
     \/ requestFails(c) /\ UNCHANGED <<chain, disturbed>>
  /\ UNCHANGED <<manifest, snapshots, accepted>>

\* the manifest is not restored with the chain
LoadState(c) ==
  /\ at(c, "load")
  /\ \/ /\ chain' = task[c].state
        /\ disturbed' = disturbed \cup disturbs(c)
        /\ respond(c)
     \/ requestFails(c) /\ UNCHANGED <<chain, disturbed>>
  /\ UNCHANGED <<manifest, snapshots, accepted>>

-----------------------------------------------------------------------------
(* Scripts that play against the deployed contracts *)

\* a smoke script may fail, and passes only if the manifest's contracts are
\* on the chain
smokePasses == written /\ reaches(manifest.contracts, Stages)
smokeResults == {"failed"} \cup IF smokePasses THEN {"ok"} ELSE {}

\* POST /_local/smoke/..., inside the operator process; its answer is all
\* there is to tell its results apart
LocalSmoke(c) ==
  /\ at(c, "smoke")
  /\ respond(c)
  /\ UNCHANGED <<chain, manifest, snapshots, disturbed, accepted>>

-----------------------------------------------------------------------------
TaskStep(c) ==
  \/ FundDeployer(c) \/ StageDeploys(c) \/ StageFails(c) \/ WriteManifest(c)
  \/ LoadSeedManifest(c) \/ Approve(c) \/ SeedResponds(c) \/ ResetChain(c)
  \/ DumpState(c) \/ SaveSnapshot(c) \/ UploadSnapshot(c)
  \/ FetchSnapshot(c) \/ ReadSnapshot(c) \/ WipeChain(c) \/ LoadState(c)
  \/ LocalSmoke(c)

\* first steps of the requests these tasks serve
firstStep == [seed |-> "seed", export |-> "dump", restore |-> "read",
              restoreFrom |-> "fetch", smoke |-> "smoke"]

\* a request arrives; calls are numbered in the order they come
unused(c) == at(c, "idle") /\ \A d \in Calls : d < c => ~at(d, "idle")

StartTask(c) ==
  /\ unused(c)
  /\ \E op \in DOMAIN firstStep :
       task' = [task EXCEPT ![c].op = op, ![c].pc = firstStep[op]]
  /\ UNCHANGED <<chain, manifest, snapshots, accepted, disturbed>>

\* what the contracts a completed deployment reports must be good for
usable(m) ==
  /\ m.status = "completed"
  /\ stagesOf(m.contracts) = Stages
  /\ live(m.contracts)
  /\ coreOf(m.contracts) \X (1..APPROVALS) \subseteq chain.approvals
=============================================================================
