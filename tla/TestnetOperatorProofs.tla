----------------------- MODULE TestnetOperatorProofs -----------------------
(***************************************************************************)
(* Proofs about the testnet operator, for any calls, requests, numbers of  *)
(* stages and approvals, receives and crashes: no accepted job is          *)
(* forgotten, verdicts stand, deployments exclude one another, and a       *)
(* completed deployment is usable.                                         *)
(*                                                                         *)
(* The proofs rest on one inductive invariant.  Its parts say where a      *)
(* call's task can be and what it then has of a job (TasksPlaced), what    *)
(* the worker knows of the job in its hand (WorkerHolds, FileQueue), and   *)
(* what an undisturbed deployment has done so far (Intact).                *)
(***************************************************************************)
EXTENDS TestnetOperator, FiniteSetTheorems, TLAPS

\* where the task of a deployment job is
DeploySteps == {"create", "run", "reset", "fund", "stage", "threw"}

\* where TaskStep takes a task from
TaskSteps == {"fund", "stage", "seed", "approve", "reset", "dump", "save", "upload",
              "fetch", "read", "wipe", "load", "smoke"}

TasksPlaced ==
  \A c \in Calls :
    /\ at(c, "idle") => task[c] = NoTask
    /\ at(c, "done") => task[c] = doneTask
    /\ task[c].pc \in DeploySteps => Deploying(c)
    /\ Deploying(c) => task[c].pc \in DeploySteps \cup {"approve"}
    /\ ~up => ~Deploying(c)

\* a call's job is written before its message, and is nobody's before that
JobsOfCalls ==
  \A c \in Calls :
    ~at(c, "done") =>
      /\ job[c].status = IF at(c, "enqueue") THEN "queued" ELSE None
      /\ message[c] = "none"
      /\ ~inHand(c)
      /\ at(c, "idle") \/ at(c, "enqueue") => c \notin accepted

FileQueue ==
  queueMode = "file" =>
    \A j \in Calls :
      /\ message[j] \in {"none", "visible"}
      /\ message[j] = "visible" => job[j].status \notin TerminalJob
      /\ receives[j] = 0

WorkerHolds ==
  \A j \in Calls :
    inHand(j) =>
      /\ queueMode = "sqs" /\ message[j] = "none" =>
           \/ workerAt("catch") /\ job[j].status = "completed"
           \/ workerAt("ackFailed")
      /\ queueMode = "file" =>
           /\ message[j] = "none"
           /\ job[j].status \in TerminalJob => workerAt("ack") \/ workerAt("ackFailed")
      /\ workerAt("ack") => job[j].status = "completed"
      /\ workerAt("ackFailed") => job[j].status \in TerminalJob

JobsInv == JobsOfCalls /\ FileQueue /\ WorkerHolds /\ NoJobForgotten

\* a deployment's job is active as long as its task runs; whoever has looked
\* while nothing was active races with all that have become active since
Exclusion ==
  /\ \A c \in Calls :
       /\ at(c, "idle") \/ at(c, "create") => deployJob[c] = NoDeployJob
       /\ Deploying(c) /\ ~at(c, "create") => active(c)
  /\ \A c, d \in Calls :
       at(c, "create") /\ active(d) => c \in disturbed /\ d \in disturbed
  /\ OneDeploymentAtATime

\* what an undisturbed deployment has on the chain
deployedSoFar(c) ==
  /\ at(c, "stage") => /\ task[c].approval = 1
                       /\ task[c].stage \in 1..(STAGES + 1)
                       /\ stagesOf(task[c].contracts) = 1..(task[c].stage - 1)
  /\ at(c, "approve") =>
       /\ stagesOf(task[c].contracts) = Stages
       /\ manifest = buildManifest(task[c].contracts, "completed")
       /\ task[c].approval \in 1..(APPROVALS + 1)
       /\ coreOf(task[c].contracts) \X (1..(task[c].approval - 1)) \subseteq chain.approvals

intact(c) ==
  Deploying(c) /\ c \notin disturbed =>
    /\ task[c].pc \in {"create", "run", "reset", "fund"} =>
         task[c].stage = 1 /\ task[c].approval = 1 /\ task[c].contracts = {}
    /\ at(c, "stage") \/ at(c, "approve") => live(task[c].contracts)
    /\ deployedSoFar(c)

Intact == \A c \in Calls : intact(c)

IInv == TypeOK /\ TasksPlaced /\ JobsInv /\ Exclusion /\ Intact

-----------------------------------------------------------------------------
(* Types                                                                   *)

TaskTypeOK ==
  /\ task \in [Calls -> Task]
  /\ \A c \in Calls : at(c, "wipe") \/ at(c, "load") => task[c].state \in ChainState

ChainTypeOK ==
  /\ chain \in ChainState /\ manifest \in Manifest
  /\ snapshots \in [local : ChainState \cup {None}, remote : ChainState \cup {None}]
  /\ accepted \subseteq Calls /\ disturbed \subseteq Calls

\* the outcome of a step of the task of one call
moved(c, t) == task' = [task EXCEPT ![c] = t]

LEMMA DoneTaskType == doneTask \in Task /\ NoTask \in Task
<1>1. {} \in SUBSET Contract /\ None \in ChainState \cup {None} /\ None \in Operations \cup {None}
  OBVIOUS
<1>2. NoTask \in Task
  BY <1>1 DEF NoTask, Task, Steps
<1>3. doneTask \in Task
  BY <1>2 DEF doneTask, Task, Steps
<1> QED
  BY <1>2, <1>3

LEMMA GoToMoves ==
  ASSUME TaskTypeOK, NEW c \in Calls, NEW pc \in Steps, goTo(c, pc)
  PROVE  /\ task' = [task EXCEPT ![c] = task'[c]]
         /\ task'[c] \in Task
         /\ task'[c].pc = pc /\ task'[c].op = task[c].op
         /\ task'[c].stage = task[c].stage /\ task'[c].approval = task[c].approval
         /\ task'[c].contracts = task[c].contracts /\ task'[c].state = task[c].state
<1> DEFINE t == [task[c] EXCEPT !.pc = pc]
<1>1. task[c] \in Task
  BY DEF TaskTypeOK
<1>2. t \in Task /\ t.pc = pc /\ t.op = task[c].op /\ t.stage = task[c].stage
      /\ t.approval = task[c].approval /\ t.contracts = task[c].contracts
      /\ t.state = task[c].state
  BY <1>1 DEF Task
<1>3. task' = [task EXCEPT ![c] = t]
  BY DEF goTo
<1> HIDE DEF t
<1>4. task'[c] = t
  BY <1>3 DEF TaskTypeOK
<1> QED
  BY <1>2, <1>3, <1>4

LEMMA RespondMoves ==
  ASSUME TaskTypeOK, NEW c \in Calls, respond(c)
  PROVE  /\ task' = [task EXCEPT ![c] = task'[c]]
         /\ task'[c] = doneTask
  BY DEF TaskTypeOK, respond

LEMMA ThrowMoves ==
  ASSUME TaskTypeOK, NEW c \in Calls, throw(c)
  PROVE  /\ task' = [task EXCEPT ![c] = task'[c]]
         /\ task'[c] \in Task
         /\ \/ Deploying(c) /\ task'[c].pc = "threw" /\ task'[c].op = task[c].op
            \/ ~Deploying(c) /\ task'[c] = doneTask
<1>1. CASE Deploying(c)
  <2>1. goTo(c, "threw") /\ "threw" \in Steps
    BY <1>1 DEF throw, Steps
  <2> QED
    BY <1>1, <2>1, GoToMoves
<1>2. CASE ~Deploying(c)
  BY <1>2, RespondMoves, DoneTaskType DEF throw
<1> QED
  BY <1>1, <1>2

-----------------------------------------------------------------------------
(* A task's step, whichever it is: what the rest of the system sees of it  *)

\* the task ends, or goes on among the steps of its kind
TaskMoved(c) ==
  /\ task' = [task EXCEPT ![c] = task'[c]]
  /\ task'[c] \in Task
  /\ task[c].pc \in TaskSteps
  /\ \/ task'[c] = doneTask
     \/ /\ task'[c].op = task[c].op
        /\ task'[c].pc \in TaskSteps \cup {"threw"}
        /\ task[c].pc \in {"fund", "reset", "stage", "approve"} =>
             task'[c].pc \in {"fund", "stage", "approve", "threw"}
        /\ task'[c].pc \in {"fund", "stage", "reset"} =>
             task[c].pc \in {"fund", "reset", "stage"}
        /\ task'[c].pc = "threw" => Deploying(c)
        /\ task'[c].pc \in {"wipe", "load"} => task'[c].state \in ChainState

\* the three ways a step can go on
LEMMA GoesOn ==
  ASSUME TaskTypeOK, NEW c \in Calls, NEW pc, at(c, pc),
         NEW next \in Steps, goTo(c, next),
         <<pc, next>> \in {<<"fund", "stage">>, <<"stage", "approve">>, <<"reset", "fund">>,
                          <<"save", "upload">>, <<"fetch", "read">>, <<"wipe", "load">>}
  PROVE  TaskMoved(c)
<1>1. TaskTypeOK /\ task[c].pc = pc
  BY DEF at
<1>2. pc = "wipe" => task[c].state \in ChainState
  BY DEF at, TaskTypeOK
<1> QED
  BY <1>1, <1>2, GoToMoves DEF TaskMoved, TaskSteps

LEMMA Throws ==
  ASSUME TaskTypeOK, NEW c \in Calls, task[c].pc \in TaskSteps, throw(c)
  PROVE  TaskMoved(c)
  BY ThrowMoves, DoneTaskType DEF TaskMoved, TaskSteps

LEMMA Responds ==
  ASSUME TaskTypeOK, NEW c \in Calls, task[c].pc \in TaskSteps, respond(c)
  PROVE  TaskMoved(c)
  BY RespondMoves, DoneTaskType DEF TaskMoved, TaskSteps

LEMMA TaskStepMoves ==
  ASSUME TaskTypeOK, ChainTypeOK, NEW c \in Calls, TaskStep(c)
  PROVE  TaskMoved(c)
<1>1. task[c] \in Task
  BY DEF TaskTypeOK
<1>2. CASE FundDeployer(c)
  <2>1. task[c].pc \in TaskSteps /\ at(c, "fund") /\ "stage" \in Steps
    BY <1>2 DEF FundDeployer, TaskSteps, at, Steps
  <2> QED
    BY <1>2, <2>1, GoesOn, Throws DEF FundDeployer, commandFails
<1>3. CASE StageDeploys(c)
  <2> DEFINE new == [stage |-> task[c].stage, nonce |-> chain.nonce]
             merged == mergeContracts(task[c].contracts, {new})
             t == [task[c] EXCEPT !.stage = @ + 1, !.contracts = merged]
  <2>0. chain.nonce \in Nat /\ task[c].stage > 0 /\ STAGES \in Nat
    BY <1>1, ProtocolAssumption DEF ChainTypeOK, ChainState, Task
  <2>1. at(c, "stage") /\ task[c].stage \in Nat /\ ~(task[c].stage > STAGES)
        /\ reaches(task[c].contracts, needs(task[c].stage)) /\ task' = [task EXCEPT ![c] = t]
    BY <1>1, <1>3 DEF StageDeploys, stagesDone, Task
  <2>2. new \in Contract
    BY <2>1, <2>0 DEF Contract, Stages
  <2>3. merged \in SUBSET Contract
    BY <1>1, <2>2 DEF mergeContracts, Task
  <2>4. t \in Task /\ t.op = task[c].op /\ t.pc = "stage"
    <3>1. task[c].pc = "stage" /\ task[c].stage + 1 \in Nat \ {0}
      BY <1>1, <2>1 DEF at, Task
    <3> HIDE DEF merged
    <3> QED
      BY <1>1, <2>3, <3>1 DEF Task
  <2>5. task'[c] = t
    <3> HIDE DEF t
    <3> QED BY <2>1 DEF TaskTypeOK
  <2> QED
    <3> HIDE DEF t
    <3> QED BY <2>1, <2>4, <2>5 DEF TaskMoved, TaskSteps, at
<1>4. CASE StageFails(c)
  <2>1. task[c].pc \in TaskSteps
    BY <1>4 DEF StageFails, TaskSteps, at
  <2> QED
    BY <1>4, <2>1, Throws DEF StageFails
<1>5. CASE WriteManifest(c)
  <2>1. at(c, "stage") /\ "approve" \in Steps
    BY <1>5 DEF WriteManifest, Steps
  <2> QED
    BY <1>5, <2>1, GoesOn DEF WriteManifest
<1>6. CASE LoadSeedManifest(c)
  <2>1. task[c].pc \in TaskSteps /\ at(c, "seed")
    BY <1>6 DEF LoadSeedManifest, TaskSteps, at
  <2>2. CASE task' = [task EXCEPT ![c].pc = "approve", ![c].contracts = manifest.contracts]
    <3> DEFINE t == [task[c] EXCEPT !.pc = "approve", !.contracts = manifest.contracts]
    <3>1. manifest.contracts \in SUBSET Contract
      BY DEF ChainTypeOK, Manifest
    <3>2. t \in Task /\ t.op = task[c].op /\ t.pc = "approve"
      BY <1>1, <3>1 DEF Task, Steps
    <3>3. task' = [task EXCEPT ![c] = t]
      BY <2>2
    <3>4. task'[c] = t
      <4> HIDE DEF t
      <4> QED BY <3>3 DEF TaskTypeOK
    <3> HIDE DEF t
    <3> QED
      BY <2>1, <3>2, <3>3, <3>4 DEF TaskMoved, TaskSteps, at
  <2> QED
    BY <1>6, <2>1, <2>2, Throws DEF LoadSeedManifest
<1>7. CASE Approve(c)
  <2>1. task[c].pc \in TaskSteps /\ at(c, "approve")
    BY <1>7 DEF Approve, TaskSteps, at
  <2>2. CASE task' = [task EXCEPT ![c].approval = @ + 1]
    <3> DEFINE t == [task[c] EXCEPT !.approval = @ + 1]
    <3>1. t \in Task /\ t.op = task[c].op /\ t.pc = task[c].pc
      BY <1>1 DEF Task
    <3>2. task' = [task EXCEPT ![c] = t]
      BY <2>2
    <3>3. task'[c] = t
      <4> HIDE DEF t
      <4> QED BY <3>2 DEF TaskTypeOK
    <3> HIDE DEF t
    <3> QED
      BY <2>1, <3>1, <3>2, <3>3 DEF TaskMoved, TaskSteps, at
  <2> QED
    BY <1>7, <2>1, <2>2, Throws DEF Approve, commandFails
<1>8. CASE SeedResponds(c) \/ LocalSmoke(c)
  <2>1. task[c].pc \in TaskSteps
    BY <1>8 DEF SeedResponds, Seeded, LocalSmoke, TaskSteps, at
  <2> QED
    BY <1>8, <2>1, Responds DEF SeedResponds, LocalSmoke
<1>9. CASE ResetChain(c)
  <2>1. task[c].pc \in TaskSteps /\ at(c, "reset") /\ "fund" \in Steps
    BY <1>9 DEF ResetChain, TaskSteps, at, Steps
  <2> QED
    BY <1>9, <2>1, GoesOn, Throws DEF ResetChain, commandFails
<1>10. CASE DumpState(c)
  <2>1. task[c].pc \in TaskSteps /\ at(c, "dump")
    BY <1>10 DEF DumpState, TaskSteps, at
  <2>2. CASE task' = [task EXCEPT ![c].pc = "save", ![c].state = chain]
    <3> DEFINE t == [task[c] EXCEPT !.pc = "save", !.state = chain]
    <3>1. t \in Task /\ t.op = task[c].op /\ t.pc = "save"
      BY <1>1 DEF Task, Steps, ChainTypeOK
    <3>2. task' = [task EXCEPT ![c] = t]
      BY <2>2
    <3>3. task'[c] = t
      <4> HIDE DEF t
      <4> QED BY <3>2 DEF TaskTypeOK
    <3> HIDE DEF t
    <3> QED
      BY <2>1, <3>1, <3>2, <3>3 DEF TaskMoved, TaskSteps, at
  <2> QED
    BY <1>10, <2>1, <2>2, Throws DEF DumpState, requestFails
<1>11. CASE SaveSnapshot(c)
  <2>1. at(c, "save") /\ "upload" \in Steps
    BY <1>11 DEF SaveSnapshot, Steps
  <2> QED
    BY <1>11, <2>1, GoesOn DEF SaveSnapshot
<1>12. CASE UploadSnapshot(c)
  <2>1. task[c].pc \in TaskSteps
    BY <1>12 DEF UploadSnapshot, TaskSteps, at
  <2> QED
    BY <1>12, <2>1, Responds, Throws DEF UploadSnapshot, commandFails
<1>13. CASE FetchSnapshot(c)
  <2>1. task[c].pc \in TaskSteps /\ at(c, "fetch") /\ "read" \in Steps
    BY <1>13 DEF FetchSnapshot, TaskSteps, at, Steps
  <2> QED
    BY <1>13, <2>1, GoesOn, Throws DEF FetchSnapshot, commandFails
<1>14. CASE ReadSnapshot(c)
  <2>1. task[c].pc \in TaskSteps /\ at(c, "read")
    BY <1>14 DEF ReadSnapshot, TaskSteps, at
  <2>2. CASE snapshots.local # None
    <3> DEFINE t == [task[c] EXCEPT !.pc = "wipe", !.state = snapshots.local]
    <3>1. snapshots.local \in ChainState
      BY <2>2 DEF ChainTypeOK
    <3>2. t \in Task /\ t.op = task[c].op /\ t.pc = "wipe" /\ t.state = snapshots.local
      BY <1>1, <3>1 DEF Task, Steps
    <3>3. task' = [task EXCEPT ![c] = t]
      BY <1>14, <2>2 DEF ReadSnapshot, emptyState
    <3>4. task'[c] = t
      <4> HIDE DEF t
      <4> QED BY <3>3 DEF TaskTypeOK
    <3> HIDE DEF t
    <3> QED
      BY <2>1, <3>1, <3>2, <3>3, <3>4 DEF TaskMoved, TaskSteps, at
  <2> QED
    BY <1>14, <2>1, <2>2, Throws DEF ReadSnapshot, emptyState
<1>15. CASE WipeChain(c)
  <2>1. task[c].pc \in TaskSteps /\ at(c, "wipe") /\ "load" \in Steps
    BY <1>15 DEF WipeChain, TaskSteps, at, Steps
  <2> QED
    BY <1>15, <2>1, GoesOn, Throws DEF WipeChain, requestFails
<1>16. CASE LoadState(c)
  <2>1. task[c].pc \in TaskSteps
    BY <1>16 DEF LoadState, TaskSteps, at
  <2> QED
    BY <1>16, <2>1, Responds, Throws DEF LoadState, requestFails
<1> QED
  BY <1>2, <1>3, <1>4, <1>5, <1>6, <1>7, <1>8, <1>9, <1>10, <1>11, <1>12, <1>13, <1>14,
     <1>15, <1>16 DEF TaskStep

LEMMA FreshChainType == freshChain \in ChainState
<1>1. {} \in SUBSET Contract /\ {} \in SUBSET (Contract \X Nat) /\ {} \in SUBSET Calls
  OBVIOUS
<1> QED
  BY <1>1 DEF freshChain, ChainState

LEMMA TaskStepChainType ==
  ASSUME TaskTypeOK, ChainTypeOK, NEW c \in Calls, TaskStep(c)
  PROVE  ChainTypeOK' /\ accepted' = accepted /\ disturbed \subseteq disturbed'
<1>1. task[c] \in Task /\ chain \in ChainState
  BY DEF TaskTypeOK, ChainTypeOK
<1>2. disturbs(c) \subseteq Calls
  BY DEF disturbs
<1>3. CASE FundDeployer(c) \/ LoadSeedManifest(c) \/ SeedResponds(c) \/ DumpState(c)
           \/ ReadSnapshot(c) \/ LocalSmoke(c)
  BY <1>3 DEF FundDeployer, LoadSeedManifest, SeedResponds, DumpState, ReadSnapshot,
              LocalSmoke, ChainTypeOK
<1>4. CASE StageDeploys(c)
  <2> DEFINE new == [stage |-> task[c].stage, nonce |-> chain.nonce]
  <2>1. chain' = [chain EXCEPT !.nonce = @ + 1, !.contracts = @ \cup {new}]
    BY <1>4 DEF StageDeploys
  <2>2. new \in Contract
    BY <1>1, <1>4, ProtocolAssumption
       DEF StageDeploys, stagesDone, Task, ChainState, Contract, Stages
  <2>3. chain' \in ChainState
    <3> HIDE DEF new
    <3>1. chain.contracts \cup {new} \in SUBSET Contract /\ chain.nonce + 1 \in Nat
      BY <1>1, <2>2 DEF ChainState
    <3> DEFINE more == chain.contracts \cup {new}
    <3>2. chain' = [chain EXCEPT !.nonce = @ + 1, !.contracts = more]
      BY <2>1
    <3> HIDE DEF more
    <3>3. more \in SUBSET Contract
      BY <3>1 DEF more
    <3> QED
      BY <1>1, <3>1, <3>2, <3>3 DEF ChainState
  <2> QED
    BY <1>4, <2>3 DEF StageDeploys, ChainTypeOK
<1>5. CASE StageFails(c)
  <2> DEFINE new == [stage |-> task[c].stage, nonce |-> chain.nonce]
  <2>1. PICK printed \in SUBSET {new} :
          /\ chain' = [chain EXCEPT !.nonce = @ + Cardinality(printed)]
          /\ manifest' = buildManifest(mergeContracts(task[c].contracts, printed), "failed")
    BY <1>5 DEF StageFails, printedBefore
  <2>2. new \in Contract
    BY <1>1, <1>5, ProtocolAssumption
       DEF StageFails, stagesDone, Task, ChainState, Contract, Stages
  <2>3. Cardinality(printed) \in Nat
    <3> HIDE DEF new
    <3>1. printed = {} \/ printed = {new}
      OBVIOUS
    <3>2. Cardinality({}) = 0 /\ Cardinality({new}) = 1
      BY FS_EmptySet, FS_Singleton
    <3>3. CASE printed = {}
      BY <3>2, <3>3
    <3>4. CASE printed = {new}
      BY <3>2, <3>4
    <3> QED
      BY <3>1, <3>3, <3>4
  <2>4. chain' \in ChainState
    BY <1>1, <2>1, <2>3 DEF ChainState
  <2>5. mergeContracts(task[c].contracts, printed) \in SUBSET Contract
    <3>1. printed \subseteq Contract
      BY <2>2
    <3>2. task[c].contracts \in SUBSET Contract
      BY <1>1 DEF Task
    <3> QED
      BY <3>1, <3>2, Zenon DEF mergeContracts
  <2>6. manifest' \in Manifest
    BY <2>1, <2>5 DEF buildManifest, Manifest
  <2> QED
    BY <1>5, <2>4, <2>6 DEF StageFails, ChainTypeOK
<1>6. CASE WriteManifest(c)
  BY <1>1, <1>6 DEF WriteManifest, buildManifest, Manifest, Task, ChainTypeOK
<1>7. CASE Approve(c)
  <2>1. chain' \in ChainState
    <3>1. CASE chain' = [chain EXCEPT !.approvals = @ \cup
              (coreOf(task[c].contracts) \cap chain.contracts)
                \X {task[c].approval}]
      <4> DEFINE more == chain.approvals \cup
              (coreOf(task[c].contracts) \cap chain.contracts) \X {task[c].approval}
      <4>1. more \in SUBSET (Contract \X Nat)
        <5>1. chain.contracts \subseteq Contract /\ task[c].approval \in Nat
              /\ chain.approvals \subseteq Contract \X Nat
          BY <1>1 DEF ChainState, Task
        <5> QED
          BY <5>1
      <4>2. chain' = [chain EXCEPT !.approvals = more]
        BY <3>1
      <4> HIDE DEF more
      <4> QED
        BY <1>1, <4>1, <4>2 DEF ChainState
    <3> QED
      BY <1>1, <1>7, <3>1 DEF Approve
  <2> QED
    BY <1>7, <2>1 DEF Approve, ChainTypeOK
<1>8. CASE ResetChain(c)
  BY <1>2, <1>8, FreshChainType DEF ResetChain, ChainTypeOK
<1>9. CASE SaveSnapshot(c)
  <2>1. task[c].state \in ChainState \cup {None}
    BY <1>1 DEF Task
  <2> QED
    BY <1>9, <2>1 DEF SaveSnapshot, ChainTypeOK
<1>10. CASE UploadSnapshot(c)
  BY <1>10 DEF UploadSnapshot, ChainTypeOK
<1>11. CASE FetchSnapshot(c)
  BY <1>11 DEF FetchSnapshot, ChainTypeOK
<1>12. CASE WipeChain(c)
  BY <1>2, <1>12, FreshChainType DEF WipeChain, ChainTypeOK
<1>13. CASE LoadState(c)
  BY <1>2, <1>13 DEF LoadState, ChainTypeOK, TaskTypeOK
<1> QED
  BY <1>3, <1>4, <1>5, <1>6, <1>7, <1>8, <1>9, <1>10, <1>11, <1>12, <1>13 DEF TaskStep

-----------------------------------------------------------------------------
(* Where tasks are                                                         *)

\* what TasksPlaced says of one task while the operator is up
placed(t) ==
  /\ t \in Task
  /\ t.pc = "idle" => t = NoTask
  /\ t.pc = "done" => t = doneTask
  /\ t.pc \in DeploySteps => t.op \in {"deploy", "reset"}
  /\ t.op \in {"deploy", "reset"} => t.pc \in DeploySteps \cup {"approve"}
  /\ t.pc \in {"wipe", "load"} => t.state \in ChainState

LEMMA DonePlaced ==
  /\ placed(doneTask) /\ doneTask.pc = "done" /\ doneTask.op = None
  /\ placed(NoTask) /\ NoTask.pc = "idle" /\ NoTask.op = None
<1>1. NoTask.pc = "idle" /\ NoTask.op = None
  BY DEF NoTask
<1>2. doneTask.pc = "done" /\ doneTask.op = None
  BY DEF NoTask, doneTask
<1> QED
  BY <1>1, <1>2, DoneTaskType, ProtocolAssumption DEF placed, DeploySteps

LEMMA AllPlaced ==
  ASSUME TaskTypeOK, TasksPlaced, NEW c \in Calls
  PROVE  placed(task[c])
  BY DEF TaskTypeOK, TasksPlaced, placed, at, Deploying

LEMMA PlacedAfter ==
  ASSUME TaskTypeOK, TasksPlaced, NEW c \in Calls,
         task' = [task EXCEPT ![c] = task'[c]], placed(task'[c]), up'
  PROVE  TaskTypeOK' /\ TasksPlaced'
<1>1. \A d \in Calls : placed(task'[d])
  <2> TAKE d \in Calls
  <2>1. CASE d = c
    BY <2>1
  <2>2. CASE d # c
    <3>1. task'[d] = task[d]
      BY <2>2 DEF TaskTypeOK
    <3> QED
      BY <3>1, AllPlaced
  <2> QED
    BY <2>1, <2>2
<1>2. task' = [d \in Calls |-> task'[d]]
  BY DEF TaskTypeOK
<1> QED
  BY <1>1, <1>2 DEF TaskTypeOK, TasksPlaced, placed, at, Deploying

LEMMA TaskStepPlaced ==
  ASSUME TaskTypeOK, ChainTypeOK, TasksPlaced, NEW c \in Calls, TaskStep(c), up'
  PROVE  TaskTypeOK' /\ TasksPlaced'
<1>1. TaskMoved(c) /\ placed(task[c])
  BY TaskStepMoves, AllPlaced
<1>2. placed(task'[c])
  <2>1. CASE task'[c] = doneTask
    BY <2>1, DonePlaced
  <2>2. CASE task'[c] # doneTask
    BY <1>1, <2>2 DEF TaskMoved, placed, TaskSteps, DeploySteps, Deploying
  <2> QED
    BY <2>1, <2>2
<1> QED
  BY <1>1, <1>2, PlacedAfter DEF TaskMoved

LEMMA StartMoves ==
  ASSUME TaskTypeOK, TasksPlaced, NEW c \in Calls, StartTask(c)
  PROVE  /\ task' = [task EXCEPT ![c] = task'[c]]
         /\ at(c, "idle") /\ placed(task'[c])
         /\ task'[c].pc \in TaskSteps \ {"fund", "stage", "approve", "reset"}
         /\ task'[c].op \notin {"deploy", "reset"}
<1>1. PICK op \in DOMAIN firstStep :
        task' = [task EXCEPT ![c].op = op, ![c].pc = firstStep[op]]
  BY DEF StartTask
<1>2. at(c, "idle") /\ task[c] \in Task
  BY DEF StartTask, unused, TaskTypeOK
<1>3. op \in {"seed", "export", "restore", "restoreFrom", "smoke"}
      /\ firstStep[op] \in {"seed", "dump", "read", "fetch", "smoke"}
  BY DEF firstStep
<1> DEFINE pc == firstStep[op]
           t == [task[c] EXCEPT !.op = op, !.pc = pc]
<1>4. pc \in {"seed", "dump", "read", "fetch", "smoke"}
  BY <1>3
<1>5. task' = [task EXCEPT ![c] = t]
  BY <1>1
<1> HIDE DEF pc
<1>6. t \in Task /\ t.op = op /\ t.pc = pc
  BY <1>2, <1>3, <1>4 DEF Task, Operations, Steps
<1> HIDE DEF t
<1>7. task'[c] = t
  BY <1>5 DEF TaskTypeOK
<1>8. placed(t)
  BY <1>3, <1>4, <1>6 DEF placed, DeploySteps
<1> QED
  BY <1>2, <1>3, <1>4, <1>5, <1>6, <1>7, <1>8 DEF TaskSteps

\* a request that is answered where it stands, or becomes a task of its kind
LEMMA FindActiveMoves ==
  ASSUME TaskTypeOK, TasksPlaced, NEW c \in Calls, FindActive(c)
  PROVE  /\ task' = [task EXCEPT ![c] = task'[c]]
         /\ at(c, "idle") /\ placed(task'[c])
         /\ \/ task'[c] = doneTask
            \/ /\ findActive = {}
               /\ task'[c].pc = "create" /\ task'[c].op \in {"deploy", "reset"}
               /\ task'[c].stage = 1 /\ task'[c].approval = 1 /\ task'[c].contracts = {}
<1>1. at(c, "idle") /\ task[c] \in Task /\ task[c] = NoTask
  BY DEF FindActive, unused, TaskTypeOK, TasksPlaced
<1>2. CASE respond(c)
  BY <1>1, <1>2, RespondMoves, DonePlaced
<1>3. ASSUME NEW op \in {"deploy", "reset"}, findActive = {},
             task' = [task EXCEPT ![c].op = op, ![c].pc = "create"]
      PROVE  /\ task' = [task EXCEPT ![c] = task'[c]]
             /\ placed(task'[c])
             /\ task'[c].pc = "create" /\ task'[c].op \in {"deploy", "reset"}
             /\ task'[c].stage = 1 /\ task'[c].approval = 1 /\ task'[c].contracts = {}
  <2> DEFINE t == [task[c] EXCEPT !.op = op, !.pc = "create"]
  <2>1. task' = [task EXCEPT ![c] = t]
    BY <1>3
  <2>2. t \in Task /\ t.op = op /\ t.pc = "create" /\ t.stage = task[c].stage
        /\ t.approval = task[c].approval /\ t.contracts = task[c].contracts
    BY <1>1 DEF Task, Operations, Steps
  <2> HIDE DEF t
  <2>3. task'[c] = t
    BY <2>1 DEF TaskTypeOK
  <2>4. placed(t)
    BY <2>2 DEF placed, DeploySteps
  <2>5. task[c].stage = 1 /\ task[c].approval = 1 /\ task[c].contracts = {}
    BY <1>1 DEF NoTask
  <2> QED
    BY <2>1, <2>2, <2>3, <2>4, <2>5
<1> QED
  BY <1>1, <1>2, <1>3 DEF FindActive

LEMMA PostJobMoves ==
  ASSUME TaskTypeOK, TasksPlaced, NEW c \in Calls, PostJob(c)
  PROVE  /\ task' = [task EXCEPT ![c] = task'[c]]
         /\ at(c, "idle") /\ placed(task'[c])
         /\ \/ task'[c] = doneTask /\ UNCHANGED job
            \/ /\ task'[c].pc = "enqueue" /\ task'[c].op = "job"
               /\ \E body \in Requests :
                    job' = [job EXCEPT ![c] = [NoJob EXCEPT !.request = body,
                                                           !.status = "queued"]]
<1>1. at(c, "idle") /\ task[c] \in Task
  BY DEF PostJob, unused, TaskTypeOK
<1>2. CASE respond(c) /\ UNCHANGED job
  BY <1>1, <1>2, RespondMoves, DonePlaced
<1>3. CASE task' = [task EXCEPT ![c].op = "job", ![c].pc = "enqueue"]
  <2> DEFINE t == [task[c] EXCEPT !.op = "job", !.pc = "enqueue"]
  <2>1. task' = [task EXCEPT ![c] = t]
    BY <1>3
  <2>2. t \in Task /\ t.op = "job" /\ t.pc = "enqueue"
    BY <1>1 DEF Task, Operations, Steps
  <2> HIDE DEF t
  <2>3. task'[c] = t
    BY <2>1 DEF TaskTypeOK
  <2>4. placed(t)
    BY <2>2 DEF placed, DeploySteps
  <2>5. task' = [task EXCEPT ![c] = task'[c]] /\ placed(task'[c])
        /\ task'[c].pc = "enqueue" /\ task'[c].op = "job"
    BY <2>1, <2>2, <2>3, <2>4
  <2>6. task'[c] # doneTask
    BY <2>5, DonePlaced
  <2>7. ~respond(c)
    BY <2>6, RespondMoves
  <2> QED
    BY <1>1, <2>5, <2>7 DEF PostJob
<1> QED
  BY <1>1, <1>2, <1>3 DEF PostJob

LEMMA DeployGoTo ==
  ASSUME TaskTypeOK, TasksPlaced, NEW c \in Calls, NEW pc \in DeploySteps, Deploying(c),
         goTo(c, pc)
  PROVE  placed(task'[c])
<1>1. pc \in Steps
  BY DEF DeploySteps, Steps
<1> QED
  BY <1>1, GoToMoves DEF placed, DeploySteps, Deploying

LEMMA DeployMoves ==
  ASSUME TaskTypeOK, TasksPlaced, NEW c \in Calls, Create(c) \/ Run(c)
  PROVE  /\ task' = [task EXCEPT ![c] = task'[c]]
         /\ placed(task'[c]) /\ Deploying(c)
         /\ task'[c].op = task[c].op /\ task'[c].stage = task[c].stage
         /\ task'[c].approval = task[c].approval /\ task'[c].contracts = task[c].contracts
         /\ Create(c) => task'[c].pc = "run"
         /\ Run(c) => task'[c].pc \in {"fund", "reset"}
<1>1. PICK pc \in {"run", "fund", "reset"} :
        goTo(c, pc) /\ (Create(c) => pc = "run") /\ (Run(c) => pc \in {"fund", "reset"})
        /\ task[c].pc \in {"create", "run"}
  <2>1. CASE Create(c)
    <3>1. ~Run(c)
      BY <2>1 DEF Create, Run, at
    <3> QED
      BY <2>1, <3>1 DEF Create, at
  <2>2. CASE Run(c)
    <3>1. ~Create(c)
      BY <2>2 DEF Create, Run, at
    <3> QED
      BY <2>2, <3>1 DEF Run, at
  <2> QED
    BY <2>1, <2>2
<1>2. Deploying(c)
  BY <1>1 DEF TasksPlaced, DeploySteps
<1>3. pc \in Steps /\ pc \in DeploySteps
  BY DEF Steps, DeploySteps
<1> QED
  BY <1>1, <1>2, <1>3, GoToMoves, DeployGoTo

\* a step that ends its task
Ends(c) == Enqueue(c) \/ Complete(c) \/ CatchError(c)

LEMMA EndMoves ==
  ASSUME TaskTypeOK, TasksPlaced, NEW c \in Calls, Ends(c)
  PROVE  task' = [task EXCEPT ![c] = task'[c]] /\ task'[c] = doneTask /\ placed(task'[c])
<1>1. task' = [task EXCEPT ![c] = doneTask]
  BY DEF Ends, Enqueue, respond, Complete, CatchError
<1> QED
  BY <1>1, DonePlaced DEF TaskTypeOK

LEMMA ServeMoves ==
  ASSUME TaskTypeOK, ChainTypeOK, TasksPlaced, NEW c \in Calls, Serve(c)
  PROVE  /\ task' = [task EXCEPT ![c] = task'[c]]
         /\ TaskTypeOK' /\ TasksPlaced' /\ up /\ up'
<1>1. up /\ up'
  BY DEF Serve
<1>2. CASE StartTask(c)
  BY <1>1, <1>2, StartMoves, PlacedAfter
<1>3. CASE TaskStep(c)
  BY <1>1, <1>3, TaskStepMoves, TaskStepPlaced DEF TaskMoved
<1>4. CASE FindActive(c)
  BY <1>1, <1>4, FindActiveMoves, PlacedAfter
<1>5. CASE Create(c) \/ Run(c)
  BY <1>1, <1>5, DeployMoves, PlacedAfter
<1>6. CASE PostJob(c)
  BY <1>1, <1>6, PostJobMoves, PlacedAfter
<1>7. CASE Ends(c)
  BY <1>1, <1>7, EndMoves, PlacedAfter
<1> QED
  BY <1>1, <1>2, <1>3, <1>4, <1>5, <1>6, <1>7 DEF Serve, DeployStep, PostStep, Ends

LEMMA WorkFrame ==
  ASSUME Work \/ CrashWorker \/ CrashChain \/ \E j \in Calls : Expire(j)
  PROVE  UNCHANGED <<task, up, accepted, manifest, snapshots, deployJob>>
<1>1. CASE Work
  BY <1>1 DEF Work, WorkerStep, Receive, Redrive, GetJob, Execute, Submit, CompleteJob,
              Ack, CatchJobError, AckFailed, protocolVars
<1>2. CASE CrashWorker \/ CrashChain \/ \E j \in Calls : Expire(j)
  BY <1>2 DEF CrashWorker, crashWorker, CrashChain, restartAnvil, Expire,
              VisibilityTimeout, protocolVars
<1> QED
  BY <1>1, <1>2

LEMMA CrashMoves ==
  ASSUME TaskTypeOK, CrashOperator
  PROVE  /\ \A c \in Calls : task'[c] = IF at(c, "idle") THEN NoTask ELSE doneTask
         /\ TaskTypeOK' /\ TasksPlaced'
<1>1. task' = [c \in Calls |-> IF at(c, "idle") THEN NoTask ELSE doneTask]
  BY DEF CrashOperator
<1>2. \A c \in Calls : task'[c] = IF at(c, "idle") THEN NoTask ELSE doneTask
  BY <1>1
<1>3. TaskTypeOK'
  BY <1>1, <1>2, DoneTaskType, DonePlaced DEF TaskTypeOK, at
<1>4. TasksPlaced'
  BY <1>2, DonePlaced, ProtocolAssumption DEF TasksPlaced, at, Deploying, DeploySteps
<1> QED
  BY <1>2, <1>3, <1>4

LEMMA NextPlaced ==
  ASSUME TaskTypeOK, ChainTypeOK, TasksPlaced, [Next]_vars
  PROVE  TaskTypeOK' /\ TasksPlaced'
<1>1. CASE \E c \in Calls : Serve(c)
  BY <1>1, ServeMoves
<1>2. CASE Recover
  <2>1. UNCHANGED task /\ up'
    BY <1>2 DEF Recover, protocolVars
  <2> QED
    BY <2>1 DEF TaskTypeOK, TasksPlaced, at, Deploying
<1>3. CASE Work \/ CrashWorker \/ CrashChain \/ \E j \in Calls : Expire(j)
  <2>1. UNCHANGED task /\ UNCHANGED up
    BY <1>3, WorkFrame
  <2> QED
    BY <2>1 DEF TaskTypeOK, TasksPlaced, at, Deploying
<1>4. CASE CrashOperator
  BY <1>4, CrashMoves
<1>5. CASE UNCHANGED vars
  <2>1. UNCHANGED task /\ UNCHANGED up
    BY <1>5 DEF vars, deployVars, protocolVars
  <2> QED
    BY <2>1 DEF TaskTypeOK, TasksPlaced, at, Deploying
<1> QED
  BY <1>1, <1>2, <1>3, <1>4, <1>5 DEF Next

-----------------------------------------------------------------------------
(* The remaining types                                                     *)

WorkTypeOK ==
  /\ queueMode \in {"file", "sqs"}
  /\ job \in [Calls -> Job]
  /\ message \in [Calls -> MessagePlaces]
  /\ receives \in [Calls -> Nat]
  /\ worker \in [pc : WorkerSteps, job : Calls \cup {None}]
  /\ workerAt("idle") \/ worker.job \in Calls
  /\ dropped \subseteq Calls

OperatorTypeOK ==
  /\ deployJob \in [Calls -> DeployJob]
  /\ up \in BOOLEAN /\ faults \in Nat

LEMMA TypeParts == TypeOK <=> TaskTypeOK /\ ChainTypeOK /\ WorkTypeOK /\ OperatorTypeOK
  BY DEF TypeOK, TaskTypeOK, ChainTypeOK, WorkTypeOK, OperatorTypeOK

LEMMA ChainTypeKept ==
  ASSUME TaskTypeOK, ChainTypeOK, WorkTypeOK, TasksPlaced, [Next]_vars
  PROVE  ChainTypeOK' /\ disturbed \subseteq disturbed'
<1>1. ASSUME NEW c \in Calls, Serve(c)
      PROVE  ChainTypeOK' /\ disturbed \subseteq disturbed'
  <2>1. CASE TaskStep(c)
    BY <2>1, TaskStepChainType
  <2>2. CASE Create(c)
    <3>1. racing(c) \subseteq Calls
      BY DEF racing
    <3> QED
      BY <2>2, <3>1 DEF Create, ChainTypeOK
  <2>3. CASE StartTask(c) \/ FindActive(c) \/ Run(c) \/ Complete(c) \/ CatchError(c)
             \/ PostStep(c)
    BY <2>3 DEF StartTask, FindActive, Run, Complete, CatchError, PostStep, PostJob,
                Enqueue, ChainTypeOK
  <2> QED
    BY <1>1, <2>1, <2>2, <2>3 DEF Serve, DeployStep
<1>2. CASE Submit
  <2>1. CASE UNCHANGED chain
    BY <1>2, <2>1 DEF Submit, ChainTypeOK
  <2>2. CASE chain' = [chain EXCEPT !.landed = @ \cup {worker.job}]
    <3>1. worker.job \in Calls
      BY <1>2 DEF Submit, WorkTypeOK, workerAt
    <3>2. chain' \in ChainState
      BY <2>2, <3>1 DEF ChainTypeOK, ChainState
    <3> QED
      BY <1>2, <3>2 DEF Submit, ChainTypeOK
  <2> QED
    BY <1>2, <2>1, <2>2 DEF Submit, submitProof
<1>3. CASE Work /\ ~Submit
  BY <1>3 DEF Work, WorkerStep, Receive, Redrive, GetJob, Execute, CompleteJob,
              Ack, CatchJobError, AckFailed, protocolVars, ChainTypeOK
<1>4. CASE CrashChain
  BY <1>4, FreshChainType DEF CrashChain, restartAnvil, ChainTypeOK
<1>5. CASE Recover \/ CrashOperator \/ CrashWorker \/ (\E j \in Calls : Expire(j))
           \/ UNCHANGED vars
  BY <1>5 DEF Recover, CrashOperator, CrashWorker, crashWorker, Expire, VisibilityTimeout,
              vars, deployVars, protocolVars, ChainTypeOK
<1> QED
  BY <1>1, <1>2, <1>3, <1>4, <1>5 DEF Next, Work

LEMMA JobUpdated ==
  ASSUME WorkTypeOK, NEW j \in Calls, NEW status \in JOB_STATUSES,
         NEW error \in {None, "thrown"}, updateJob(j, status, error)
  PROVE  /\ job' \in [Calls -> Job]
         /\ job'[j].status = status
         /\ \A d \in Calls \ {j} : job'[d] = job[d]
<1> DEFINE new == [job[j] EXCEPT !.status = status, !.error = error]
<1>1. job[j] \in Job
  BY DEF WorkTypeOK
<1>2. new \in Job /\ new.status = status
  BY <1>1 DEF Job
<1>3. job' = [job EXCEPT ![j] = new]
  BY DEF updateJob
<1> HIDE DEF new
<1> QED
  BY <1>2, <1>3 DEF WorkTypeOK

LEMMA JobPosted ==
  ASSUME WorkTypeOK, NEW c \in Calls, NEW body \in Requests,
         job' = [job EXCEPT ![c] = [NoJob EXCEPT !.request = body, !.status = "queued"]]
  PROVE  /\ job' \in [Calls -> Job]
         /\ job'[c].status = "queued"
         /\ \A d \in Calls \ {c} : job'[d] = job[d]
<1> DEFINE new == [NoJob EXCEPT !.request = body, !.status = "queued"]
<1>1. new \in Job /\ new.status = "queued"
  BY DEF NoJob, Job, JOB_STATUSES
<1> HIDE DEF new
<1>2. job' = [job EXCEPT ![c] = new]
  BY DEF new
<1> QED
  BY <1>1, <1>2 DEF WorkTypeOK

\* the worker goes on with the job in its hand, or puts it down
LEMMA ThenMoves ==
  ASSUME WorkTypeOK, NEW pc \in WorkerSteps, then(pc)
  PROVE  /\ worker' \in [pc : WorkerSteps, job : Calls \cup {None}]
         /\ worker'.pc = pc
         /\ pc # "idle" => worker'.job = worker.job
<1>1. CASE pc = "idle"
  BY <1>1 DEF then, idleWorker, WorkerSteps
<1>2. CASE pc # "idle"
  BY <1>2 DEF then, WorkTypeOK
<1> QED
  BY <1>1, <1>2

LEMMA WorkTypeKept ==
  ASSUME WorkTypeOK, TaskTypeOK, TasksPlaced, [Next]_vars
  PROVE  WorkTypeOK'
<1>1. ASSUME NEW c \in Calls, PostJob(c)
      PROVE  WorkTypeOK'
  <2>1. job' \in [Calls -> Job]
    BY <1>1, PostJobMoves, JobPosted DEF WorkTypeOK
  <2> QED
    BY <1>1, <2>1 DEF PostJob, WorkTypeOK, workerAt
<1>2. ASSUME NEW c \in Calls, Enqueue(c)
      PROVE  WorkTypeOK'
  BY <1>2 DEF Enqueue, WorkTypeOK, workerAt, MessagePlaces
<1>3. ASSUME NEW j \in Calls, Receive(j)
      PROVE  WorkTypeOK'
  <2>1. received(j) \in MessagePlaces
    BY DEF received, MessagePlaces
  <2>2. message' \in [Calls -> MessagePlaces] /\ receives' \in [Calls -> Nat]
    BY <1>3, <2>1 DEF Receive, WorkTypeOK
  <2>3. worker' = [pc |-> "get", job |-> j]
    BY <1>3 DEF Receive
  <2>4. worker' \in [pc : WorkerSteps, job : Calls \cup {None}] /\ worker'.job \in Calls
    BY <2>3 DEF WorkerSteps
  <2> QED
    BY <1>3, <2>2, <2>4 DEF Receive, WorkTypeOK, workerAt
<1>4. ASSUME NEW j \in Calls, Redrive(j) \/ VisibilityTimeout(j)
      PROVE  WorkTypeOK'
  BY <1>4 DEF Redrive, VisibilityTimeout, WorkTypeOK, workerAt, MessagePlaces
<1>5. ASSUME ~workerAt("idle"), NEW pc \in WorkerSteps, then(pc),
             \/ UNCHANGED job
             \/ \E status \in JOB_STATUSES, error \in {None, "thrown"} :
                  updateJob(worker.job, status, error),
             UNCHANGED message \/ deleted(worker.job),
             UNCHANGED <<queueMode, receives, dropped>>
      PROVE  WorkTypeOK'
  <2>1. worker.job \in Calls
    BY <1>5 DEF WorkTypeOK
  <2>2. job' \in [Calls -> Job]
    BY <1>5, <2>1, JobUpdated DEF WorkTypeOK
  <2>3. message' \in [Calls -> MessagePlaces]
    BY <1>5, <2>1 DEF deleted, WorkTypeOK, MessagePlaces
  <2>4. /\ worker' \in [pc : WorkerSteps, job : Calls \cup {None}]
        /\ worker'.pc = "idle" \/ worker'.job \in Calls
    BY <1>5, <2>1, ThenMoves
  <2> QED
    BY <1>5, <2>2, <2>3, <2>4 DEF WorkTypeOK, workerAt
<1>6. CASE GetJob \/ Execute \/ CompleteJob \/ Ack \/ CatchJobError \/ AckFailed
  <2>1. ~workerAt("idle")
    BY <1>6 DEF GetJob, Execute, CompleteJob, Ack, CatchJobError, AckFailed, workerAt
  <2>2. PICK pc \in {"idle", "execute", "submit", "ack", "catch", "ackFailed"} : then(pc)
    BY <1>6 DEF GetJob, Execute, CompleteJob, Ack, CatchJobError, AckFailed, caught
  <2>3. pc \in WorkerSteps
    BY DEF WorkerSteps
  <2>4. \/ UNCHANGED job
        \/ \E status \in JOB_STATUSES, error \in {None, "thrown"} :
             updateJob(worker.job, status, error)
    BY <1>6 DEF GetJob, Execute, CompleteJob, Ack, CatchJobError, AckFailed, JOB_STATUSES
  <2>5. UNCHANGED message \/ deleted(worker.job)
    BY <1>6 DEF GetJob, Execute, CompleteJob, Ack, CatchJobError, AckFailed, ackFails
  <2>6. UNCHANGED <<queueMode, receives, dropped>>
    BY <1>6 DEF GetJob, Execute, CompleteJob, Ack, CatchJobError, AckFailed
  <2> QED
    BY <1>5, <2>1, <2>2, <2>3, <2>4, <2>5, <2>6
<1>7. CASE Submit
  <2>1. ~workerAt("idle") /\ UNCHANGED <<queueMode, job, message, receives, dropped>>
    BY <1>7 DEF Submit, workerAt
  <2>2. PICK pc \in {"complete", "catch"} : then(pc)
    BY <1>7 DEF Submit, submitProof, caught
  <2>3. pc \in WorkerSteps
    BY DEF WorkerSteps
  <2> QED
    BY <1>5, <2>1, <2>2, <2>3
<1>8. CASE CrashWorker
  <2>1. ~workerAt("idle") /\ worker' = idleWorker
    BY <1>8 DEF CrashWorker, crashWorker
  <2>2. worker' \in [pc : WorkerSteps, job : Calls \cup {None}] /\ worker'.pc = "idle"
    BY <2>1 DEF idleWorker, WorkerSteps
  <2>3. worker.job \in Calls
    BY <2>1 DEF WorkTypeOK
  <2> QED
    BY <1>8, <2>2, <2>3 DEF CrashWorker, crashWorker, WorkTypeOK, workerAt
<1>9. CASE UNCHANGED jobVars
  BY <1>9 DEF jobVars, WorkTypeOK, workerAt
<1> QED
  BY <1>1, <1>2, <1>3, <1>4, <1>6, <1>7, <1>8, <1>9
     DEF Next, vars, Serve, DeployStep, PostStep, Recover, Work, WorkerStep, Expire,
         CrashOperator, CrashChain

LEMMA OperatorTypeKept ==
  ASSUME OperatorTypeOK, ChainTypeOK, TaskTypeOK, TasksPlaced, [Next]_vars
  PROVE  OperatorTypeOK'
<1>1. up' \in BOOLEAN /\ faults' \in Nat
  <2>1. faults \in Nat /\ up \in BOOLEAN
    BY DEF OperatorTypeOK
  <2>2. CASE (\E c \in Calls : Serve(c)) \/ Work \/ (\E j \in Calls : Expire(j))
             \/ UNCHANGED vars
    BY <2>1, <2>2 DEF Serve, Work, Expire, vars
  <2>3. CASE Recover
    BY <2>1, <2>3 DEF Recover
  <2>4. CASE CrashOperator \/ CrashWorker \/ CrashChain
    <3>1. faults' = faults + 1
      BY <2>4 DEF CrashOperator, CrashWorker, CrashChain, fault
    <3>2. faults' \in Nat
      BY <2>1, <3>1
    <3>3. up' = FALSE \/ up' = up
      BY <2>4, Zenon DEF CrashOperator, CrashWorker, CrashChain
    <3> QED
      BY <2>1, <3>2, <3>3
  <2> QED
    BY <2>2, <2>3, <2>4 DEF Next
<1>2. ASSUME NEW c \in Calls, DeployStep(c)
      PROVE  deployJob' \in [Calls -> DeployJob]
  <2>1. deployJob[c] \in DeployJob
    BY DEF OperatorTypeOK
  <2>2. CASE FindActive(c)
    BY <2>2 DEF FindActive, OperatorTypeOK
  <2>3. CASE Create(c)
    <3> DEFINE new == [NoDeployJob EXCEPT !.operation = task[c].op, !.status = "queued"]
    <3>1. task[c].op \in {"deploy", "reset"}
      BY <2>3, DeployMoves DEF Deploying
    <3>2. new \in DeployJob
      BY <3>1 DEF NoDeployJob, DeployJob, ACTIVE_STATUSES
    <3> HIDE DEF new
    <3>3. deployJob' = [deployJob EXCEPT ![c] = new]
      BY <2>3 DEF Create, update, new
    <3> QED
      BY <3>2, <3>3 DEF OperatorTypeOK
  <2>4. ASSUME NEW j \in DeployJob, update(c, j)
        PROVE  deployJob' \in [Calls -> DeployJob]
    BY <2>4 DEF update, OperatorTypeOK
  <2>5. CASE Run(c)
    <3>1. [deployJob[c] EXCEPT !.status = "running", !.error = None] \in DeployJob
      BY <2>1 DEF DeployJob, ACTIVE_STATUSES
    <3> QED
      BY <2>4, <2>5, <3>1 DEF Run
  <2>6. CASE Complete(c)
    <3>1. [deployJob[c] EXCEPT !.status = "completed", !.deploymentStatus = "completed"]
            \in DeployJob
      BY <2>1 DEF DeployJob, Terminal
    <3> QED
      BY <2>4, <2>6, <3>1 DEF Complete
  <2>7. CASE CatchError(c)
    <3> DEFINE failed == [deployJob[c] EXCEPT !.status = "failed", !.error = "thrown"]
    <3>1. failed \in DeployJob
      BY <2>1 DEF DeployJob, Terminal
    <3>2. manifest.status \in {None, "completed", "failed"}
      BY DEF ChainTypeOK, Manifest
    <3> HIDE DEF failed
    <3>3. manifestPatch(failed) \in DeployJob
      BY <3>1, <3>2 DEF manifestPatch, DeployJob
    <3> QED
      BY <2>4, <2>7, <3>3 DEF CatchError, failed
  <2> QED
    BY <1>2, <2>2, <2>3, <2>5, <2>6, <2>7 DEF DeployStep
<1>3. CASE Recover
  <2>1. \A c \in Calls : [deployJob[c] EXCEPT !.status = "failed", !.error = "restarted"]
                            \in DeployJob
    BY DEF OperatorTypeOK, DeployJob, Terminal
  <2>2. deployJob' \in [Calls -> DeployJob]
    BY <1>3, <2>1 DEF Recover, recover, OperatorTypeOK
  <2> QED
    BY <1>1, <2>2 DEF OperatorTypeOK
<1>4. CASE UNCHANGED deployJob
  BY <1>1, <1>4 DEF OperatorTypeOK
<1> QED
  BY <1>1, <1>2, <1>3, <1>4, WorkFrame
     DEF Next, vars, deployVars, Serve, CrashOperator, OperatorTypeOK

-----------------------------------------------------------------------------
(* Proof jobs                                                              *)

\* steps that leave the jobs, the queue and the worker alone
LEMMA JobsUntouched ==
  ASSUME JobsInv, UNCHANGED jobVars,
         \A d \in Calls : at(d, "done")' \/ (at(d, "enqueue")' <=> at(d, "enqueue")),
         \A d \in Calls : at(d, "done") => at(d, "done")',
         \A d \in Calls : at(d, "idle")' => at(d, "idle"),
         \A d \in accepted' \ accepted :
           job[d].status = None /\ ~at(d, "idle")' /\ ~at(d, "enqueue")'
  PROVE  JobsInv'
<1>1. \A j \in Calls : inHand(j)' <=> inHand(j)
  BY DEF jobVars, inHand, workerAt
<1>2. JobsOfCalls'
  BY <1>1 DEF JobsInv, JobsOfCalls, jobVars
<1>3. FileQueue' /\ WorkerHolds'
  BY <1>1 DEF JobsInv, FileQueue, WorkerHolds, jobVars, workerAt
<1>4. NoJobForgotten'
  BY <1>1 DEF JobsInv, NoJobForgotten, sent, jobVars
<1> QED
  BY <1>2, <1>3, <1>4 DEF JobsInv

LEMMA PostJobKeeps ==
  ASSUME JobsInv, WorkTypeOK, TaskTypeOK, TasksPlaced, NEW c \in Calls, PostJob(c)
  PROVE  JobsInv'
<1>1. /\ at(c, "idle") /\ UNCHANGED <<queueMode, message, receives, worker, dropped, accepted>>
      /\ \A d \in Calls \ {c} : task'[d] = task[d]
  BY PostJobMoves DEF PostJob, TaskTypeOK
<1>2. \A j \in Calls : inHand(j)' <=> inHand(j)
  BY <1>1 DEF inHand, workerAt
<1>3. job[c].status = None /\ message[c] = "none" /\ ~inHand(c)
  BY <1>1 DEF JobsInv, JobsOfCalls, at
<1>4. /\ \A d \in Calls \ {c} : job'[d] = job[d]
      /\ \/ task'[c] = doneTask /\ job'[c] = job[c]
         \/ task'[c].pc = "enqueue" /\ job'[c].status = "queued"
  BY PostJobMoves, JobPosted
<1>5. JobsOfCalls'
  <2> SUFFICES ASSUME NEW d \in Calls, ~at(d, "done")'
               PROVE  /\ job'[d].status = IF at(d, "enqueue")' THEN "queued" ELSE None
                      /\ message'[d] = "none"
                      /\ ~inHand(d)'
                      /\ at(d, "idle")' \/ at(d, "enqueue")' => d \notin accepted'
    BY DEF JobsOfCalls
  <2>1. CASE d = c
    <3>1. c \notin accepted
      BY <1>1 DEF JobsInv, JobsOfCalls, at
    <3> QED
      BY <1>1, <1>2, <1>3, <1>4, <2>1, <3>1, DonePlaced DEF at
  <2>2. CASE d # c
    BY <1>1, <1>2, <1>4, <2>2 DEF JobsInv, JobsOfCalls, at
  <2> QED
    BY <2>1, <2>2
<1>6. FileQueue' /\ WorkerHolds'
  BY <1>1, <1>2, <1>3, <1>4 DEF JobsInv, FileQueue, WorkerHolds, workerAt, TerminalJob
<1>7. NoJobForgotten'
  <2>1. c \notin accepted
    BY <1>1 DEF JobsInv, JobsOfCalls, at
  <2> QED
    BY <1>1, <1>2, <1>4, <2>1 DEF JobsInv, NoJobForgotten, sent
<1> QED
  BY <1>5, <1>6, <1>7 DEF JobsInv

LEMMA EnqueueKeeps ==
  ASSUME JobsInv, WorkTypeOK, TaskTypeOK, TasksPlaced, NEW c \in Calls, Enqueue(c)
  PROVE  JobsInv'
<1>1. /\ at(c, "enqueue") /\ UNCHANGED <<queueMode, job, receives, worker, dropped>>
      /\ \A d \in Calls \ {c} : task'[d] = task[d]
      /\ at(c, "done")'
  BY EndMoves, DonePlaced DEF Enqueue, TaskTypeOK, Ends, at
<1>2. \A j \in Calls : inHand(j)' <=> inHand(j)
  BY <1>1 DEF inHand, workerAt
<1>3. job[c].status = "queued" /\ message[c] = "none" /\ ~inHand(c)
  BY <1>1 DEF JobsInv, JobsOfCalls, at
<1>4. /\ \A d \in Calls \ {c} : message'[d] = message[d]
      /\ \/ message'[c] = "visible" /\ accepted' = accepted \cup {c}
         \/ message'[c] = "none" /\ accepted' = accepted
         \/ message'[c] = "visible" /\ accepted' = accepted
  BY <1>3 DEF Enqueue, WorkTypeOK
<1>5. JobsOfCalls'
  BY <1>1, <1>2, <1>4 DEF JobsInv, JobsOfCalls, at
<1>6. FileQueue'
  BY <1>1, <1>3, <1>4 DEF JobsInv, FileQueue, TerminalJob
<1>7. WorkerHolds'
  BY <1>1, <1>2, <1>3, <1>4 DEF JobsInv, WorkerHolds, workerAt
<1>8. c \notin accepted
  BY <1>1 DEF JobsInv, JobsOfCalls, at
<1>9. NoJobForgotten'
  BY <1>1, <1>2, <1>4, <1>8 DEF JobsInv, NoJobForgotten, sent
<1> QED
  BY <1>5, <1>6, <1>7, <1>9 DEF JobsInv

\* steps of the queue and the worker leave tasks and answers alone
LEMMA JobsOfCallsKept ==
  ASSUME JobsInv, WorkTypeOK, UNCHANGED <<task, accepted>>,
         NEW j \in Calls, at(j, "done"),
         \A d \in Calls \ {j} : job'[d] = job[d] /\ message'[d] = message[d],
         \A d \in Calls \ {j} : inHand(d)' => inHand(d)
  PROVE  JobsOfCalls'
  BY DEF JobsInv, JobsOfCalls, at

LEMMA ReceiveKeeps ==
  ASSUME JobsInv, WorkTypeOK, NEW j \in Calls, Receive(j)
  PROVE  JobsInv'
<1>1. /\ workerAt("idle") /\ message[j] = "visible"
      /\ UNCHANGED <<task, accepted, queueMode, job, dropped>>
      /\ worker'.pc = "get" /\ worker'.job = j
      /\ message'[j] = received(j)
      /\ \A d \in Calls \ {j} : message'[d] = message[d]
      /\ queueMode = "file" => UNCHANGED receives
  <2>1. message' = [message EXCEPT ![j] = received(j)] /\ DOMAIN message = Calls
    BY DEF Receive, WorkTypeOK
  <2>2. worker' = [pc |-> "get", job |-> j]
    BY DEF Receive
  <2>3. queueMode = "file" => UNCHANGED receives
    BY DEF Receive
  <2> HIDE DEF received
  <2> QED
    BY <2>1, <2>2, <2>3 DEF Receive, protocolVars, workerAt
<1>2. \A d \in Calls : ~inHand(d) /\ (inHand(d)' <=> d = j)
  BY <1>1 DEF inHand, workerAt
<1>3. at(j, "done")
  BY <1>1 DEF JobsInv, JobsOfCalls
<1>4. JobsOfCalls'
  BY <1>1, <1>2, <1>3, JobsOfCallsKept
<1>5. queueMode = "file" => job[j].status \notin TerminalJob
  BY <1>1 DEF JobsInv, FileQueue
<1>6. received(j) = IF queueMode = "file" THEN "none" ELSE "inflight"
  BY DEF received
<1>7. FileQueue'
  BY <1>1, <1>6 DEF JobsInv, FileQueue
<1>8. WorkerHolds'
  BY <1>1, <1>2, <1>5, <1>6 DEF WorkerHolds, workerAt
<1>9. NoJobForgotten'
  BY <1>1, <1>2 DEF JobsInv, NoJobForgotten, sent
<1> QED
  BY <1>4, <1>7, <1>8, <1>9 DEF JobsInv

LEMMA MessageMoves ==
  ASSUME JobsInv, WorkTypeOK, NEW j \in Calls, Redrive(j) \/ VisibilityTimeout(j),
         UNCHANGED <<task, accepted>>
  PROVE  JobsInv'
<1>1. /\ message[j] # "none" /\ message'[j] \in {"dead", "visible"}
      /\ UNCHANGED <<queueMode, job, dropped, worker>>
      /\ \A d \in Calls \ {j} : message'[d] = message[d]
  BY DEF Redrive, VisibilityTimeout, WorkTypeOK
<1>2. \A d \in Calls : inHand(d)' <=> inHand(d)
  BY <1>1 DEF inHand, workerAt
<1>3. at(j, "done")
  BY <1>1 DEF JobsInv, JobsOfCalls
<1>4. JobsOfCalls'
  BY <1>1, <1>2, <1>3, JobsOfCallsKept
<1>5. queueMode # "file" /\ UNCHANGED queueMode
  BY <1>1, JobsAssumption DEF JobsInv, FileQueue, VisibilityTimeout, Redrive
<1>6. FileQueue'
  BY <1>5 DEF FileQueue
<1>7. WorkerHolds'
  BY <1>1, <1>2, <1>5 DEF JobsInv, WorkerHolds, workerAt
<1>8. NoJobForgotten'
  BY <1>1, <1>2 DEF JobsInv, NoJobForgotten, sent
<1> QED
  BY <1>4, <1>6, <1>7, <1>8 DEF JobsInv

\* the worker goes on with its job
LEMMA WorkerGoesOn ==
  ASSUME JobsInv, WorkTypeOK, ~workerAt("idle"),
         NEW pc \in WorkerSteps \ {"idle"}, then(pc),
         UNCHANGED <<queueMode, receives, dropped, task, accepted>>,
         UNCHANGED message \/ deleted(worker.job),
         \/ UNCHANGED job
         \/ \E status \in JOB_STATUSES, error \in {None, "thrown"} :
              updateJob(worker.job, status, error),
         pc = "ack" => job'[worker.job].status = "completed",
         pc = "ackFailed" => job'[worker.job].status \in TerminalJob,
         queueMode = "sqs" /\ message'[worker.job] = "none" =>
           pc = "ackFailed" \/ (pc = "catch" /\ job'[worker.job].status = "completed"),
         queueMode = "file" /\ job'[worker.job].status \in TerminalJob =>
           pc \in {"ack", "ackFailed"}
  PROVE  JobsInv'
<1> DEFINE j == worker.job
<1>1. j \in Calls /\ worker'.pc = pc /\ worker'.job = j
  BY ThenMoves DEF WorkTypeOK
<1>2. \A d \in Calls : /\ inHand(d) <=> d = j
                       /\ inHand(d)' <=> d = j
  BY <1>1 DEF inHand, workerAt
<1>3. \A d \in Calls \ {j} : job'[d] = job[d]
  BY <1>1, JobUpdated
<1>4. at(j, "done")
  BY <1>1, <1>2 DEF JobsInv, JobsOfCalls
<1>0. /\ \A d \in Calls \ {j} : message'[d] = message[d]
      /\ queueMode = "file" => message' = message
  BY <1>1 DEF deleted, WorkTypeOK
<1>5. JobsOfCalls'
  BY <1>0, <1>1, <1>2, <1>3, <1>4, JobsOfCallsKept
<1>6. queueMode = "file" => message[j] = "none"
  BY <1>1, <1>2 DEF JobsInv, WorkerHolds
<1>7. FileQueue'
  BY <1>0, <1>1, <1>3, <1>6 DEF JobsInv, FileQueue
<1>8. WorkerHolds'
  BY <1>0, <1>1, <1>2, <1>6 DEF WorkerHolds, workerAt
<1>9. NoJobForgotten'
  <2> SUFFICES ASSUME NEW d \in Calls, sent(d)', job'[d].status \notin TerminalJob
               PROVE  (message[d] # "none" \/ inHand(d) \/ d \in dropped)'
    BY DEF NoJobForgotten
  <2>1. CASE d = j
    BY <1>2, <2>1
  <2>2. CASE d # j
    BY <1>0, <1>2, <1>3, <2>2 DEF JobsInv, NoJobForgotten, sent
  <2> QED
    BY <2>1, <2>2
<1> QED
  BY <1>5, <1>7, <1>8, <1>9 DEF JobsInv

\* the worker is done with a job that has a verdict
LEMMA WorkerPutsDown ==
  ASSUME JobsInv, WorkTypeOK, ~workerAt("idle"), worker'.pc = "idle",
         UNCHANGED <<queueMode, receives, job, dropped, task, accepted>>,
         UNCHANGED message \/ deleted(worker.job),
         job[worker.job].status \in TerminalJob \cup {None}
  PROVE  JobsInv'
<1> DEFINE j == worker.job
<1>1. j \in Calls
  BY DEF WorkTypeOK
<1>2. \A d \in Calls : /\ inHand(d) <=> d = j
                       /\ ~inHand(d)'
  BY <1>1 DEF inHand, workerAt
<1>3. at(j, "done")
  BY <1>1, <1>2 DEF JobsInv, JobsOfCalls
<1>4. /\ \A d \in Calls \ {j} : message'[d] = message[d]
      /\ queueMode = "file" => message'[j] = message[j]
  BY <1>1 DEF deleted, WorkTypeOK
<1>5. JobsOfCalls'
  BY <1>1, <1>2, <1>3, <1>4, JobsOfCallsKept
<1>6. FileQueue'
  BY <1>1, <1>4 DEF JobsInv, FileQueue
<1>7. WorkerHolds'
  BY <1>2 DEF WorkerHolds
<1>8. NoJobForgotten'
  <2> SUFFICES ASSUME NEW d \in Calls, sent(d)', job'[d].status \notin TerminalJob
               PROVE  (message[d] # "none" \/ inHand(d) \/ d \in dropped)'
    BY DEF NoJobForgotten
  <2>1. d # j
    BY DEF sent
  <2> QED
    BY <1>2, <1>4, <2>1 DEF JobsInv, NoJobForgotten, sent
<1> QED
  BY <1>5, <1>6, <1>7, <1>8 DEF JobsInv

LEMMA WorkKeeps ==
  ASSUME JobsInv, WorkTypeOK, WorkerStep, UNCHANGED <<task, accepted>>
  PROVE  JobsInv'
<1> DEFINE j == worker.job
<1>1. CASE \E i \in Calls : Receive(i) \/ Redrive(i)
  BY <1>1, ReceiveKeeps, MessageMoves
<1>2. ASSUME ~workerAt("idle")
      PROVE  /\ j \in Calls /\ inHand(j)
             /\ workerAt("ack") => job[j].status = "completed"
             /\ workerAt("ackFailed") => job[j].status \in TerminalJob
             /\ queueMode = "sqs" /\ message[j] = "none" =>
                  workerAt("catch") \/ workerAt("ackFailed")
             /\ queueMode = "file" /\ job[j].status \in TerminalJob =>
                  workerAt("ack") \/ workerAt("ackFailed")
  BY <1>2 DEF WorkTypeOK, inHand, JobsInv, WorkerHolds
<1>3. CASE GetJob
  <2>1. ~workerAt("idle") /\ ~workerAt("ack") /\ ~workerAt("ackFailed") /\ ~workerAt("catch")
    BY <1>3 DEF GetJob, workerAt
  <2>2. CASE job[j].status = None
    <3>1. then("idle") /\ UNCHANGED job /\ deleted(j) /\ "idle" \in WorkerSteps
      BY <1>3, <2>2 DEF GetJob, WorkerSteps
    <3> QED
      BY <1>3, <2>1, <2>2, <3>1, ThenMoves, WorkerPutsDown DEF GetJob
  <2>3. CASE job[j].status # None
    <3>1. then("execute") /\ updateJob(j, "running", None) /\ UNCHANGED message
          /\ "execute" \in WorkerSteps \ {"idle"} /\ "running" \in JOB_STATUSES
      BY <1>3, <2>3 DEF GetJob, WorkerSteps, JOB_STATUSES
    <3>2. job'[j].status = "running"
      BY <1>2, <2>1, <3>1, JobUpdated
    <3> QED
      BY <1>2, <1>3, <2>1, <3>1, <3>2, WorkerGoesOn DEF GetJob, TerminalJob
  <2> QED
    BY <2>2, <2>3
<1>4. CASE Execute \/ Submit
  <2>1. ~workerAt("idle") /\ ~workerAt("ack") /\ ~workerAt("ackFailed") /\ ~workerAt("catch")
        /\ UNCHANGED <<queueMode, job, message, receives, dropped>>
    BY <1>4 DEF Execute, Submit, workerAt
  <2>2. PICK pc \in {"submit", "complete", "catch"} : then(pc)
    BY <1>4 DEF Execute, Submit, submitProof, caught
  <2>3. pc \in WorkerSteps \ {"idle"} /\ pc \notin {"ack", "ackFailed"}
    BY DEF WorkerSteps
  <2> QED
    BY <1>2, <2>1, <2>2, <2>3, WorkerGoesOn
<1>5. CASE CompleteJob \/ CatchJobError
  <2>1. ~workerAt("idle") /\ UNCHANGED <<queueMode, message, receives, dropped>>
    BY <1>5 DEF CompleteJob, CatchJobError, workerAt
  <2>2. PICK pc \in {"ack", "ackFailed"}, status \in TerminalJob, error \in {None, "thrown"} :
          /\ then(pc) /\ updateJob(j, status, error)
          /\ pc = "ack" => status = "completed" /\ workerAt("complete")
    BY <1>5 DEF CompleteJob, CatchJobError, TerminalJob
  <2>3. pc \in WorkerSteps \ {"idle"} /\ status \in JOB_STATUSES
    BY DEF WorkerSteps, TerminalJob, JOB_STATUSES
  <2>4. job'[j].status = status
    BY <1>2, <2>1, <2>2, <2>3, JobUpdated
  <2>5. queueMode = "sqs" /\ message'[j] = "none" => pc = "ackFailed"
    BY <1>2, <2>1, <2>2 DEF workerAt
  <2> QED
    BY <2>1, <2>2, <2>3, <2>4, <2>5, WorkerGoesOn
<1>6. CASE Ack
  <2>1. ~workerAt("idle") /\ workerAt("ack") /\ UNCHANGED <<queueMode, job, receives, dropped>>
    BY <1>6 DEF Ack, workerAt
  <2>2. CASE deleted(j) /\ then("idle")
    <3>1. "idle" \in WorkerSteps
      BY DEF WorkerSteps
    <3> QED
      BY <1>2, <2>1, <2>2, <3>1, ThenMoves, WorkerPutsDown DEF TerminalJob
  <2>3. CASE ackFails(j) /\ then(caught)
    <3>1. queueMode = "sqs" /\ (UNCHANGED message \/ deleted(j)) /\ then("catch")
          /\ "catch" \in WorkerSteps \ {"idle"}
      BY <2>3 DEF ackFails, caught, WorkerSteps
    <3> QED
      BY <1>2, <2>1, <3>1, WorkerGoesOn
  <2> QED
    BY <1>6, <2>2, <2>3 DEF Ack
<1>7. CASE AckFailed
  <2>1. ~workerAt("idle") /\ workerAt("ackFailed") /\ then("idle")
        /\ UNCHANGED <<queueMode, job, receives, dropped>>
        /\ (UNCHANGED message \/ deleted(j)) /\ "idle" \in WorkerSteps
    BY <1>7 DEF AckFailed, workerAt, ackFails, WorkerSteps
  <2> QED
    BY <1>2, <2>1, ThenMoves, WorkerPutsDown DEF workerAt
<1> QED
  BY <1>1, <1>3, <1>4, <1>5, <1>6, <1>7 DEF WorkerStep

LEMMA CrashWorkerKeeps ==
  ASSUME JobsInv, WorkTypeOK, CrashWorker
  PROVE  JobsInv'
<1> DEFINE j == worker.job
<1>1. /\ ~workerAt("idle") /\ UNCHANGED <<queueMode, job, message, receives, task, accepted>>
      /\ dropped' = IF queueMode = "file" THEN dropped \cup {j} ELSE dropped
      /\ worker' = idleWorker
  BY DEF CrashWorker, crashWorker, protocolVars
<1>2. j \in Calls
  BY <1>1 DEF WorkTypeOK
<1>3. \A d \in Calls : /\ inHand(d) <=> d = j
                       /\ ~inHand(d)'
  BY <1>1, <1>2 DEF inHand, workerAt, idleWorker
<1>4. JobsOfCalls' /\ FileQueue' /\ WorkerHolds'
  BY <1>1, <1>3 DEF JobsInv, JobsOfCalls, FileQueue, WorkerHolds, at
<1>5. queueMode = "file" \/ message[j] # "none" \/ job[j].status \in TerminalJob
  BY <1>2, <1>3 DEF JobsInv, WorkerHolds, WorkTypeOK, TerminalJob, workerAt
<1>6. NoJobForgotten'
  BY <1>1, <1>3, <1>5 DEF JobsInv, NoJobForgotten, sent
<1> QED
  BY <1>4, <1>6 DEF JobsInv

LEMMA JobsKept ==
  ASSUME TypeOK, TasksPlaced, JobsInv, [Next]_vars
  PROVE  JobsInv'
<1>1. TaskTypeOK /\ ChainTypeOK /\ WorkTypeOK
  BY TypeParts
<1>2. ASSUME NEW c \in Calls, Serve(c)
      PROVE  JobsInv'
  <2>1. task' = [task EXCEPT ![c] = task'[c]]
    BY <1>1, <1>2, ServeMoves
  <2>2. \A d \in Calls \ {c} : task'[d] = task[d]
    BY <1>1, <2>1 DEF TaskTypeOK
  <2>3. ASSUME UNCHANGED jobVars, ~at(c, "done"), ~at(c, "enqueue"),
               ~at(c, "idle")', ~at(c, "enqueue")',
               accepted' \subseteq accepted \cup {c},
               accepted' = accepted \/ ~at(c, "idle")
        PROVE  JobsInv'
    <3>1. job[c].status = None
      BY <2>3 DEF JobsInv, JobsOfCalls
    <3> QED
      BY <2>2, <2>3, <3>1, JobsUntouched DEF at
  <2>4. CASE StartTask(c) /\ UNCHANGED jobVars
    BY <1>1, <2>3, <2>4, StartMoves DEF StartTask, TaskSteps, at
  <2>5. CASE TaskStep(c) /\ UNCHANGED jobVars
    <3>1. TaskMoved(c) /\ accepted' = accepted
      BY <1>1, <2>5, TaskStepMoves, TaskStepChainType
    <3> QED
      BY <2>3, <2>5, <3>1, DonePlaced DEF TaskMoved, TaskSteps, at
  <2>6. CASE FindActive(c) /\ UNCHANGED jobVars
    BY <1>1, <2>3, <2>6, FindActiveMoves, DonePlaced DEF FindActive, at
  <2>7. CASE (Create(c) \/ Run(c)) /\ UNCHANGED jobVars
    <3>1. task'[c].pc \in {"run", "fund", "reset"} /\ task[c].pc \in {"create", "run"}
          /\ accepted' \subseteq accepted \cup {c}
      BY <1>1, <2>7, DeployMoves DEF Create, Run, at
    <3> QED
      BY <2>3, <2>7, <3>1 DEF at
  <2>8. CASE (Complete(c) \/ CatchError(c)) /\ UNCHANGED jobVars
    <3>1. task'[c].pc = "done" /\ task[c].pc \in {"approve", "threw"} /\ accepted' = accepted
      BY <1>1, <2>8, EndMoves, DonePlaced DEF Ends, Complete, CatchError, Seeded, at
    <3> QED
      BY <2>3, <2>8, <3>1 DEF at
  <2>9. CASE PostJob(c)
    BY <1>1, <2>9, PostJobKeeps
  <2>10. CASE Enqueue(c)
    BY <1>1, <2>10, EnqueueKeeps
  <2> QED
    BY <1>2, <2>4, <2>5, <2>6, <2>7, <2>8, <2>9, <2>10 DEF Serve, DeployStep, PostStep
<1>3. CASE Work
  BY <1>1, <1>3, WorkKeeps, WorkFrame DEF Work
<1>4. ASSUME NEW j \in Calls, Expire(j)
      PROVE  JobsInv'
  BY <1>1, <1>4, MessageMoves, WorkFrame DEF Expire
<1>5. CASE CrashWorker
  BY <1>1, <1>5, CrashWorkerKeeps
<1>6. CASE CrashOperator
  <2>1. \A d \in Calls : \/ at(d, "idle")' /\ at(d, "idle")
                         \/ at(d, "done")' /\ ~at(d, "idle")
    BY <1>1, <1>6, CrashMoves, DonePlaced DEF at
  <2>2. \A d \in Calls : ~at(d, "idle") \/ ~at(d, "enqueue")
    BY DEF at
  <2>3. UNCHANGED jobVars /\ UNCHANGED accepted
    BY <1>6 DEF CrashOperator
  <2>4. \A d \in Calls : (at(d, "enqueue")' => ~at(d, "idle")' /\ ~at(d, "done")')
                         /\ (at(d, "done")' => ~at(d, "idle")')
    BY DEF at
  <2> QED
    BY <2>1, <2>2, <2>3, <2>4, JobsUntouched DEF at
<1>7. CASE Recover \/ CrashChain \/ UNCHANGED vars
  <2>1. UNCHANGED <<jobVars, task, accepted>>
    BY <1>7 DEF Recover, CrashChain, restartAnvil, vars, deployVars, protocolVars
  <2> QED
    BY <2>1, JobsUntouched DEF at
<1> QED
  BY <1>2, <1>3, <1>4, <1>5, <1>6, <1>7 DEF Next

-----------------------------------------------------------------------------
(* Deployment jobs exclude one another                                     *)

LEMMA NotActive == NoDeployJob.status \notin ACTIVE_STATUSES
  BY JobsAssumption DEF NoDeployJob, ACTIVE_STATUSES, JOB_STATUSES

LEMMA ExclusionUntouched ==
  ASSUME Exclusion, UNCHANGED deployJob, disturbed \subseteq disturbed',
         \A d \in Calls :
           /\ at(d, "idle")' => at(d, "idle")
           /\ at(d, "create")' => at(d, "create")
           /\ (Deploying(d) /\ ~at(d, "create"))' => Deploying(d) /\ ~at(d, "create")
  PROVE  Exclusion'
  BY DEF Exclusion, OneDeploymentAtATime, active

\* a job's status changes, and its task moves on
LEMMA ExclusionUpdated ==
  ASSUME Exclusion, OperatorTypeOK, NEW c \in Calls, NEW new, update(c, new),
         disturbed' = disturbed,
         ~at(c, "idle")', ~at(c, "create")',
         \A d \in Calls \ {c} : task'[d] = task[d],
         new.status \in ACTIVE_STATUSES => active(c),
         Deploying(c)' => new.status \in ACTIVE_STATUSES
  PROVE  Exclusion'
<1>1. /\ deployJob'[c] = new
      /\ \A d \in Calls \ {c} : deployJob'[d] = deployJob[d]
  BY DEF update, OperatorTypeOK
<1>2. \A d \in Calls : active(d)' => active(d)
  BY <1>1 DEF active
<1>3. ASSUME NEW d \in Calls
      PROVE  /\ (at(d, "idle") \/ at(d, "create"))' => deployJob'[d] = NoDeployJob
             /\ (Deploying(d) /\ ~at(d, "create"))' => active(d)'
  <2>1. CASE d = c
    BY <1>1, <2>1 DEF active
  <2>2. CASE d # c
    BY <1>1, <2>2 DEF Exclusion, active, at, Deploying
  <2> QED
    BY <2>1, <2>2
<1>4. ASSUME NEW d \in Calls, NEW e \in Calls, at(d, "create")', active(e)'
      PROVE  d \in disturbed /\ e \in disturbed
  <2>1. d # c
    BY <1>4
  <2>2. at(d, "create")
    BY <1>4, <2>1 DEF at
  <2> QED
    BY <1>2, <1>4, <2>2 DEF Exclusion
<1>5. OneDeploymentAtATime'
  BY <1>2 DEF Exclusion, OneDeploymentAtATime
<1> QED
  BY <1>3, <1>4, <1>5 DEF Exclusion

LEMMA CreateExcludes ==
  ASSUME Exclusion, OperatorTypeOK, TaskTypeOK, TasksPlaced, NEW c \in Calls, Create(c)
  PROVE  Exclusion'
<1>1. /\ at(c, "create") /\ Deploying(c)
      /\ task'[c].pc = "run"
      /\ \A d \in Calls \ {c} : task'[d] = task[d]
      /\ disturbed \subseteq disturbed'
      /\ racing(c) # {} => racing(c) \cup {c} \subseteq disturbed'
  BY DeployMoves DEF Create, TaskTypeOK
<1>2. \A d \in Calls \ {c} : deployJob'[d] = deployJob[d]
  BY DEF Create, update, OperatorTypeOK
<1>3. deployJob'[c].status = "queued"
  <2> DEFINE new == [NoDeployJob EXCEPT !.operation = task[c].op, !.status = "queued"]
  <2>1. new.status = "queued"
    BY DEF NoDeployJob
  <2>2. deployJob' = [deployJob EXCEPT ![c] = new]
    BY DEF Create, update
  <2> HIDE DEF new
  <2> QED
    BY <2>1, <2>2 DEF OperatorTypeOK
<1>4. \A d \in Calls : active(d)' <=> active(d) \/ d = c
  BY <1>2, <1>3 DEF active, ACTIVE_STATUSES
<1>5. \A d \in Calls : active(d) => c \in disturbed /\ d \in disturbed
  BY <1>1 DEF Exclusion
<1>6. \A d \in Calls \ {c} : at(d, "create") => d \in racing(c)
  BY DEF racing, TasksPlaced, DeploySteps, at
<1>7. ASSUME NEW d \in Calls
      PROVE  /\ (at(d, "idle") \/ at(d, "create"))' => deployJob'[d] = NoDeployJob
             /\ (Deploying(d) /\ ~at(d, "create"))' => active(d)'
  <2>1. CASE d = c
    BY <1>1, <1>4, <2>1 DEF at
  <2>2. CASE d # c
    BY <1>1, <1>2, <1>4, <2>2 DEF Exclusion, at, Deploying
  <2> QED
    BY <2>1, <2>2
<1>8. ASSUME NEW d \in Calls, NEW e \in Calls, at(d, "create")', active(e)'
      PROVE  d \in disturbed' /\ e \in disturbed'
  <2>1. d # c /\ at(d, "create")
    BY <1>1, <1>8 DEF at
  <2>2. CASE e = c
    BY <1>1, <1>6, <2>1, <2>2
  <2>3. CASE e # c
    BY <1>1, <1>4, <1>8, <2>1, <2>3 DEF Exclusion
  <2> QED
    BY <2>2, <2>3
<1>9. OneDeploymentAtATime'
  BY <1>1, <1>4, <1>5 DEF Exclusion, OneDeploymentAtATime
<1> QED
  BY <1>7, <1>8, <1>9 DEF Exclusion

LEMMA FindActiveExcludes ==
  ASSUME Exclusion, TaskTypeOK, TasksPlaced, NEW c \in Calls, FindActive(c)
  PROVE  Exclusion'
<1>1. /\ at(c, "idle") /\ UNCHANGED <<deployJob, disturbed>>
      /\ \A d \in Calls \ {c} : task'[d] = task[d]
      /\ \/ task'[c] = doneTask
         \/ findActive = {} /\ at(c, "create")'
  BY FindActiveMoves DEF FindActive, TaskTypeOK, at
<1>2. CASE task'[c] = doneTask
  <2>1. ~Deploying(c)' /\ ~at(c, "idle")' /\ ~at(c, "create")'
    BY <1>2, DonePlaced, ProtocolAssumption DEF Deploying, at
  <2> QED
    BY <1>1, <2>1, ExclusionUntouched DEF at, Deploying
<1>3. CASE findActive = {} /\ at(c, "create")'
  <2>1. \A d \in Calls : ~active(d) /\ ~active(d)'
    BY <1>1, <1>3 DEF findActive, active
  <2>2. ASSUME NEW d \in Calls
        PROVE  /\ (at(d, "idle") \/ at(d, "create"))' => deployJob'[d] = NoDeployJob
               /\ (Deploying(d) /\ ~at(d, "create"))' => active(d)'
    <3>1. CASE d = c
      BY <1>1, <1>3, <3>1 DEF Exclusion, at
    <3>2. CASE d # c
      BY <1>1, <3>2 DEF Exclusion, at, Deploying, active
    <3> QED
      BY <3>1, <3>2
  <2> QED
    BY <2>1, <2>2 DEF Exclusion, OneDeploymentAtATime
<1> QED
  BY <1>1, <1>2, <1>3

LEMMA ExclusionKept ==
  ASSUME TypeOK, TasksPlaced, Exclusion, [Next]_vars
  PROVE  Exclusion'
<1>1. TaskTypeOK /\ ChainTypeOK /\ WorkTypeOK /\ OperatorTypeOK
  BY TypeParts
<1>2. disturbed \subseteq disturbed'
  BY <1>1, ChainTypeKept
<1>3. ASSUME NEW c \in Calls, Serve(c)
      PROVE  Exclusion'
  <2>1. task' = [task EXCEPT ![c] = task'[c]] /\ TasksPlaced'
    BY <1>1, <1>3, ServeMoves
  <2>2. \A d \in Calls \ {c} : task'[d] = task[d]
    BY <1>1, <2>1 DEF TaskTypeOK
  <2>3. ASSUME UNCHANGED deployJob, ~at(c, "idle")', ~at(c, "create")',
               Deploying(c)' => Deploying(c) /\ ~at(c, "create")
        PROVE  Exclusion'
    BY <1>2, <2>2, <2>3, ExclusionUntouched DEF at, Deploying
  <2>4. doneTask.op \notin {"deploy", "reset"} /\ doneTask.pc = "done"
    BY DonePlaced, ProtocolAssumption
  <2>5. CASE StartTask(c) /\ UNCHANGED deployJob
    BY <1>1, <2>3, <2>5, StartMoves DEF TaskSteps, at, Deploying
  <2>6. CASE TaskStep(c) /\ UNCHANGED deployJob
    <3>1. TaskMoved(c)
      BY <1>1, <2>6, TaskStepMoves
    <3> QED
      BY <2>3, <2>4, <2>6, <3>1 DEF TaskMoved, TaskSteps, at, Deploying
  <2>7. CASE PostStep(c) /\ UNCHANGED deployJob
    <3>1. task'[c] = doneTask \/ (task'[c].pc = "enqueue" /\ task'[c].op = "job")
      <4>1. CASE PostJob(c)
        BY <1>1, <4>1, PostJobMoves
      <4>2. CASE Enqueue(c)
        BY <1>1, <4>2, EndMoves DEF Ends
      <4> QED
        BY <2>7, <4>1, <4>2 DEF PostStep
    <3> QED
      BY <2>3, <2>4, <2>7, <3>1 DEF at, Deploying
  <2>8. CASE FindActive(c)
    BY <1>1, <2>8, FindActiveExcludes
  <2>9. CASE Create(c)
    BY <1>1, <2>9, CreateExcludes
  <2>10. CASE Run(c)
    <3> DEFINE new == [deployJob[c] EXCEPT !.status = "running", !.error = None]
    <3>1. deployJob[c] \in DeployJob
      BY <1>1 DEF OperatorTypeOK
    <3>2. new.status = "running"
      BY <3>1 DEF DeployJob
    <3>3. active(c)
      BY <1>1, <2>10, DeployMoves DEF Exclusion, Run, at
    <3>4. task'[c].pc \in {"fund", "reset"}
      BY <1>1, <2>10, DeployMoves
    <3>5. update(c, new) /\ disturbed' = disturbed
      BY <2>10 DEF Run
    <3> HIDE DEF new
    <3> QED
      BY <1>1, <2>2, <3>2, <3>3, <3>4, <3>5, ExclusionUpdated DEF at, ACTIVE_STATUSES
  <2>11. CASE Complete(c) \/ CatchError(c)
    <3>1. PICK new : update(c, new) /\ new.status \in Terminal
      <4>1. deployJob[c] \in DeployJob
        BY <1>1 DEF OperatorTypeOK
      <4>2. CASE Complete(c)
        <5> DEFINE new == [deployJob[c] EXCEPT !.status = "completed",
                                               !.deploymentStatus = "completed"]
        <5>1. new.status = "completed" /\ update(c, new)
          BY <4>1, <4>2 DEF DeployJob, Complete
        <5> HIDE DEF new
        <5> QED
          BY <5>1 DEF Terminal
      <4>3. CASE CatchError(c)
        <5> DEFINE failed == [deployJob[c] EXCEPT !.status = "failed", !.error = "thrown"]
                   new == manifestPatch(failed)
        <5>1. failed \in DeployJob /\ failed.status = "failed"
          BY <4>1 DEF DeployJob, Terminal
        <5>2. update(c, new)
          BY <4>3 DEF CatchError
        <5> HIDE DEF failed
        <5>3. new.status = "failed"
          BY <5>1 DEF manifestPatch, DeployJob
        <5> HIDE DEF new
        <5> QED
          BY <5>2, <5>3 DEF Terminal
      <4> QED
        BY <2>11, <4>2, <4>3
    <3>2. task'[c] = doneTask /\ disturbed' = disturbed
      BY <1>1, <2>11, EndMoves DEF Ends, Complete, CatchError
    <3> QED
      BY <1>1, <2>2, <2>4, <3>1, <3>2, ExclusionUpdated
         DEF at, Deploying, ACTIVE_STATUSES, Terminal
  <2> QED
    BY <1>3, <2>5, <2>6, <2>7, <2>8, <2>9, <2>10, <2>11 DEF Serve, DeployStep
<1>4. CASE Recover
  <2>1. /\ ~up /\ UNCHANGED <<task, disturbed>>
        /\ \A c \in Calls : deployJob'[c] =
             IF active(c) THEN [deployJob[c] EXCEPT !.status = "failed", !.error = "restarted"]
                          ELSE deployJob[c]
    BY <1>4 DEF Recover, recover, protocolVars
  <2>2. \A c \in Calls : ~active(c)'
    <3> SUFFICES ASSUME NEW c \in Calls PROVE ~active(c)'
      OBVIOUS
    <3>1. deployJob[c] \in DeployJob
      BY <1>1 DEF OperatorTypeOK
    <3> QED
      BY <2>1, <3>1 DEF active, ACTIVE_STATUSES, DeployJob
  <2>3. \A c \in Calls : ~Deploying(c) /\ ~at(c, "create")
    BY <2>1 DEF TasksPlaced, DeploySteps, at
  <2>4. \A c \in Calls : at(c, "idle") => deployJob'[c] = NoDeployJob
    BY <2>1, NotActive DEF Exclusion, active
  <2> QED
    BY <2>1, <2>2, <2>3, <2>4 DEF Exclusion, OneDeploymentAtATime, at, Deploying
<1>5. CASE CrashOperator
  <2>1. UNCHANGED <<deployJob, disturbed>>
    BY <1>5 DEF CrashOperator
  <2>2. \A c \in Calls : ~Deploying(c)' /\ (at(c, "idle")' => at(c, "idle")) /\ ~at(c, "create")'
    BY <1>1, <1>5, CrashMoves, DonePlaced, ProtocolAssumption DEF Deploying, at
  <2> QED
    BY <2>1, <2>2, ExclusionUntouched
<1>6. CASE Work \/ CrashWorker \/ CrashChain \/ (\E j \in Calls : Expire(j)) \/ UNCHANGED vars
  <2>1. UNCHANGED <<deployJob, task>>
    BY <1>6, WorkFrame DEF vars, deployVars, protocolVars
  <2> QED
    BY <1>2, <2>1, ExclusionUntouched DEF at, Deploying
<1> QED
  BY <1>3, <1>4, <1>5, <1>6 DEF Next

-----------------------------------------------------------------------------
(* What an undisturbed deployment has done stays done                      *)

chainGrows ==
  chain.contracts \subseteq chain'.contracts /\ chain.approvals \subseteq chain'.approvals

\* another's step
LEMMA IntactFromOutside ==
  ASSUME NEW c \in Calls, intact(c), Deploying(c),
         task'[c] = task[c], disturbed \subseteq disturbed',
         chainGrows \/ c \in disturbed',
         manifest' = manifest \/ ~at(c, "approve") \/ c \in disturbed'
  PROVE  intact(c)'
<1> SUFFICES ASSUME c \notin disturbed'
             PROVE  intact(c)'
  BY DEF intact
<1>1. c \notin disturbed /\ chainGrows
  OBVIOUS
<1>2. live(task[c].contracts) => live(task[c].contracts)'
  BY <1>1 DEF live, chainGrows
<1>3. deployedSoFar(c)'
  BY <1>1, <1>2 DEF intact, deployedSoFar, at, chainGrows
<1> QED
  BY <1>1, <1>2, <1>3 DEF intact, at, Deploying

LEMMA StageGrows ==
  ASSUME ChainTypeOK, NEW c \in Calls, StageDeploys(c)
  PROVE  /\ chain'.contracts = chain.contracts \cup {[stage |-> task[c].stage, nonce |-> chain.nonce]}
         /\ chain'.approvals = chain.approvals
<1> DEFINE more == chain.contracts \cup {[stage |-> task[c].stage, nonce |-> chain.nonce]}
<1>1. chain' = [chain EXCEPT !.nonce = @ + 1, !.contracts = more]
  BY DEF StageDeploys
<1> HIDE DEF more
<1>2. chain'.contracts = more /\ chain'.approvals = chain.approvals
  BY <1>1 DEF ChainTypeOK, ChainState
<1> QED
  BY <1>2 DEF more

LEMMA ApproveGrows ==
  ASSUME ChainTypeOK, NEW c \in Calls, Approve(c)
  PROVE  /\ chain'.contracts = chain.contracts
         /\ \/ throw(c) /\ UNCHANGED chain
            \/ /\ chain'.approvals = chain.approvals \cup
                    (coreOf(task[c].contracts) \cap chain.contracts) \X {task[c].approval}
               /\ task' = [task EXCEPT ![c].approval = @ + 1]
<1> DEFINE more == chain.approvals \cup
                    (coreOf(task[c].contracts) \cap chain.contracts) \X {task[c].approval}
<1>1. CASE /\ chain' = [chain EXCEPT !.approvals = more]
           /\ task' = [task EXCEPT ![c].approval = @ + 1]
  <2> HIDE DEF more
  <2>1. chain'.approvals = more /\ chain'.contracts = chain.contracts
    BY <1>1 DEF ChainTypeOK, ChainState
  <2> QED
    BY <1>1, <2>1 DEF more
<1>2. CASE throw(c) /\ UNCHANGED chain
  BY <1>2
<1> QED
  BY <1>1, <1>2 DEF Approve, commandFails

\* a task's step adds to the chain or disturbs the others; it replaces the
\* manifest only from the stages of a deployment
LEMMA TaskStepGrows ==
  ASSUME TaskTypeOK, ChainTypeOK, NEW c \in Calls, TaskStep(c)
  PROVE  /\ chainGrows \/ disturbs(c) \subseteq disturbed'
         /\ manifest' = manifest \/ at(c, "stage")
<1>1. CASE FundDeployer(c) \/ LoadSeedManifest(c) \/ SeedResponds(c) \/ DumpState(c)
           \/ ReadSnapshot(c) \/ LocalSmoke(c) \/ WriteManifest(c) \/ SaveSnapshot(c)
           \/ UploadSnapshot(c) \/ FetchSnapshot(c)
  BY <1>1 DEF FundDeployer, LoadSeedManifest, SeedResponds, DumpState, ReadSnapshot,
              LocalSmoke, WriteManifest, SaveSnapshot, UploadSnapshot, FetchSnapshot,
              chainGrows
<1>2. CASE StageDeploys(c)
  <2>1. manifest' = manifest
    BY <1>2 DEF StageDeploys
  <2> QED
    BY <1>2, <2>1, StageGrows DEF chainGrows
<1>3. CASE StageFails(c)
  <2>1. at(c, "stage")
    BY <1>3 DEF StageFails
  <2>2. chain'.contracts = chain.contracts /\ chain'.approvals = chain.approvals
    BY <1>3 DEF StageFails, ChainTypeOK, ChainState
  <2> QED
    BY <2>1, <2>2 DEF chainGrows
<1>4. CASE Approve(c)
  <2>1. manifest' = manifest
    BY <1>4 DEF Approve
  <2> QED
    BY <1>4, <2>1, ApproveGrows DEF chainGrows
<1>5. CASE ResetChain(c) \/ WipeChain(c) \/ LoadState(c)
  BY <1>5 DEF ResetChain, WipeChain, LoadState, chainGrows
<1> QED
  BY <1>1, <1>2, <1>3, <1>4, <1>5 DEF TaskStep

LEMMA MergedStages ==
  ASSUME NEW current \in SUBSET Contract, NEW s \in Stages, NEW nonce \in Nat,
         stagesOf(current) = 1..(s - 1)
  PROVE  LET new == [stage |-> s, nonce |-> nonce] IN
         /\ mergeContracts(current, {new}) = current \cup {new}
         /\ stagesOf(mergeContracts(current, {new})) = 1..s
<1> DEFINE new == [stage |-> s, nonce |-> nonce]
<1>1. new.stage = s
  OBVIOUS
<1> HIDE DEF new
<1>2. s \in Nat \ {0}
  BY ProtocolAssumption DEF Stages
<1>3. \A k \in current : k.stage \in 1..(s - 1)
  BY DEF stagesOf
<1>4. \A k \in current : k.stage # s
  BY <1>2, <1>3
<1>5. stagesOf({new}) = {s}
  BY <1>1 DEF stagesOf
<1>6. mergeContracts(current, {new}) = current \cup {new}
  BY <1>4, <1>5 DEF mergeContracts
<1>7. stagesOf(current \cup {new}) = (1..(s - 1)) \cup {s}
  <2>1. stagesOf(current \cup {new}) = stagesOf(current) \cup {new.stage}
    BY DEF stagesOf
  <2> QED
    BY <1>1, <2>1
<1>8. (1..(s - 1)) \cup {s} = 1..s
  BY <1>2
<1> QED
  BY <1>6, <1>7, <1>8 DEF new

\* a deployment's own step
LEMMA IntactOwnStep ==
  ASSUME TaskTypeOK, ChainTypeOK, TasksPlaced, NEW c \in Calls, intact(c), TaskStep(c)
  PROVE  intact(c)'
<1> SUFFICES ASSUME Deploying(c)', c \notin disturbed', task'[c].pc # "threw"
             PROVE  intact(c)'
  BY DEF intact, deployedSoFar, at
<1>1. /\ TaskMoved(c) /\ placed(task[c]) /\ disturbed \subseteq disturbed'
      /\ task'[c] # doneTask
  BY TaskStepMoves, AllPlaced, TaskStepChainType, DonePlaced, ProtocolAssumption DEF Deploying
<1>2. Deploying(c) /\ c \notin disturbed /\ task[c].pc \in {"fund", "stage", "reset", "approve"}
  BY <1>1 DEF TaskMoved, placed, Deploying, DeploySteps, TaskSteps
<1>3. /\ task[c].pc \in {"reset", "fund"} =>
           task[c].stage = 1 /\ task[c].approval = 1 /\ task[c].contracts = {}
      /\ at(c, "stage") \/ at(c, "approve") => live(task[c].contracts)
      /\ deployedSoFar(c)
      /\ task[c] \in Task
  BY <1>1, <1>2 DEF intact, placed
<1>4. ~throw(c)
  BY <1>2, ThrowMoves
<1>5. ASSUME NEW pc \in Steps, goTo(c, pc)
      PROVE  /\ task'[c].pc = pc
             /\ task'[c].stage = task[c].stage /\ task'[c].approval = task[c].approval
             /\ task'[c].contracts = task[c].contracts
  BY <1>5, GoToMoves
<1>6. CASE FundDeployer(c)
  <2>1. task'[c].pc = "stage" /\ task[c].pc = "fund"
    BY <1>4, <1>5, <1>6 DEF FundDeployer, commandFails, Steps, at
  <2>2. task'[c].stage = 1 /\ task'[c].approval = 1 /\ task'[c].contracts = {}
    BY <1>3, <1>4, <1>5, <1>6, <2>1 DEF FundDeployer, commandFails, Steps
  <2>3. live({})' /\ stagesOf({}) = {} /\ {} = 1..(1 - 1) /\ 1 \in 1..(STAGES + 1)
    BY ProtocolAssumption DEF live, stagesOf
  <2> QED
    BY <2>1, <2>2, <2>3 DEF intact, deployedSoFar, at
<1>7. CASE StageDeploys(c)
  <2> DEFINE s == task[c].stage
             new == [stage |-> s, nonce |-> chain.nonce]
             merged == mergeContracts(task[c].contracts, {new})
             t == [task[c] EXCEPT !.stage = @ + 1, !.contracts = merged]
  <2>1. at(c, "stage") /\ ~(s > STAGES) /\ task' = [task EXCEPT ![c] = t]
    BY <1>7 DEF StageDeploys, stagesDone
  <2>2. /\ s \in 1..(STAGES + 1) /\ stagesOf(task[c].contracts) = 1..(s - 1)
        /\ task[c].approval = 1 /\ live(task[c].contracts)
    BY <1>3, <2>1 DEF deployedSoFar
  <2>3. s \in Stages /\ s + 1 \in 1..(STAGES + 1) /\ (s + 1) - 1 = s
    BY <2>1, <2>2, ProtocolAssumption DEF Stages
  <2>4. merged = task[c].contracts \cup {new} /\ stagesOf(merged) = 1..s
    <3>1. task[c].contracts \in SUBSET Contract /\ chain.nonce \in Nat
      BY <1>3 DEF Task, ChainTypeOK, ChainState
    <3> QED
      BY <2>2, <2>3, <3>1, MergedStages
  <2>5. merged \subseteq chain'.contracts
    BY <1>7, <2>2, <2>4, StageGrows DEF live
  <2> HIDE DEF merged, new
  <2>6. t.stage = s + 1 /\ t.contracts = merged /\ t.approval = 1 /\ t.pc = "stage"
    BY <1>3, <2>1, <2>2 DEF Task, at
  <2> HIDE DEF t
  <2>7. task'[c] = t
    BY <2>1 DEF TaskTypeOK
  <2>8. stagesOf(task'[c].contracts) = 1..(task'[c].stage - 1)
    BY <2>3, <2>4, <2>6, <2>7
  <2> QED
    BY <2>3, <2>5, <2>6, <2>7, <2>8 DEF intact, deployedSoFar, at, live
<1>8. CASE StageFails(c)
  BY <1>4, <1>8 DEF StageFails
<1>9. CASE WriteManifest(c)
  <2>1. at(c, "stage") /\ task[c].stage > STAGES /\ UNCHANGED chain
        /\ manifest' = buildManifest(task[c].contracts, "completed")
    BY <1>9 DEF WriteManifest, stagesDone
  <2>2. task'[c].pc = "approve" /\ task'[c].approval = 1
        /\ task'[c].contracts = task[c].contracts
    BY <1>3, <1>5, <1>9, <2>1 DEF WriteManifest, Steps, deployedSoFar
  <2>3. stagesOf(task[c].contracts) = Stages
    <3>1. task[c].stage \in 1..(STAGES + 1) /\ STAGES \in Nat
      BY <1>3, <2>1, ProtocolAssumption DEF deployedSoFar
    <3>2. task[c].stage - 1 = STAGES
      BY <2>1, <3>1
    <3> QED
      BY <1>3, <2>1, <3>2 DEF deployedSoFar, Stages
  <2>4. live(task[c].contracts)'
    BY <1>3, <2>1, <2>2 DEF live
  <2>5. 1 \in 1..(APPROVALS + 1) /\ 1..(1 - 1) = {}
    BY ProtocolAssumption
  <2>6. coreOf(task'[c].contracts) \X (1..(task'[c].approval - 1)) \subseteq chain'.approvals
    BY <2>2, <2>5
  <2> QED
    BY <2>1, <2>2, <2>3, <2>4, <2>5, <2>6 DEF intact, deployedSoFar, at
<1>10. CASE Approve(c)
  <2> DEFINE a == task[c].approval
             core == coreOf(task[c].contracts)
             t == [task[c] EXCEPT !.approval = @ + 1]
  <2>1. /\ at(c, "approve") /\ a <= APPROVALS /\ manifest' = manifest
        /\ chain'.contracts = chain.contracts
        /\ chain'.approvals = chain.approvals \cup (core \cap chain.contracts) \X {a}
        /\ task' = [task EXCEPT ![c] = t]
    BY <1>4, <1>10, ApproveGrows DEF Approve
  <2>2. /\ stagesOf(task[c].contracts) = Stages
        /\ manifest = buildManifest(task[c].contracts, "completed")
        /\ a \in 1..(APPROVALS + 1) /\ core \X (1..(a - 1)) \subseteq chain.approvals
        /\ live(task[c].contracts)
    BY <1>3, <2>1 DEF deployedSoFar
  <2>3. core \cap chain.contracts = core
    BY <2>2 DEF live, coreOf
  <2>4. t.approval = a + 1 /\ t.contracts = task[c].contracts /\ t.pc = "approve"
    BY <1>3, <2>1 DEF Task, at
  <2> HIDE DEF t
  <2>5. task'[c] = t
    BY <2>1 DEF TaskTypeOK
  <2>6. a + 1 \in 1..(APPROVALS + 1) /\ 1..((a + 1) - 1) = (1..(a - 1)) \cup {a}
    BY <2>1, <2>2, ProtocolAssumption
  <2>7. core \X (1..((a + 1) - 1)) \subseteq chain'.approvals
    <3> HIDE DEF core, a
    <3>1. core \X (1..((a + 1) - 1)) = (core \X (1..(a - 1))) \cup (core \X {a})
      BY <2>6
    <3> QED
      BY <2>1, <2>2, <2>3, <3>1
  <2> QED
    BY <2>1, <2>2, <2>4, <2>5, <2>6, <2>7 DEF intact, deployedSoFar, at, live
<1>11. CASE ResetChain(c)
  <2>1. task[c].pc = "reset" /\ task'[c].pc = "fund" /\ task'[c].stage = task[c].stage
        /\ task'[c].approval = task[c].approval /\ task'[c].contracts = task[c].contracts
    BY <1>4, <1>5, <1>11 DEF ResetChain, commandFails, Steps, at
  <2> QED
    BY <1>3, <2>1 DEF intact, deployedSoFar, at
<1>12. CASE SeedResponds(c)
  BY <1>2, <1>12 DEF SeedResponds
<1> QED
  BY <1>2, <1>6, <1>7, <1>8, <1>9, <1>10, <1>11, <1>12
     DEF TaskStep, at, LoadSeedManifest, DumpState, SaveSnapshot, UploadSnapshot,
         FetchSnapshot, ReadSnapshot, WipeChain, LoadState, LocalSmoke

LEMMA IntactKept ==
  ASSUME TypeOK, TasksPlaced, Exclusion, Intact, [Next]_vars
  PROVE  Intact'
<1> SUFFICES ASSUME NEW c \in Calls, Deploying(c)', c \notin disturbed'
             PROVE  intact(c)'
  BY DEF Intact, intact
<1>1. TaskTypeOK /\ ChainTypeOK /\ WorkTypeOK /\ OperatorTypeOK
  BY TypeParts
<1>2. disturbed \subseteq disturbed' /\ intact(c) /\ TasksPlaced'
  BY <1>1, ChainTypeKept, NextPlaced DEF Intact
<1>3. ASSUME NEW d \in Calls, Serve(d)
      PROVE  intact(c)'
  <2>1. task' = [task EXCEPT ![d] = task'[d]]
    BY <1>1, <1>3, ServeMoves
  <2>2. CASE c # d
    <3>1. task'[c] = task[c] /\ Deploying(c)
      BY <1>1, <2>1, <2>2 DEF TaskTypeOK, Deploying
    <3>2. CASE TaskStep(d)
      <4>1. ~at(c, "done")
        BY <1>1, <3>1, DonePlaced, ProtocolAssumption DEF TasksPlaced, Deploying
      <4>2. chainGrows \/ c \in disturbed'
        BY <1>1, <2>2, <3>1, <3>2, <4>1, TaskStepGrows DEF disturbs
      <4>3. manifest' = manifest \/ ~at(c, "approve") \/ c \in disturbed'
        <5> SUFFICES ASSUME at(d, "stage"), at(c, "approve")
                     PROVE  c \in disturbed'
          BY <1>1, <3>2, TaskStepGrows
        <5>1. active(d) /\ active(c)
          BY <3>1 DEF TasksPlaced, DeploySteps, Exclusion, at
        <5> QED
          BY <1>2, <2>2, <5>1 DEF Exclusion, OneDeploymentAtATime
      <4> QED
        BY <1>2, <3>1, <4>2, <4>3, IntactFromOutside
    <3>3. CASE ~TaskStep(d)
      <4>1. UNCHANGED <<chain, manifest>>
        BY <1>3, <3>3 DEF Serve, StartTask, DeployStep, FindActive, Create, Run, Complete,
                          CatchError, PostStep, PostJob, Enqueue
      <4> QED
        BY <1>2, <3>1, <4>1, IntactFromOutside DEF chainGrows
    <3> QED
      BY <3>2, <3>3
  <2>3. CASE c = d
    <3>1. task'[c] # doneTask
      BY DonePlaced, ProtocolAssumption DEF Deploying
    <3>2. CASE TaskStep(c)
      BY <1>1, <1>2, <3>2, IntactOwnStep
    <3>3. CASE StartTask(c)
      BY <1>1, <3>3, StartMoves DEF Deploying
    <3>4. CASE FindActive(c)
      BY <1>1, <3>1, <3>4, FindActiveMoves DEF intact, deployedSoFar, at
    <3>5. CASE Create(c) \/ Run(c)
      <4>1. /\ Deploying(c) /\ task'[c].pc \in {"run", "fund", "reset"}
            /\ task[c].pc \in {"create", "run"} /\ task'[c].stage = task[c].stage
            /\ task'[c].approval = task[c].approval /\ task'[c].contracts = task[c].contracts
        BY <1>1, <3>5, DeployMoves DEF Create, Run, at
      <4>2. c \notin disturbed
        BY <1>2
      <4> QED
        BY <1>2, <4>1, <4>2 DEF intact, deployedSoFar, at
    <3>6. CASE Ends(c)
      BY <1>1, <3>1, <3>6, EndMoves
    <3>7. CASE PostJob(c)
      BY <1>1, <3>1, <3>7, PostJobMoves DEF Deploying
    <3> QED
      BY <1>3, <2>3, <3>2, <3>3, <3>4, <3>5, <3>6, <3>7
         DEF Serve, DeployStep, PostStep, Ends
  <2> QED
    BY <2>2, <2>3
<1>4. CASE Work \/ (\E j \in Calls : Expire(j)) \/ CrashWorker
  <2>1. UNCHANGED <<task, manifest>>
    BY <1>4, WorkFrame
  <2>2. chainGrows
    <3>1. CASE Submit
      <4>1. CASE UNCHANGED chain
        BY <4>1 DEF chainGrows
      <4>2. CASE chain' = [chain EXCEPT !.landed = @ \cup {worker.job}]
        BY <1>1, <4>2 DEF ChainTypeOK, ChainState, chainGrows
      <4> QED
        BY <3>1, <4>1, <4>2 DEF Submit, submitProof
    <3>2. CASE ~Submit
      <4>1. UNCHANGED chain
        BY <1>4, <3>2 DEF Work, WorkerStep, Receive, Redrive, GetJob, Execute, CompleteJob,
              Ack, CatchJobError, AckFailed, CrashWorker, crashWorker, Expire,
              VisibilityTimeout, protocolVars
      <4> QED
        BY <4>1 DEF chainGrows
    <3> QED
      BY <3>1, <3>2
  <2> QED
    BY <1>2, <2>1, <2>2, IntactFromOutside DEF Deploying
<1>5. CASE CrashChain
  BY <1>5 DEF CrashChain, restartAnvil, Deploying
<1>6. CASE CrashOperator
  BY <1>1, <1>6, CrashMoves, DonePlaced, ProtocolAssumption DEF Deploying
<1>7. CASE Recover \/ UNCHANGED vars
  <2>1. UNCHANGED <<chain, manifest, task>>
    BY <1>7 DEF Recover, vars, deployVars, protocolVars
  <2> QED
    BY <1>2, <2>1, IntactFromOutside DEF Deploying, chainGrows
<1> QED
  BY <1>3, <1>4, <1>5, <1>6, <1>7 DEF Next

-----------------------------------------------------------------------------
(* The invariant and what follows from it                                  *)

LEMMA InvInit == Init => IInv
<1> SUFFICES ASSUME Init PROVE IInv
  OBVIOUS
<1>1. \A c \in Calls : task[c] = NoTask /\ deployJob[c] = NoDeployJob /\ job[c] = NoJob
                      /\ message[c] = "none" /\ receives[c] = 0
  BY DEF Init, ProtocolInit, DeployInit, JobsInit
<1>2. /\ task \in [Calls -> Task] /\ NoTask.pc = "idle" /\ NoTask.op = None
      /\ None \notin {"deploy", "reset"}
  BY DoneTaskType, DonePlaced, ProtocolAssumption DEF Init, ProtocolInit
<1>3. \A c \in Calls : task[c].pc = "idle" /\ ~Deploying(c)
  BY <1>1, <1>2 DEF Deploying
<1>4. TaskTypeOK
  BY <1>2, <1>3 DEF TaskTypeOK, at
<1>5. ChainTypeOK
  <2>1. NoManifest \in Manifest
    <3>1. {} \in SUBSET Contract
      OBVIOUS
    <3> QED
      BY <3>1 DEF NoManifest, Manifest
  <2>2. chain = freshChain /\ manifest = NoManifest /\ accepted = {} /\ disturbed = {}
        /\ snapshots = [local |-> None, remote |-> None]
    BY DEF Init, ProtocolInit
  <2> QED
    BY <2>1, <2>2, FreshChainType DEF ChainTypeOK
<1>6. WorkTypeOK
  <2>1. /\ queueMode \in {"file", "sqs"} /\ dropped = {} /\ worker = idleWorker
        /\ job = [c \in Calls |-> NoJob] /\ message = [c \in Calls |-> "none"]
        /\ receives = [c \in Calls |-> 0]
    BY DEF Init, JobsInit
  <2>2. NoJob \in Job
    BY DEF NoJob, Job
  <2>3. "none" \in MessagePlaces
    BY DEF MessagePlaces
  <2>4. idleWorker \in [pc : WorkerSteps, job : Calls \cup {None}] /\ idleWorker.pc = "idle"
    BY DEF idleWorker, WorkerSteps
  <2> QED
    BY <2>1, <2>2, <2>3, <2>4 DEF WorkTypeOK, workerAt
<1>7. OperatorTypeOK
  <2>1. NoDeployJob \in DeployJob
    BY DEF NoDeployJob, DeployJob
  <2> QED
    BY <2>1 DEF OperatorTypeOK, Init, DeployInit
<1>8. TasksPlaced
  BY <1>1, <1>3 DEF TasksPlaced, at, DeploySteps
<1>9. JobsInv
  <2>1. \A c \in Calls : job[c].status = None
    BY <1>1 DEF NoJob
  <2>2. \A c \in Calls : ~inHand(c)
    BY DEF Init, JobsInit, inHand, workerAt, idleWorker
  <2>3. accepted = {}
    BY DEF Init, ProtocolInit
  <2>4. None \notin TerminalJob
    BY JobsAssumption DEF TerminalJob, JOB_STATUSES
  <2> QED
    BY <1>1, <1>3, <2>1, <2>2, <2>3, <2>4
       DEF JobsInv, JobsOfCalls, FileQueue, WorkerHolds, NoJobForgotten, sent, at
<1>10. Exclusion
  BY <1>1, <1>3, NotActive DEF Exclusion, OneDeploymentAtATime, active, at
<1>11. Intact
  BY <1>3 DEF Intact, intact
<1> QED
  BY <1>4, <1>5, <1>6, <1>7, <1>8, <1>9, <1>10, <1>11, TypeParts DEF IInv

LEMMA InvNext == IInv /\ [Next]_vars => IInv'
<1> SUFFICES ASSUME IInv, [Next]_vars PROVE IInv'
  OBVIOUS
<1>1. /\ TaskTypeOK /\ ChainTypeOK /\ WorkTypeOK /\ OperatorTypeOK
      /\ TypeOK /\ TasksPlaced /\ JobsInv /\ Exclusion /\ Intact
  BY TypeParts DEF IInv
<1>2. TaskTypeOK' /\ TasksPlaced'
  BY <1>1, NextPlaced
<1>3. ChainTypeOK' /\ WorkTypeOK' /\ OperatorTypeOK'
  BY <1>1, ChainTypeKept, WorkTypeKept, OperatorTypeKept
<1>4. TypeOK'
  BY <1>2, <1>3 DEF TypeOK, TaskTypeOK, ChainTypeOK, WorkTypeOK, OperatorTypeOK
<1>5. JobsInv' /\ Exclusion' /\ Intact'
  BY <1>1, JobsKept, ExclusionKept, IntactKept
<1> QED
  BY <1>2, <1>4, <1>5 DEF IInv

LEMMA Invariant == Spec => []IInv
  BY InvInit, InvNext, PTL DEF Spec

\* Every variable of the operator, its worker and its chain has its type.
THEOREM TypesHold == Spec => []TypeOK
<1>1. IInv => TypeOK
  BY DEF IInv
<1> QED
  BY <1>1, Invariant, PTL

\* No accepted job without a verdict is lost to both queue and worker, except
\* that the directory queue forgets those its worker died with.
THEOREM JobsNeverForgotten == Spec => []NoJobForgotten
<1>1. IInv => NoJobForgotten
  BY DEF IInv, JobsInv
<1> QED
  BY <1>1, Invariant, PTL

\* Deployments are active together only if their requests raced.
THEOREM DeploymentsExclusive == Spec => []OneDeploymentAtATime
<1>1. IInv => OneDeploymentAtATime
  BY DEF IInv, Exclusion
<1> QED
  BY <1>1, Invariant, PTL

\* What a step that changes a job with a verdict does to it.
verdictChanges(j) ==
  /\ queueMode = "sqs"
  /\ \/ message[j] # "none"
     \/ /\ inHand(j) /\ job[j].status = "completed"
        /\ job'[j].status = "failed"

\* It is the work of an SQS message that was not deleted, or of a deletion
\* that was answered with an error.
LEMMA VerdictStep ==
  ASSUME IInv, [Next]_vars, NEW j \in Calls,
         job[j].status \in TerminalJob, job'[j] # job[j]
  PROVE  verdictChanges(j)
<1>1. /\ TaskTypeOK /\ ChainTypeOK /\ WorkTypeOK /\ TasksPlaced /\ JobsInv
  BY TypeParts DEF IInv
<1>2. ~UNCHANGED job
  OBVIOUS
<1>3. ASSUME NEW c \in Calls, PostJob(c)
      PROVE  FALSE
  <2>1. job[c].status = None
    BY <1>1, <1>3 DEF JobsInv, JobsOfCalls, PostJob, unused, at
  <2>2. j # c
    BY <2>1, JobsAssumption DEF TerminalJob, JOB_STATUSES
  <2> QED
    BY <1>1, <1>3, <2>2, PostJobMoves, JobPosted
<1>4. CASE GetJob \/ CompleteJob \/ CatchJobError
  <2>1. ~workerAt("idle") /\ ~workerAt("ack") /\ ~workerAt("ackFailed")
    BY <1>4 DEF GetJob, CompleteJob, CatchJobError, workerAt
  <2>2. worker.job \in Calls /\ inHand(worker.job)
    BY <1>1, <2>1 DEF WorkTypeOK, inHand
  <2>3. PICK status \in JOB_STATUSES, error \in {None, "thrown"} :
          updateJob(worker.job, status, error)
    BY <1>2, <1>4 DEF GetJob, CompleteJob, CatchJobError, JOB_STATUSES
  <2>4. j = worker.job
    BY <1>1, <2>2, <2>3, JobUpdated
  <2>5. queueMode = "sqs"
    BY <1>1, <2>1, <2>2, <2>4 DEF JobsInv, WorkerHolds, WorkTypeOK
  <2>6. CASE message[j] # "none"
    BY <2>5, <2>6 DEF verdictChanges
  <2>7. CASE message[j] = "none"
    <3>1. workerAt("catch") /\ job[j].status = "completed"
      BY <1>1, <2>1, <2>2, <2>4, <2>5, <2>7 DEF JobsInv, WorkerHolds
    <3>2. updateJob(j, "failed", "thrown")
      BY <1>4, <2>4, <3>1 DEF GetJob, CompleteJob, CatchJobError, workerAt
    <3>3. job'[j].status = "failed"
      BY <1>1, <2>2, <2>4, <3>2, JobUpdated DEF JOB_STATUSES
    <3> QED
      BY <2>2, <2>4, <2>5, <3>1, <3>3 DEF verdictChanges
  <2> QED
    BY <2>6, <2>7
<1>5. ~(\E c \in Calls : PostJob(c)) /\ ~(GetJob \/ CompleteJob \/ CatchJobError) =>
        UNCHANGED job
  BY DEF Next, vars, Serve, DeployStep, PostStep, Enqueue, Recover, Work, WorkerStep, Receive,
         Redrive, Execute, Submit, Ack, AckFailed, Expire, VisibilityTimeout,
         CrashOperator, CrashWorker, crashWorker, CrashChain, jobVars
<1> QED
  BY <1>2, <1>3, <1>4, <1>5

\* A verdict stands unless SQS delivers its job again, or answers the deletion
\* of a completed job's message with an error.
THEOREM VerdictsAlwaysStand == Spec => VerdictsStand
<1>1. IInv /\ [Next]_vars =>
        [\A j \in Calls :
           job[j].status \in TerminalJob /\ job'[j] # job[j] => verdictChanges(j)]_vars
  BY VerdictStep
<1> QED
  BY <1>1, Invariant, PTL DEF Spec, VerdictsStand, verdictChanges

\* Only the end of a seeded deployment completes a deployment job.
LEMMA CompletionStep ==
  ASSUME IInv, [Next]_vars, NEW c \in Calls,
         deployJob[c].status # "completed", deployJob'[c].status = "completed"
  PROVE  Complete(c)
<1>1. OperatorTypeOK /\ TaskTypeOK /\ TasksPlaced
  BY TypeParts DEF IInv
<1>2. deployJob[c] \in DeployJob
  BY <1>1 DEF OperatorTypeOK
<1>3. ASSUME NEW d \in Calls, NEW new, update(d, new), new.status # "completed"
      PROVE  FALSE
  BY <1>1, <1>3 DEF update, OperatorTypeOK
<1>4. ASSUME NEW d \in Calls, DeployStep(d)
      PROVE  Complete(c)
  <2>1. deployJob[d] \in DeployJob
    BY <1>1 DEF OperatorTypeOK
  <2>2. CASE FindActive(d)
    BY <2>2 DEF FindActive
  <2>3. CASE Create(d)
    <3> DEFINE new == [NoDeployJob EXCEPT !.operation = task[d].op, !.status = "queued"]
    <3>1. new.status = "queued" /\ update(d, new)
      BY <2>3 DEF NoDeployJob, Create
    <3> HIDE DEF new
    <3> QED
      BY <1>3, <3>1
  <2>4. CASE Run(d)
    <3> DEFINE new == [deployJob[d] EXCEPT !.status = "running", !.error = None]
    <3>1. new.status = "running" /\ update(d, new)
      BY <2>1, <2>4 DEF DeployJob, Run
    <3> HIDE DEF new
    <3> QED
      BY <1>3, <3>1
  <2>5. CASE CatchError(d)
    <3> DEFINE failed == [deployJob[d] EXCEPT !.status = "failed", !.error = "thrown"]
               new == manifestPatch(failed)
    <3>1. failed \in DeployJob /\ failed.status = "failed"
      BY <2>1 DEF DeployJob, Terminal
    <3>2. update(d, new)
      BY <2>5 DEF CatchError
    <3> HIDE DEF failed
    <3>3. new.status = "failed"
      BY <3>1 DEF manifestPatch, DeployJob
    <3> HIDE DEF new
    <3> QED
      BY <1>3, <3>2, <3>3
  <2>6. CASE Complete(d)
    <3>1. \A e \in Calls \ {d} : deployJob'[e] = deployJob[e]
      BY <1>1, <2>6 DEF Complete, update, OperatorTypeOK
    <3> QED
      BY <2>6, <3>1
  <2> QED
    BY <1>4, <2>2, <2>3, <2>4, <2>5, <2>6 DEF DeployStep
<1>5. ~Recover
  <2> SUFFICES ASSUME Recover PROVE FALSE
    OBVIOUS
  <2>1. deployJob'[c] =
          IF active(c) THEN [deployJob[c] EXCEPT !.status = "failed", !.error = "restarted"]
                       ELSE deployJob[c]
    BY DEF Recover, recover
  <2> QED
    BY <1>2, <2>1 DEF DeployJob
<1>6. ~UNCHANGED deployJob
  OBVIOUS
<1> QED
  BY <1>4, <1>5, <1>6, WorkFrame
     DEF Next, vars, deployVars, Serve, CrashOperator

\* A deployment that completes undisturbed has every contract of its manifest
\* on the chain and every approval recorded.
THEOREM CompletedDeploysAreUsable == Spec => CompletedDeploysUsable
<1>1. ASSUME IInv, NEW c \in Calls, Complete(c), c \notin disturbed
      PROVE  usable(manifest)
  <2>1. /\ at(c, "approve") /\ Deploying(c) /\ task[c].approval > APPROVALS
        /\ live(task[c].contracts) /\ deployedSoFar(c)
    BY <1>1 DEF Complete, Seeded, IInv, Intact, intact
  <2>2. /\ stagesOf(task[c].contracts) = Stages
        /\ manifest = buildManifest(task[c].contracts, "completed")
        /\ task[c].approval \in 1..(APPROVALS + 1)
        /\ coreOf(task[c].contracts) \X (1..(task[c].approval - 1)) \subseteq chain.approvals
    BY <2>1 DEF deployedSoFar
  <2>3. task[c].approval - 1 = APPROVALS
    BY <2>1, <2>2, ProtocolAssumption
  <2>4. manifest.contracts = task[c].contracts /\ manifest.status = "completed"
    BY <2>2 DEF buildManifest
  <2> QED
    BY <2>1, <2>2, <2>3, <2>4 DEF usable
<1>2. IInv /\ [Next]_vars =>
        [\A c \in Calls :
           /\ deployJob[c].status # "completed" /\ deployJob'[c].status = "completed"
           /\ c \notin disturbed
           => usable(manifest)]_vars
  BY <1>1, CompletionStep
<1> QED
  BY <1>2, Invariant, PTL DEF Spec, CompletedDeploysUsable
=============================================================================
