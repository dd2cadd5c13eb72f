------------------------------ MODULE ProofJobs ------------------------------
(***************************************************************************)
(* Proof jobs: the operator's POST /proof-jobs and /smoke/... write a job  *)
(* file and enqueue its id (operator.ts, jobs.ts, queue.ts); the worker    *)
(* process receives, runs and acknowledges one message at a time           *)
(* (worker.ts, worker-jobs.ts, proof-provider.ts).  A job has the number   *)
(* of the call that created it.                                            *)
(*                                                                         *)
(* The queue is a directory or an SQS queue, which config.ts decides.  The *)
(* directory forgets a message when it is received.  SQS hides it, shows   *)
(* it again after the visibility timeout and, received MaxReceives times,  *)
(* moves it to the dead-letter queue; SQS and the provers are external.    *)
(***************************************************************************)
EXTENDS TestnetProtocol

CONSTANTS
  Requests,    \* bodies a client posts; bounds the model
  PokerStage,  \* the stage that deploys the tournament's poker engine
  MaxReceives  \* maxReceiveCount of the redrive policy

VARIABLES
  queueMode,   \* "file" or "sqs", fixed when the processes start
  job,         \* the files of the jobs directory
  message,     \* where a job's message is
  receives,    \* how often SQS has delivered it
  worker,      \* the worker process: where it is, with which job
  dropped      \* history: jobs a worker died with after receiving them

jobVars == <<queueMode, job, message, receives, worker, dropped>>

JOB_STATUSES == {"queued", "running", "completed", "failed"}

ASSUME JobsAssumption ==
  /\ MaxReceives \in Nat \ {0}
  /\ PokerStage \in 2..(STAGES - 1)
  /\ None \notin JOB_STATUSES

TerminalJob == {"completed", "failed"}
MessagePlaces == {"none", "visible", "inflight", "dead"}
WorkerSteps == {"idle", "get", "execute", "submit", "complete", "ack", "catch", "ackFailed"}

NoJob == [request |-> None, status |-> None, error |-> None]

idleWorker == [pc |-> "idle", job |-> None]

JobsInit ==
  /\ queueMode \in {"file", "sqs"}
  /\ job = [c \in Calls |-> NoJob]
  /\ message = [c \in Calls |-> "none"]
  /\ receives = [c \in Calls |-> 0]
  /\ worker = idleWorker
  /\ dropped = {}

updateJob(j, status, error) ==
  job' = [job EXCEPT ![j].status = status, ![j].error = error]

-----------------------------------------------------------------------------
(* What a request asks for                                                 *)

SMOKES == {"smoke-number-picker", "smoke-poker", "smoke-blackjack"}
BLACKJACK_JOBS == {"blackjack-initial-deal", "blackjack-peek", "blackjack-action",
                   "blackjack-showdown"}
\* the job types with a fixture of their own
defaultFixtures == {"poker-initial-deal", "poker-showdown"} \cup BLACKJACK_JOBS
GAME_JOBS == {"poker-draw"} \cup defaultFixtures

\* normalizeJob
wellFormed(body) == body.mode \in {"fixture", "live"}

\* the fields of the payload a game job's script is given
requiredFields(request) ==
  CASE request.jobType = "poker-initial-deal" -> {"gameId"}
    [] request.jobType = "poker-draw"         -> {"gameId", "playerAddress"}
    [] request.jobType = "poker-showdown"     -> {"gameId", "winnerAddress"}
    [] OTHER                                  -> {"sessionId"}

\* FixtureProofProvider: a fixture by name, or by the job's type
fixtureResults(request) ==
  IF request.fixtureName THEN {"resolved", "thrown"}
  ELSE IF request.jobType \in defaultFixtures THEN {"resolved"} ELSE {"thrown"}

\* execa: a prover's command succeeds, or its failure fails the script
proverResults == {"resolved", "thrown"}

\* prove-fixtures.mjs: every case's witness is proved in turn
benchmarkResults == proverResults

\* LiveProofProvider: a blackjack witness is proved, the benchmark proves the
\* fixtures, and any other game is refused
liveResults(request) ==
  IF request.jobType \in BLACKJACK_JOBS /\ request.witness THEN proverResults
  ELSE IF request.jobType = "benchmark-live-proof" THEN benchmarkResults
  ELSE {"thrown"}

providerResults(request) ==
  IF request.jobType \in SMOKES THEN {"resolved"}
  ELSE IF request.mode = "fixture" THEN fixtureResults(request) ELSE liveResults(request)

\* the stage that deploys the engine a job's script calls
engineStage(request) ==
  IF request.jobType \in BLACKJACK_JOBS THEN STAGES - 1 ELSE PokerStage

-----------------------------------------------------------------------------
(* Plausible bugs, defined to show that the properties can fail.           *)

\* SQS messages are deleted when they are received, as files are
receivedAtOnce(j) == "none"

\* a received file stays in the directory
receivedKept(j) == IF queueMode = "file" THEN "visible" ELSE "inflight"

\* the prover's error is not caught by processOneJob
caughtNot == "idle"

-----------------------------------------------------------------------------
(* The operator's side: a task of one call.                                *)

\* a body is read and checked, and its job written
PostJob(c) ==
  /\ unused(c)
  /\ \E body \in Requests :
       IF wellFormed(body)
         THEN /\ job' = [job EXCEPT ![c] = [NoJob EXCEPT !.request = body,
                                                        !.status = "queued"]]
              /\ task' = [task EXCEPT ![c].op = "job", ![c].pc = "enqueue"]
         ELSE respond(c) /\ UNCHANGED job
  /\ UNCHANGED <<chain, manifest, snapshots, disturbed, accepted>>
  /\ UNCHANGED <<queueMode, message, receives, worker, dropped>>

\* the id is enqueued and the request answered; a send-message that fails,
\* before or after it took effect at SQS, leaves the job queued
Enqueue(c) ==
  /\ at(c, "enqueue")
  /\ \/ message' = [message EXCEPT ![c] = "visible"] /\ accepted' = accepted \cup {c}
     \/ /\ queueMode = "sqs"
        /\ UNCHANGED message \/ message' = [message EXCEPT ![c] = "visible"]
        /\ UNCHANGED accepted
  /\ respond(c)
  /\ UNCHANGED <<chain, manifest, snapshots, disturbed>>
  /\ UNCHANGED <<queueMode, job, receives, worker, dropped>>

PostStep(c) == PostJob(c) \/ Enqueue(c)

-----------------------------------------------------------------------------
(* The queue                                                               *)

\* what becomes of a message when it is received
received(j) == IF queueMode = "file" THEN "none" ELSE "inflight"

Receive(j) ==
  /\ worker.pc = "idle"
  /\ message[j] = "visible"
  /\ receives[j] < MaxReceives
  /\ message' = [message EXCEPT ![j] = received(j)]
  /\ receives' = IF queueMode = "sqs" THEN [receives EXCEPT ![j] = @ + 1] ELSE receives
  /\ worker' = [pc |-> "get", job |-> j]
  /\ UNCHANGED <<queueMode, job, dropped>> /\ UNCHANGED protocolVars

\* the redrive policy, when a receive would exceed its count
Redrive(j) ==
  /\ worker.pc = "idle"
  /\ message[j] = "visible"
  /\ receives[j] = MaxReceives
  /\ message' = [message EXCEPT ![j] = "dead"]
  /\ UNCHANGED <<queueMode, job, receives, worker, dropped>> /\ UNCHANGED protocolVars

\* a message that was not deleted in time is visible again, also while the
\* worker still runs its job
VisibilityTimeout(j) ==
  /\ message[j] = "inflight"
  /\ message' = [message EXCEPT ![j] = "visible"]
  /\ UNCHANGED <<queueMode, job, receives, worker, dropped>> /\ UNCHANGED protocolVars

\* ack: nothing for a file; the deletion of an SQS message succeeds, or its
\* command fails, before or after the deletion took effect at SQS
deleted(j) ==
  message' = IF queueMode = "sqs" THEN [message EXCEPT ![j] = "none"] ELSE message

ackFails(j) == queueMode = "sqs" /\ (UNCHANGED message \/ deleted(j))

-----------------------------------------------------------------------------
(* The worker's side: processOneJob                                        *)

workerAt(pc) == worker.pc = pc
inHand(j) == ~workerAt("idle") /\ worker.job = j
then(pc) == worker' = IF pc = "idle" THEN idleWorker ELSE [worker EXCEPT !.pc = pc]

\* the job's file is read, whatever its status is, and marked running;
\* a message without a job is only acknowledged
GetJob ==
  /\ workerAt("get")
  /\ IF job[worker.job].status = None
       THEN then("idle") /\ UNCHANGED job /\ deleted(worker.job)
       ELSE /\ then("execute") /\ updateJob(worker.job, "running", None)
            /\ UNCHANGED message
  /\ UNCHANGED <<queueMode, receives, dropped>> /\ UNCHANGED protocolVars

\* where an error of processJob leads
caught == "catch"

\* provider.execute; the smokes have none
Execute ==
  /\ workerAt("execute")
  /\ \E result \in providerResults(job[worker.job].request) :
       then(IF result = "thrown" THEN caught ELSE "submit")
  /\ UNCHANGED <<queueMode, job, message, receives, dropped>> /\ UNCHANGED protocolVars

\* runFixtureScript: the manifest, the payload's fields and the engine must
\* be there, and the game not beyond this proof; the answer to a proof that
\* lands may still be an error
submitProof(j, request) ==
  \/ then(caught) /\ UNCHANGED chain
  \/ /\ written
     /\ requiredFields(request) \subseteq request.fields
     /\ reaches(manifest.contracts, {engineStage(request)})
     /\ j \notin chain.landed
     /\ chain' = [chain EXCEPT !.landed = @ \cup {j}]
     /\ \E pc \in {"complete", caught} : then(pc)

Submit ==
  LET j == worker.job
      request == job[j].request IN
  /\ workerAt("submit")
  /\ CASE request.jobType \in SMOKES ->
            /\ \E result \in smokeResults :
                 then(IF result = "ok" THEN "complete" ELSE caught)
            /\ UNCHANGED chain
       [] request.jobType \in GAME_JOBS -> submitProof(j, request)
       [] request.jobType = "benchmark-live-proof" ->
            then("complete") /\ UNCHANGED chain
       [] OTHER -> then(caught) /\ UNCHANGED chain
  /\ UNCHANGED <<manifest, snapshots, task, accepted, disturbed>>
  /\ UNCHANGED <<queueMode, job, message, receives, dropped>>

CompleteJob ==
  /\ workerAt("complete")
  /\ updateJob(worker.job, "completed", None)
  /\ then("ack")
  /\ UNCHANGED <<queueMode, message, receives, dropped>> /\ UNCHANGED protocolVars

\* inside the try: a deletion whose command fails fails the completed job,
\* whether the message is gone or not
Ack ==
  /\ workerAt("ack")
  /\ \/ deleted(worker.job) /\ then("idle")
     \/ ackFails(worker.job) /\ then(caught)
  /\ UNCHANGED <<queueMode, job, receives, dropped>> /\ UNCHANGED protocolVars

CatchJobError ==
  /\ workerAt("catch")
  /\ updateJob(worker.job, "failed", "thrown")
  /\ then("ackFailed")
  /\ UNCHANGED <<queueMode, message, receives, dropped>> /\ UNCHANGED protocolVars

\* outside the try: when it fails the worker process ends and is restarted
AckFailed ==
  /\ workerAt("ackFailed")
  /\ deleted(worker.job) \/ ackFails(worker.job)
  /\ then("idle")
  /\ UNCHANGED <<queueMode, job, receives, dropped>> /\ UNCHANGED protocolVars

\* the worker dies; what it had received from the directory is in no queue
crashWorker ==
  /\ ~workerAt("idle")
  /\ worker' = idleWorker
  /\ dropped' = IF queueMode = "file" THEN dropped \cup {worker.job} ELSE dropped
  /\ UNCHANGED <<queueMode, job, message, receives>> /\ UNCHANGED protocolVars

WorkerStep ==
  \/ \E j \in Calls : Receive(j) \/ Redrive(j)
  \/ GetJob \/ Execute \/ Submit \/ CompleteJob \/ Ack \/ CatchJobError \/ AckFailed
=============================================================================
