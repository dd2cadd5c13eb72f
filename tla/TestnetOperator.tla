-------------------------- MODULE TestnetOperator --------------------------
(***************************************************************************)
(* The testnet as it runs: the operator process with its tasks, deployment *)
(* jobs and proof jobs, the worker process, the chain and the queue        *)
(* between them.  Each process can die at any step and is restarted by     *)
(* systemd (Restart=always); the chain restarts empty.                     *)
(***************************************************************************)
EXTENDS ProofJobs, DeploymentJobs

CONSTANT MaxFaults  \* bounds the crashes of a behaviour

VARIABLES
  up,     \* the operator serves requests
  faults  \* crashes so far

vars == <<deployVars, jobVars, up, faults>>

ASSUME OperatorAssumption == MaxFaults \in Nat

Init ==
  /\ ProtocolInit /\ DeployInit /\ JobsInit
  /\ up = TRUE
  /\ faults = 0

-----------------------------------------------------------------------------
\* startOperatorServer: recover first, then serve
Recover ==
  /\ ~up
  /\ up' = TRUE
  /\ recover
  /\ UNCHANGED <<protocolVars, jobVars, faults>>

\* a step of the operator's single process
Serve(c) ==
  /\ up
  /\ \/ (StartTask(c) \/ TaskStep(c)) /\ UNCHANGED <<deployJob, jobVars>>
     \/ DeployStep(c) /\ UNCHANGED jobVars
     \/ PostStep(c) /\ UNCHANGED deployJob
  /\ UNCHANGED <<up, faults>>

Work == WorkerStep /\ UNCHANGED <<deployJob, up, faults>>

Expire(j) == VisibilityTimeout(j) /\ UNCHANGED <<deployJob, up, faults>>

fault == faults < MaxFaults /\ faults' = faults + 1

\* the operator dies with its tasks, and their commands with it; a request
\* cut off gets no answer
CrashOperator ==
  /\ up /\ fault
  /\ up' = FALSE
  /\ task' = [c \in Calls |-> IF at(c, "idle") THEN NoTask ELSE doneTask]
  /\ UNCHANGED <<chain, manifest, snapshots, accepted, disturbed, deployJob, jobVars>>

CrashWorker == fault /\ crashWorker /\ UNCHANGED <<deployJob, up>>

CrashChain ==
  /\ fault
  /\ restartAnvil
  /\ UNCHANGED <<deployJob, jobVars, up>>

Next ==
  \/ \E c \in Calls : Serve(c)
  \/ Recover
  \/ Work
  \/ \E j \in Calls : Expire(j)
  \/ CrashOperator \/ CrashWorker \/ CrashChain

\* every command that is started ends; clients need not call, and processes
\* need not die
Fairness ==
  /\ WF_vars(\E c \in Calls : ~at(c, "idle") /\ Serve(c))
  /\ WF_vars(Recover)
  /\ WF_vars(Work)
  /\ WF_vars(\E j \in Calls : Expire(j))

Spec == Init /\ [][Next]_vars /\ Fairness

-----------------------------------------------------------------------------
(* Types                                                                   *)

ChainState ==
  [nonce : Nat, contracts : SUBSET Contract,
   approvals : SUBSET (Contract \X Nat), landed : SUBSET Calls]

Manifest == [contracts : SUBSET Contract, status : {None, "completed", "failed"}]

Operations == {"deploy", "reset", "seed", "export", "restore", "restoreFrom", "smoke", "job"}
Steps == {"idle", "create", "run", "reset", "fund", "stage", "approve", "threw", "seed",
          "dump", "save", "upload", "fetch", "read", "wipe", "load", "smoke", "enqueue",
          "done"}

Task ==
  [op : Operations \cup {None}, pc : Steps, stage : Nat \ {0}, approval : Nat \ {0},
   contracts : SUBSET Contract, state : ChainState \cup {None}]

Job ==
  [request : Requests \cup {None}, status : JOB_STATUSES \cup {None},
   error : {None, "thrown"}]

\* A state that is about to be loaded is one that was saved.
TypeOK ==
  /\ chain \in ChainState /\ manifest \in Manifest
  /\ snapshots \in [local : ChainState \cup {None}, remote : ChainState \cup {None}]
  /\ task \in [Calls -> Task]
  /\ \A c \in Calls : at(c, "wipe") \/ at(c, "load") => task[c].state \in ChainState
  /\ accepted \subseteq Calls /\ disturbed \subseteq Calls
  /\ deployJob \in [Calls -> DeployJob]
  /\ queueMode \in {"file", "sqs"}
  /\ job \in [Calls -> Job]
  /\ message \in [Calls -> MessagePlaces]
  /\ receives \in [Calls -> Nat]
  /\ worker \in [pc : WorkerSteps, job : Calls \cup {None}]
  /\ workerAt("idle") \/ worker.job \in Calls
  /\ dropped \subseteq Calls
  /\ up \in BOOLEAN /\ faults \in Nat

-----------------------------------------------------------------------------
(* Properties                                                              *)

sent(j) == j \in accepted /\ job[j].status # None

\* An accepted job that has no verdict is still on its way: its message is
\* in the queue, hidden, or in the dead-letter queue, or the worker has it.
\* Only the directory queue loses jobs, those a worker died with
\* (queue.ts:38).
NoJobForgotten ==
  \A j \in Calls :
    sent(j) /\ job[j].status \notin TerminalJob =>
      \/ message[j] # "none"
      \/ inHand(j)
      \/ j \in dropped

\* A verdict a client has read stands, except over SQS: as long as the message
\* is not deleted the job may run again, and a completed job still in the
\* worker's hand turns into a failed one when the deletion is answered with an
\* error, the message gone or not (worker.ts:54).
VerdictsStand ==
  [][\A j \in Calls :
       job[j].status \in TerminalJob /\ job'[j] # job[j] =>
         /\ queueMode = "sqs"
         /\ \/ message[j] # "none"
            \/ /\ inHand(j) /\ job[j].status = "completed"
               /\ job'[j].status = "failed"]_vars

\* Every accepted job gets a verdict, unless its message ends in the
\* dead-letter queue or a worker died with it: the queue is worked off.
unsettled(j) ==
  /\ sent(j) /\ job[j].status \notin TerminalJob
  /\ message[j] # "dead" /\ j \notin dropped
JobsSettle == (\E j \in Calls : unsettled(j)) ~> (\A j \in Calls : ~unsettled(j))

\* Two deployments are active at once only if their requests raced from the
\* look at the directory to the creation of a job (deployment-jobs.ts:127).
OneDeploymentAtATime ==
  \A c, d \in Calls :
    c # d /\ active(c) /\ active(d) => c \in disturbed /\ d \in disturbed

\* A deployment job that completes leaves a manifest whose contracts are all
\* on the chain, with every approval recorded, provided no other actor reset
\* the chain or deployed meanwhile.
CompletedDeploysUsable ==
  [][\A c \in Calls :
       /\ deployJob[c].status # "completed" /\ deployJob'[c].status = "completed"
       /\ c \notin disturbed
       => usable(manifest)]_vars

\* Every deployment job ends, also when the operator dies in between, so
\* that another can be started.
DeploymentsSettle == findActive # {} ~> findActive = {}
=============================================================================
