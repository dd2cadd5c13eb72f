--------------------------- MODULE DeploymentJobs ---------------------------
(***************************************************************************)
(* Deployment jobs of the operator (src/ops/aws-testnet/src/               *)
(* deployment-jobs.ts): POST /deploy and /reset look for an active job,    *)
(* create one and run it in the background; a restart of the operator      *)
(* fails what it left active.  A job has the number of the call that       *)
(* started it.                                                             *)
(***************************************************************************)
EXTENDS TestnetProtocol

VARIABLE deployJob  \* the files of the deploy-jobs directory

deployVars == <<protocolVars, deployJob>>

ACTIVE_STATUSES == {"queued", "running"}
Terminal == {"completed", "failed"}

NoDeployJob == [operation |-> None, status |-> None,
                deploymentStatus |-> None, error |-> None]

DeployJob ==
  [operation : {None, "deploy", "reset"}, status : {None} \cup ACTIVE_STATUSES \cup Terminal,
   deploymentStatus : {None, "completed", "failed"},
   error : {None, "restarted", "thrown", "stage"}]

DeployInit == deployJob = [c \in Calls |-> NoDeployJob]

active(c) == deployJob[c].status \in ACTIVE_STATUSES

update(c, job) == deployJob' = [deployJob EXCEPT ![c] = job]

-----------------------------------------------------------------------------
(* Plausible bugs, defined to show that the properties can fail.           *)

\* a deployment that has been accepted but not begun does not count
findActiveRunning == {d \in Calls : deployJob[d].status = "running"}

\* queued jobs are left to be run again
recoverRunning ==
  deployJob' = [c \in Calls |->
    IF deployJob[c].status = "running"
      THEN [deployJob[c] EXCEPT !.status = "failed", !.error = "restarted"]
      ELSE deployJob[c]]

-----------------------------------------------------------------------------
(* start *)

\* findActive: any job of the directory that is queued or running
findActive == {d \in Calls : active(d)}

\* the look at the directory: a conflict, or the request goes on
FindActive(c) ==
  /\ unused(c)
  /\ \E operation \in {"deploy", "reset"} :
       IF findActive # {}
         THEN respond(c)
         ELSE task' = [task EXCEPT ![c].op = operation, ![c].pc = "create"]
  /\ UNCHANGED <<chain, manifest, snapshots, disturbed, accepted, deployJob>>

\* requests that have looked but not yet created race with this one
racing(c) == {d \in Calls \ {c} : Deploying(d) /\ at(d, "create")}

\* the job file; the run is queued as a microtask and the answer is 202
Create(c) ==
  /\ at(c, "create")
  /\ update(c, [NoDeployJob EXCEPT !.operation = task[c].op, !.status = "queued"])
  /\ goTo(c, "run")
  /\ accepted' = accepted \cup {c}
  /\ disturbed' = disturbed \cup
       IF racing(c) = {} THEN {} ELSE racing(c) \cup {c}
  /\ UNCHANGED <<chain, manifest, snapshots>>

-----------------------------------------------------------------------------
(* run *)

Run(c) ==
  /\ at(c, "run")
  /\ update(c, [deployJob[c] EXCEPT !.status = "running", !.error = None])
  /\ goTo(c, IF task[c].op = "deploy" THEN "fund" ELSE "reset")
  /\ UNCHANGED <<chain, manifest, snapshots, accepted, disturbed>>

Complete(c) ==
  /\ Seeded(c) /\ Deploying(c)
  /\ update(c, [deployJob[c] EXCEPT !.status = "completed",
                                    !.deploymentStatus = "completed"])
  /\ task' = [task EXCEPT ![c] = doneTask]
  /\ UNCHANGED <<chain, manifest, snapshots, accepted, disturbed>>

\* what manifestPatch adds to a failed job: the status of the manifest on
\* disk, whichever deployment wrote it, and its error in place of the job's
\* own, which is thereby lost when that manifest has none
manifestPatch(job) ==
  IF ~written THEN job
  ELSE [job EXCEPT !.deploymentStatus = manifest.status,
                   !.error = IF manifest.status = "failed" THEN "stage" ELSE None]

CatchError(c) ==
  /\ at(c, "threw")
  /\ update(c, manifestPatch([deployJob[c] EXCEPT !.status = "failed",
                                                  !.error = "thrown"]))
  /\ task' = [task EXCEPT ![c] = doneTask]
  /\ UNCHANGED <<chain, manifest, snapshots, accepted, disturbed>>

DeployStep(c) ==
  \/ FindActive(c) \/ Create(c) \/ Run(c) \/ Complete(c) \/ CatchError(c)

-----------------------------------------------------------------------------
(* recover *)

\* the jobs the last process left active are failed, before requests are
\* served
recover ==
  deployJob' = [c \in Calls |->
    IF active(c) THEN [deployJob[c] EXCEPT !.status = "failed", !.error = "restarted"]
                 ELSE deployJob[c]]
=============================================================================
