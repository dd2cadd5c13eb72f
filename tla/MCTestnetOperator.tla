-------------------------- MODULE MCTestnetOperator --------------------------
(***************************************************************************)
(* Two calls of any kind on a network of three deployment stages: two      *)
(* deployments that race, a deployment and a job that needs it, a snapshot *)
(* restored under either.                                                  *)
(***************************************************************************)
EXTENDS TestnetOperator

MCCalls == 1..2

body(jobType, mode, fixtureName, witness, fields) ==
  [jobType |-> jobType, mode |-> mode, fixtureName |-> fixtureName,
   witness |-> witness, fields |-> fields]

\* a malformed body, a smoke, and a game job that can be proved: a job that
\* fails at the provider or at its script does so as one of these may
MCRequests == {
  body("blackjack-action", None, FALSE, FALSE, {}),
  body("smoke-poker", "fixture", FALSE, FALSE, {}),
  body("blackjack-action", "live", FALSE, TRUE, {"sessionId"}) }
=============================================================================
