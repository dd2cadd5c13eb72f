CONSTANTS
  Calls <- MCCalls
  STAGES = 3
  APPROVALS = 1
  None = None
  Requests <- MCRequests
  PokerStage = 2
  MaxReceives = 2
  MaxFaults = 1
SPECIFICATION Spec
INVARIANTS
  NoJobForgotten
  OneDeploymentAtATime
PROPERTIES
  VerdictsStand
  CompletedDeploysUsable
  JobsSettle
  DeploymentsSettle
CHECK_DEADLOCK FALSE
