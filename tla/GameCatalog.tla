---------------------------- MODULE GameCatalog ----------------------------
(***************************************************************************)
(* The on-chain registry of game modules (src/src/GameCatalog.sol).  A     *)
(* module pairs one controller with one engine; its lifecycle status gates *)
(* who may launch sessions and who may still settle them.  modules[i] is   *)
(* the record of module id i, so nextModuleId is Len(modules) + 1; the two *)
(* index mappings hold 0 where the contract's mappings were never written. *)
(* Metadata that no gate reads (mode, verifier, configHash) is left out.   *)
(***************************************************************************)
EXTENDS Naturals, Sequences

CONSTANTS Controllers,   \* addresses that may appear as a module's controller
          Engines,       \* addresses that may appear as a module's engine
          EngineTypes,   \* engine type tags
          RewardBps,     \* the developerRewardBps values governance uses
          MaxModules     \* bound: modules registered in one behaviour

ASSUME CatalogAssumption == RewardBps \subseteq 0..10000 /\ MaxModules \in Nat

VARIABLES modules, controllerModuleIds, engineModuleIds

vars == <<modules, controllerModuleIds, engineModuleIds>>

ModuleStatus == {"LIVE", "RETIRED", "DISABLED"}

Module == [controller: Controllers, engine: Engines, engineType: EngineTypes,
           developerRewardBps: RewardBps, status: ModuleStatus]

nextModuleId == Len(modules) + 1

-----------------------------------------------------------------------------
(* The views every other contract gates on.                                *)

isLaunchableController(c) ==
  /\ controllerModuleIds[c] # 0
  /\ modules[controllerModuleIds[c]].status = "LIVE"

isSettlableController(c) ==
  /\ controllerModuleIds[c] # 0
  /\ modules[controllerModuleIds[c]].status \in {"LIVE", "RETIRED"}

isSettlableEngine(e) ==
  /\ engineModuleIds[e] # 0
  /\ modules[engineModuleIds[e]].status \in {"LIVE", "RETIRED"}

isAuthorizedControllerForEngine(c, e) ==
  /\ controllerModuleIds[c] # 0
  /\ modules[controllerModuleIds[c]].engine = e
  /\ modules[controllerModuleIds[c]].status \in {"LIVE", "RETIRED"}

getModuleByController(c) == modules[controllerModuleIds[c]]

-----------------------------------------------------------------------------
(* Plausible bugs, defined to show that the properties can fail.           *)

\* the engine index is written with the count before the increment
registerModuleStaleId(moduleData) ==
  /\ Len(modules) < MaxModules
  /\ controllerModuleIds[moduleData.controller] = 0
  /\ engineModuleIds[moduleData.engine] = 0
  /\ modules' = Append(modules, moduleData)
  /\ controllerModuleIds' =
       [controllerModuleIds EXCEPT ![moduleData.controller] = nextModuleId]
  /\ engineModuleIds' =
       [engineModuleIds EXCEPT ![moduleData.engine] = Len(modules)]

-----------------------------------------------------------------------------
Init ==
  /\ modules = <<>>
  /\ controllerModuleIds = [c \in Controllers |-> 0]
  /\ engineModuleIds = [e \in Engines |-> 0]

\* REGISTRAR_ROLE; the status comes with the registration data.
registerModule(moduleData) ==
  /\ Len(modules) < MaxModules
  /\ controllerModuleIds[moduleData.controller] = 0
  /\ engineModuleIds[moduleData.engine] = 0
  /\ modules' = Append(modules, moduleData)
  /\ controllerModuleIds' =
       [controllerModuleIds EXCEPT ![moduleData.controller] = nextModuleId]
  /\ engineModuleIds' =
       [engineModuleIds EXCEPT ![moduleData.engine] = nextModuleId]

\* DEFAULT_ADMIN_ROLE; any status may follow any other.
setModuleStatus(moduleId, status) ==
  /\ moduleId \in DOMAIN modules
  /\ modules' = [modules EXCEPT ![moduleId].status = status]
  /\ UNCHANGED <<controllerModuleIds, engineModuleIds>>

Next ==
  \/ \E moduleData \in Module : registerModule(moduleData)
  \/ \E moduleId \in 1..MaxModules, status \in ModuleStatus :
       setModuleStatus(moduleId, status)

Spec == Init /\ [][Next]_vars

-----------------------------------------------------------------------------
\* The types of the registry and its two indexes.
TypeOK ==
  /\ modules \in Seq(Module)
  /\ controllerModuleIds \in [Controllers -> Nat]
  /\ engineModuleIds \in [Engines -> Nat]

\* The indexes and the records point at each other: what the contract keeps
\* in three mappings is one relation.
IndexesAgree ==
  /\ \A c \in Controllers : controllerModuleIds[c] # 0 =>
       /\ controllerModuleIds[c] \in DOMAIN modules
       /\ modules[controllerModuleIds[c]].controller = c
  /\ \A e \in Engines : engineModuleIds[e] # 0 =>
       /\ engineModuleIds[e] \in DOMAIN modules
       /\ modules[engineModuleIds[e]].engine = e
  /\ \A i \in DOMAIN modules :
       /\ controllerModuleIds[modules[i].controller] = i
       /\ engineModuleIds[modules[i].engine] = i

\* Engines look their module up by engine, controllers and settlement by
\* controller.  An engine's one authorized controller sees the same gate the
\* engine's randomness callback sees, so a session a controller can open is
\* never one whose engine cannot resolve it, and no second controller can
\* drive the same engine.
GatesAgree ==
  /\ \A c \in Controllers, e \in Engines :
       isAuthorizedControllerForEngine(c, e) =>
         (isSettlableController(c) <=> isSettlableEngine(e))
  /\ \A c, d \in Controllers, e \in Engines :
       isAuthorizedControllerForEngine(c, e)
         /\ isAuthorizedControllerForEngine(d, e) => c = d

\* A registered module keeps its controller, engine, type and reward rate for
\* ever: sessions opened under a module settle under the terms they started
\* with, whatever governance does to its status.
ModuleTermsFixed ==
  [][ \A i \in DOMAIN modules :
        /\ i \in DOMAIN modules'
        /\ modules'[i] = [modules[i] EXCEPT !.status = modules'[i].status]
        /\ controllerModuleIds'[modules[i].controller] = i ]_vars

=============================================================================
