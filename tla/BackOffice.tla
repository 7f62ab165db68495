----------------------------- MODULE BackOffice ------------------------------
(***************************************************************************)
(* The parts of Back Office that share no state with each other, side by   *)
(* side: the control plane's records, the starting of agents, and the way  *)
(* from scans to the published dashboard.  A behaviour exercises one of    *)
(* them (focus) and the others rest: every reachable state of each part is *)
(* reached, without their product.                                         *)
(***************************************************************************)
EXTENDS Routines, AgentRegistry, AgentTokens, AuditLog, BudgetGate, Adapters, Router,
        ScanRunner, AuditPipeline, RegressionRunner, SyncEngine, Figures

VARIABLE focus

vars == <<focus, routineVars, registryVars, tokenVars, auditVars, gateVars, adapterVars, routerVars,
          scanVars, pipelineVars, regressionVars, syncVars, figure>>

Parts == {"routines", "agents", "tokens", "audit", "gate", "adapters", "router",
          "scans", "pipeline", "regression", "sync", "figures"}

Init ==
  /\ focus \in Parts
  /\ RoutinesInit /\ RegistryInit /\ TokensInit /\ AuditInit /\ GateInit /\ AdaptersInit /\ RouterInit
  /\ ScanInit /\ PipelineInit /\ RegressionInit /\ SyncInit /\ FiguresInit

Rests(part) ==
  \/ part = "routines"   /\ UNCHANGED routineVars
  \/ part = "agents"     /\ UNCHANGED registryVars
  \/ part = "tokens"     /\ UNCHANGED tokenVars
  \/ part = "audit"      /\ UNCHANGED auditVars
  \/ part = "gate"       /\ UNCHANGED gateVars
  \/ part = "adapters"   /\ UNCHANGED adapterVars
  \/ part = "router"     /\ UNCHANGED routerVars
  \/ part = "scans"      /\ UNCHANGED scanVars
  \/ part = "pipeline"   /\ UNCHANGED pipelineVars
  \/ part = "regression" /\ UNCHANGED regressionVars
  \/ part = "sync"       /\ UNCHANGED syncVars
  \/ part = "figures"    /\ UNCHANGED figure

Next ==
  /\ UNCHANGED focus
  /\ \A part \in Parts \ {focus} : Rests(part)
  /\ \/ focus = "routines"   /\ RoutinesNext
     \/ focus = "agents"     /\ RegistryNext
     \/ focus = "tokens"     /\ TokensNext
     \/ focus = "audit"      /\ AuditNext
     \/ focus = "gate"       /\ GateNext
     \/ focus = "adapters"   /\ AdaptersNext
     \/ focus = "router"     /\ RouterNext
     \/ focus = "scans"      /\ ScanNext
     \/ focus = "pipeline"   /\ PipelineNext
     \/ focus = "regression" /\ RegressionNext
     \/ focus = "sync"       /\ SyncNext
     \/ focus = "figures"    /\ FiguresNext

Spec == Init /\ [][Next]_vars

=============================================================================
