-------------------- MODULE OperationCoordinationProofs --------------------
(***************************************************************************)
(* Theorems about OperationCoordination for any finite set of units, and   *)
(* that it implements EditFreeze.                                          *)
(***************************************************************************)
EXTENDS EditFreezeRefinement, TLAPS

USE DEF NORMAL, DATABASE_UPDATE, MAINTENANCE, FORCE_RECONCILIATION, UNKNOWN, ABSENT, DOWN,
        OperationModes, CoordinatedModes, ReconcileSteps, ActionSteps

(***************************************************************************)
(* Every variable keeps its type: no step stores a mode, a hook step or a  *)
(* unit that the code does not know.                                       *)
(***************************************************************************)
\* The variables have their types before the first hook.
LEMMA InitTyped == Init => TypeOK
<1> SUFFICES ASSUME Init PROVE TypeOK
  OBVIOUS
<1>1. dirty \in [Units -> BOOLEAN]
  <2>1. dirty = [u \in Units |-> u \in joined]
    BY DEF Init
  <2>2. \A u \in Units : dirty[u] \in BOOLEAN
    <3> TAKE u \in Units
    <3>1. CASE u \in joined
      BY <2>1, <3>1
    <3>2. CASE u \notin joined
      BY <2>1, <3>2
    <3>3. QED
      BY <3>1, <3>2
  <2>3. QED
    BY <2>1, <2>2, Zenon
<1>2. CASE unitMode = [u \in Units |-> ABSENT] /\ appMode = NORMAL /\ dbReadOnly = FALSE
  BY <1>1, <1>2 DEF Init, TypeOK
<1>3. CASE /\ appMode = UNKNOWN
           /\ dbReadOnly \in BOOLEAN
           /\ unitMode \in [Units -> {NORMAL, MAINTENANCE, UNKNOWN}]
  BY <1>1, <1>3 DEF Init, TypeOK
<1>4. QED
  BY <1>2, <1>3 DEF Init

\* Every step of a reconciliation keeps them.
LEMMA ReconcileTyped ==
    ASSUME TypeOK, NEW u \in Units, Reconcile(u)
    PROVE  TypeOK'
<1> USE DEF TypeOK, Goto, Abort, Announce, Acknowledge, Render,
            peerVars, workVars, hookVars
<1>1. CASE BeginReconciliation(u)
  BY <1>1 DEF BeginReconciliation
<1>2. CASE EndEarly(u)
  BY <1>2 DEF EndEarly
<1>3. CASE StopWorkload(u) \/ StopWorkloadFails(u)
  BY <1>3 DEF StopWorkload, StopWorkloadFails
<1>4. CASE ConfigurationOk(u)
  BY <1>4 DEF ConfigurationOk
<1>5. CASE ConfigurationFails(u)
  BY <1>5 DEF ConfigurationFails
<1>6. CASE ServicesReconciled(u)
  BY <1>6 DEF ServicesReconciled, AllowsJobWorkers
<1>7. CASE ServicesUnreachable(u) \/ ServicesFail(u)
  BY <1>7 DEF ServicesUnreachable, ServicesFail
<1>8. CASE NothingToComplete(u) \/ WaitForPeers(u) \/ BarrierPassed(u)
  BY <1>8 DEF NothingToComplete, WaitForPeers, BarrierPassed
<1>9. CASE SchemaUpdated(u) \/ SchemaUpdateBlocked(u) \/ HookError(u)
  BY <1>9 DEF SchemaUpdated, SchemaUpdateBlocked, HookError
<1>10. CASE FlushAcknowledgement(u)
  BY <1>10 DEF FlushAcknowledgement
<1>11. CASE FlushCompletion(u)
  BY <1>11 DEF FlushCompletion
<1>12. CASE CompletionRefused(u)
  BY <1>12 DEF CompletionRefused
<1>13. QED
  BY <1>1, <1>2, <1>3, <1>4, <1>5, <1>6, <1>7, <1>8, <1>9, <1>10, <1>11, <1>12 DEF Reconcile

\* So does every step of an operator's action.
LEMMA ActTyped ==
    ASSUME TypeOK, NEW u \in Units, Act(u)
    PROVE  TypeOK'
<1> USE DEF TypeOK, Goto, Announce, peerVars, workVars, hookVars
<1>1. CASE RequestDatabaseUpdate(u) \/ RequestForceReconciliation(u)
  BY <1>1 DEF RequestDatabaseUpdate, RequestForceReconciliation
<1>2. CASE RequestMaintenance(u) \/ RequestMaintenanceEnd(u)
  BY <1>2 DEF RequestMaintenance, RequestMaintenanceEnd
<1>3. CASE SetReadOnly(u) \/ SetReadOnlyFails(u)
  BY <1>3 DEF SetReadOnly, SetReadOnlyFails
<1>4. CASE FlushRequest(u)
  BY <1>4 DEF FlushRequest
<1>5. QED
  BY <1>1, <1>2, <1>3, <1>4 DEF Act

\* So do leadership, pods and units that come and go.
LEMMA EnvironmentTyped ==
    ASSUME TypeOK, NEW u \in Units, Environment(u)
    PROVE  TypeOK'
<1> USE DEF TypeOK, Goto, Abort, peerVars, workVars, hookVars
<1>1. CASE LeaderElected(u) \/ PodRestart(u)
  BY <1>1 DEF LeaderElected, PodRestart
<1>2. CASE UnitJoins(u)
  BY <1>2 DEF UnitJoins
<1>3. CASE UnitLeaves(u)
  BY <1>3 DEF UnitLeaves
<1>4. QED
  BY <1>1, <1>2, <1>3 DEF Environment

\* No step of any unit stores a mode, a hook step or a unit that the code does not know.
THEOREM TypeCorrect == Spec => []TypeOK
<1>1. TypeOK /\ [Next]_vars => TypeOK'
  <2> SUFFICES ASSUME TypeOK, [Next]_vars PROVE TypeOK'
    OBVIOUS
  <2>1. CASE UNCHANGED vars
    BY <2>1 DEF vars, TypeOK
  <2>2. CASE Next
    BY <2>2, ReconcileTyped, ActTyped, EnvironmentTyped DEF Next
  <2>3. QED
    BY <2>1, <2>2
<1>2. QED
  BY InitTyped, <1>1, PTL DEF Spec

(***************************************************************************)
(* The inductive invariant.  The barrier is sound because an               *)
(* acknowledgement of a coordinated operation outlives neither the         *)
(* operation nor, once a new one starts, the hooks of the old one: the     *)
(* properties alone are not inductive, as they say nothing of what hooks   *)
(* in flight still hold of a mode that has changed.  No unit joins and     *)
(* leadership moves between idle units only.                               *)
(***************************************************************************)
StableApplication ==
    /\ ~Has("scale-up")
    /\ ~Has("lagging-membership")
    /\ ~Has("update-loss")
    /\ ~Has("mid-hook-gain")

LeaderSteps == {"restoring", "updating", "completing"} \union ActionSteps

Reconciles(u) == pc[u] \in ReconcileSteps

\* The leader is a member, and a unit that left runs nothing and acknowledges nothing.
Membership ==
    /\ leader \in joined
    /\ \A u \in Units \ joined : pc[u] = "idle" /\ site[u] = DOWN /\ unitMode[u] = ABSENT

\* What only a leader does, the leader does, and its hooks never hold a stale mode.
LeaderActs ==
    /\ \A u \in Units : pc[u] \in LeaderSteps => u = leader
    /\ Reconciles(leader) => snap[leader] = appMode

\* Once rendered, the settings of the mode a hook applies are what a running site serves.
SettingsRendered ==
    \A u \in Units : pc[u] \in ReconcileSteps \ {"configuring"} => site[u] \in {DOWN, snap[u]}

\* A unit that acknowledged the operation in progress is bound by it, in its hooks as well.
AcknowledgedBinds ==
    \A u \in Units : appMode \in CoordinatedModes /\ unitMode[u] = appMode =>
        /\ site[u] \in {DOWN, appMode}
        /\ Reconciles(u) => snap[u] = appMode

\* A hook that still applies an operation that is over had acknowledged it before.
StaleModesAcknowledged ==
    \A u \in Units : Reconciles(u) /\ snap[u] \in CoordinatedModes /\ snap[u] # appMode =>
        unitMode[u] = snap[u]

\* Past the barrier, every other member has acknowledged.
BarrierHolds ==
    \A u \in Units : pc[u] \in {"updating", "completing"} =>
        /\ snap[u] \in CoordinatedModes
        /\ pc[u] = "updating" => snap[u] = DATABASE_UPDATE
        /\ \A v \in joined \ {u} : unitMode[v] = snap[u]

\* A coordinated operation is published when nobody acknowledges an earlier one of its
\* kind, or again over itself; nothing else is published while one is in progress.
RequestsAreClean ==
    \A u \in Units : pc[u] \in ActionSteps =>
        IF snap[u] \in CoordinatedModes
        THEN \/ appMode = NORMAL /\ \A v \in joined : unitMode[v] # snap[u]
             \/ appMode = DATABASE_UPDATE /\ snap[u] = DATABASE_UPDATE
        ELSE appMode \notin CoordinatedModes

\* A unit that acknowledged the forced reconciliation in progress completed it.
ForcedRecorded ==
    appMode = FORCE_RECONCILIATION =>
        \A u \in Units : unitMode[u] = FORCE_RECONCILIATION => u \in forced

\* Maintenance is about to be published over a protected database, its end over a
\* writable one.
RequestsAreProtected ==
    \A u \in Units :
        /\ pc[u] = "protecting" => snap[u] \in {NORMAL, MAINTENANCE}
        /\ pc[u] = "requesting" /\ snap[u] = MAINTENANCE => dbReadOnly
        /\ pc[u] = "requesting" /\ snap[u] = NORMAL => ~dbReadOnly

ProtocolInv ==
    /\ Membership
    /\ LeaderActs
    /\ SettingsRendered
    /\ AcknowledgedBinds
    /\ StaleModesAcknowledged
    /\ BarrierHolds
    /\ RequestsAreClean
    /\ ForcedRecorded
    /\ RequestsAreProtected

IndInv == TypeOK /\ ProtocolInv

\* A step of a hook preserves the invariant.
LEMMA ReconcileProtocol ==
    ASSUME StableApplication, IndInv, NEW u \in Units, Reconcile(u)
    PROVE  ProtocolInv'
<1> USE DEF StableApplication, IndInv, TypeOK, ProtocolInv, Membership, LeaderActs, SettingsRendered, AcknowledgedBinds,
            StaleModesAcknowledged, BarrierHolds, RequestsAreClean, ForcedRecorded,
            RequestsAreProtected,
            LeaderSteps, Reconciles, Goto, Abort, peerVars, workVars, hookVars
<1>1. CASE BeginReconciliation(u)
  BY <1>1 DEF BeginReconciliation
<1>2. CASE EndEarly(u)
  BY <1>2 DEF EndEarly
<1>3. CASE StopWorkload(u) \/ StopWorkloadFails(u)
  BY <1>3 DEF StopWorkload, StopWorkloadFails
<1>4. CASE ConfigurationOk(u)
  BY <1>4 DEF ConfigurationOk, Render
<1>5. CASE ConfigurationFails(u)
  BY <1>5 DEF ConfigurationFails, Render
<1>6. CASE ServicesReconciled(u)
  BY <1>6 DEF ServicesReconciled
<1>7. CASE ServicesUnreachable(u) \/ ServicesFail(u)
  BY <1>7 DEF ServicesUnreachable, ServicesFail
<1>8. CASE NothingToComplete(u)
  BY <1>8 DEF NothingToComplete
<1>9. CASE WaitForPeers(u)
  BY <1>9 DEF WaitForPeers
<1>10. CASE BarrierPassed(u)
  BY <1>10 DEF BarrierPassed, Peers, AllPeersApplied
<1>11. CASE SchemaUpdated(u)
  BY <1>11 DEF SchemaUpdated
<1>12. CASE SchemaUpdateBlocked(u)
  BY <1>12 DEF SchemaUpdateBlocked
<1>13. CASE HookError(u)
  BY <1>13 DEF HookError
<1>14. CASE FlushAcknowledgement(u)
  BY <1>14 DEF FlushAcknowledgement, Acknowledge
<1>15. CASE FlushCompletion(u)
  BY <1>15 DEF FlushCompletion, Acknowledge
<1>16. CASE CompletionRefused(u)
  BY <1>16 DEF CompletionRefused
<1>17. QED
  BY <1>1, <1>2, <1>3, <1>4, <1>5, <1>6, <1>7, <1>8, <1>9, <1>10, <1>11, <1>12, <1>13, <1>14, <1>15, <1>16 DEF Reconcile

\* So does a step of an operator's action.
LEMMA ActProtocol ==
    ASSUME StableApplication, IndInv, NEW u \in Units, Act(u)
    PROVE  ProtocolInv'
<1> USE DEF StableApplication, IndInv, TypeOK, ProtocolInv, Membership, LeaderActs, SettingsRendered, AcknowledgedBinds,
            StaleModesAcknowledged, BarrierHolds, RequestsAreClean, ForcedRecorded,
            RequestsAreProtected,
            LeaderSteps, Reconciles, Goto, Abort, peerVars, workVars, hookVars
<1>1. CASE RequestDatabaseUpdate(u)
  BY <1>1 DEF RequestDatabaseUpdate, UnitsInNormalOperation, Actable
<1>2. CASE RequestForceReconciliation(u)
  BY <1>2 DEF RequestForceReconciliation, UnitsInNormalOperation, Actable
<1>3. CASE RequestMaintenance(u)
  BY <1>3 DEF RequestMaintenance, Actable
<1>4. CASE RequestMaintenanceEnd(u)
  BY <1>4 DEF RequestMaintenanceEnd, Actable
<1>5. CASE SetReadOnly(u)
  <2>1. CASE snap[u] = MAINTENANCE
    <3>1. dbReadOnly'
      BY <1>5, <2>1 DEF SetReadOnly
    <3>2. QED
      BY <1>5, <2>1, <3>1 DEF SetReadOnly
  <2>2. CASE snap[u] # MAINTENANCE
    <3>1. ~dbReadOnly'
      BY <1>5, <2>2 DEF SetReadOnly
    <3>2. QED
      BY <1>5, <2>2, <3>1 DEF SetReadOnly
  <2>3. QED
    BY <2>1, <2>2
<1>6. CASE SetReadOnlyFails(u)
  BY <1>6 DEF SetReadOnlyFails
<1>7. CASE FlushRequest(u)
  BY <1>7 DEF FlushRequest
<1>8. QED
  BY <1>1, <1>2, <1>3, <1>4, <1>5, <1>6, <1>7 DEF Act

\* So does what Juju and Kubernetes do to the units.
LEMMA EnvironmentProtocol ==
    ASSUME StableApplication, IndInv, NEW u \in Units, Environment(u)
    PROVE  ProtocolInv'
<1> USE DEF StableApplication, IndInv, TypeOK, ProtocolInv, Membership, LeaderActs, SettingsRendered, AcknowledgedBinds,
            StaleModesAcknowledged, BarrierHolds, RequestsAreClean, ForcedRecorded,
            RequestsAreProtected,
            LeaderSteps, Reconciles, Goto, Abort, peerVars, workVars, hookVars
<1>1. CASE LeaderElected(u)
  BY <1>1 DEF LeaderElected
<1>2. CASE PodRestart(u)
  BY <1>2 DEF PodRestart
<1>3. CASE UnitJoins(u)
  BY <1>3 DEF UnitJoins
<1>4. CASE UnitLeaves(u)
  BY <1>4 DEF UnitLeaves
<1>5. QED
  BY <1>1, <1>2, <1>3, <1>4 DEF Environment

\* The invariant holds of a deployed or refreshed application.
LEMMA InitProtocol ==
    ASSUME StableApplication, Init
    PROVE  IndInv
<1>1. TypeOK
  BY InitTyped
<1>2. ProtocolInv
  BY <1>1 DEF Init, StableApplication, ProtocolInv, TypeOK, Membership, LeaderActs,
              SettingsRendered, AcknowledgedBinds, StaleModesAcknowledged, BarrierHolds,
              RequestsAreClean, ForcedRecorded, RequestsAreProtected, LeaderSteps, Reconciles
<1>3. QED
  BY <1>1, <1>2 DEF IndInv

\* It speaks of nothing but the variables of the protocol.
LEMMA StutterProtocol ==
    ASSUME IndInv, UNCHANGED vars
    PROVE  IndInv'
BY DEF vars, IndInv, TypeOK, ProtocolInv, Membership, LeaderActs, SettingsRendered,
       AcknowledgedBinds, StaleModesAcknowledged, BarrierHolds, RequestsAreClean,
       ForcedRecorded, RequestsAreProtected, Reconciles

\* Every step of a stable application preserves it.
LEMMA NextProtocol ==
    ASSUME StableApplication, IndInv, [Next]_vars
    PROVE  IndInv'
<1>1. CASE UNCHANGED vars
  BY <1>1, StutterProtocol
<1>2. CASE Next
  <2>1. TypeOK'
    BY <1>2, ReconcileTyped, ActTyped, EnvironmentTyped DEF Next, IndInv
  <2>2. ProtocolInv'
    BY <1>2, ReconcileProtocol, ActProtocol, EnvironmentProtocol DEF Next
  <2>3. QED
    BY <2>1, <2>2 DEF IndInv
<1>3. QED
  BY <1>1, <1>2

\* The invariant holds of every application that stays stable.
THEOREM ProtocolInvariant ==
    ASSUME StableApplication
    PROVE  Spec => []IndInv
<1>1. Init => IndInv
  BY InitProtocol
<1>2. IndInv /\ [Next]_vars => IndInv'
  BY NextProtocol
<1>3. QED
  BY <1>1, <1>2, PTL DEF Spec

----------------------------------------------------------------------------
(* What the invariant is for.                                              *)

\* No unit serves settings that accept edits while the leader runs update_database_schema,
\* whatever hooks fail, pods restart, units leave and leaders change.
THEOREM UpdateIsQuiesced ==
    ASSUME StableApplication
    PROVE  Spec => []SchemaUpdateQuiesced
<1>1. IndInv => SchemaUpdateQuiesced
  <2> SUFFICES ASSUME IndInv, NEW u \in Units, NEW v \in Units, pc[u] = "updating"
               PROVE  site[v] \in {DOWN, DATABASE_UPDATE}
    BY DEF SchemaUpdateQuiesced
  <2> USE DEF IndInv, ProtocolInv
  <2>1. u = leader /\ snap[u] = DATABASE_UPDATE /\ appMode = DATABASE_UPDATE
    BY DEF LeaderActs, LeaderSteps, Reconciles, BarrierHolds
  <2>2. CASE v = u
    BY <2>1, <2>2 DEF SettingsRendered
  <2>3. CASE v \in joined \ {u}
    BY <2>1, <2>3 DEF BarrierHolds, AcknowledgedBinds
  <2>4. CASE v \notin joined
    BY <2>4 DEF Membership
  <2>5. QED
    BY <2>2, <2>3, <2>4
<1>2. QED
  BY <1>1, ProtocolInvariant, PTL

\* The application stays in database-update mode under a schema update that runs.
THEOREM UpdateIsProtected ==
    ASSUME StableApplication
    PROVE  Spec => []UpdateProtected
<1>1. IndInv => UpdateProtected
  BY DEF IndInv, ProtocolInv, UpdateProtected, LeaderActs, LeaderSteps, Reconciles, BarrierHolds
<1>2. QED
  BY <1>1, ProtocolInvariant, PTL

\* An acknowledged database update is applied for as long as it is requested.
THEOREM AcknowledgedUpdateHolds ==
    ASSUME StableApplication
    PROVE  Spec => []AcknowledgedUpdateIsApplied
<1>1. IndInv => AcknowledgedUpdateIsApplied
  BY DEF IndInv, ProtocolInv, AcknowledgedUpdateIsApplied, AcknowledgedBinds
<1>2. QED
  BY <1>1, ProtocolInvariant, PTL

\* Only the leader's flushes change the requested mode.
LEMMA ModeChanges ==
    ASSUME IndInv, NEW u \in Units, Reconcile(u) \/ Act(u) \/ Environment(u), appMode' # appMode
    PROVE  FlushCompletion(u) \/ FlushRequest(u)
<1> USE DEF peerVars
<1>1. CASE Reconcile(u)
  BY <1>1 DEF Reconcile, BeginReconciliation, EndEarly, StopWorkload, StopWorkloadFails,
              ConfigurationOk, ConfigurationFails, ServicesReconciled, ServicesUnreachable,
              ServicesFail, NothingToComplete, WaitForPeers, BarrierPassed, SchemaUpdated, SchemaUpdateBlocked, HookError,
              FlushAcknowledgement, CompletionRefused
<1>2. CASE Act(u)
  BY <1>2 DEF Act, RequestDatabaseUpdate, RequestForceReconciliation, RequestMaintenance,
              RequestMaintenanceEnd, SetReadOnly, SetReadOnlyFails
<1>3. CASE Environment(u)
  BY <1>3 DEF Environment, LeaderElected, PodRestart, UnitJoins, UnitLeaves
<1>4. QED
  BY <1>1, <1>2, <1>3

\* Forced reconciliation ends only when every unit completed one for this request.
THEOREM ForcedIsComplete ==
    ASSUME StableApplication
    PROVE  Spec => ForcedReconciliationIsComplete
<1>1. IndInv /\ [Next]_vars => [CompletesForced]_vars
  <2> SUFFICES ASSUME IndInv, NEW u \in Units,
                      Reconcile(u) \/ Act(u) \/ Environment(u),
                      appMode = FORCE_RECONCILIATION, appMode' = NORMAL,
                      NEW v \in joined
               PROVE  v \in forced'
    BY DEF Next, CompletesForced
  <2> USE DEF IndInv, ProtocolInv
  <2>1. CASE FlushCompletion(u)
    <3>1. snap[u] = FORCE_RECONCILIATION
      BY <2>1 DEF FlushCompletion, LeaderActs, Reconciles
    <3>2. v = u \/ v \in forced
      BY <2>1, <3>1 DEF FlushCompletion, BarrierHolds, ForcedRecorded, TypeOK
    <3>3. QED
      BY <2>1, <3>1, <3>2 DEF FlushCompletion, Acknowledge
  <2>2. CASE FlushRequest(u)
    BY <2>2 DEF FlushRequest, RequestsAreClean
  <2>3. QED
    BY <2>1, <2>2, ModeChanges
<1>2. QED
  BY <1>1, ProtocolInvariant, PTL DEF Spec, ForcedReconciliationIsComplete

\* Maintenance is published over a protected database, and ends over a writable one.
THEOREM ProtectionIsFirst ==
    ASSUME StableApplication
    PROVE  Spec => ProtectionPrecedesIntent
<1> DEFINE Step == /\ appMode # MAINTENANCE /\ appMode' = MAINTENANCE => dbReadOnly
                   /\ appMode = MAINTENANCE /\ appMode' # MAINTENANCE => ~dbReadOnly
<1>1. IndInv /\ [Next]_vars => [Step]_vars
  <2> SUFFICES ASSUME IndInv, NEW u \in Units,
                      Reconcile(u) \/ Act(u) \/ Environment(u), appMode' # appMode
               PROVE  Step
    BY DEF Next
  <2> USE DEF IndInv, ProtocolInv
  <2>1. CASE FlushCompletion(u)
    BY <2>1 DEF FlushCompletion, LeaderActs, Reconciles, BarrierHolds
  <2>2. CASE FlushRequest(u)
    BY <2>2 DEF FlushRequest, RequestsAreClean, RequestsAreProtected, TypeOK
  <2>3. QED
    BY <2>1, <2>2, ModeChanges
<1>2. QED
  BY <1>1, ProtocolInvariant, PTL DEF Spec, ProtectionPrecedesIntent

(***************************************************************************)
(* Job workers under maintenance.  Only the step of a hook between the     *)
(* rendering of the settings and the reconciliation of the services leaves *)
(* workers running under maintenance settings, and a hook that ends there  *)
(* is on record until a later one comes as far as the services.  Nothing   *)
(* is assumed of hooks, membership, leadership or pods.                    *)
(***************************************************************************)
WorkersFollowSettings ==
    \A u \in Units :
        site[u] = MAINTENANCE /\ pc[u] # "configured" /\ u \notin interrupted => ~jobs[u]

\* The steps of a reconciliation stop the workers before they leave that step, or record
\* that they did not.
LEMMA ReconcileKeepsWorkers ==
    ASSUME TypeOK, WorkersFollowSettings, NEW u \in Units, Reconcile(u)
    PROVE  WorkersFollowSettings'
<1> USE DEF WorkersFollowSettings, TypeOK, Goto, peerVars, workVars, hookVars
<1>1. CASE BeginReconciliation(u) \/ EndEarly(u)
  BY <1>1 DEF BeginReconciliation, EndEarly
<1>2. CASE StopWorkload(u) \/ StopWorkloadFails(u)
  BY <1>2 DEF StopWorkload, StopWorkloadFails, Abort
<1>3. CASE ConfigurationOk(u)
  BY <1>3 DEF ConfigurationOk, Render
<1>4. CASE ConfigurationFails(u)
  <2>1. /\ pc[u] = "configuring" /\ pc' = [pc EXCEPT ![u] = "idle"]
        /\ jobs' = [jobs EXCEPT ![u] = jobs[u] /\ AllowsJobWorkers(snap[u])]
        /\ site' = site \/ site' = [site EXCEPT ![u] = IF @ = DOWN THEN DOWN ELSE snap[u]]
        /\ interrupted' = IF AllowsJobWorkers(snap[u]) THEN interrupted
                          ELSE interrupted \ {u}
    BY <1>4 DEF ConfigurationFails, Abort, Render
  <2>2. ASSUME NEW v \in Units, site'[v] = MAINTENANCE, pc'[v] # "configured",
               v \notin interrupted'
        PROVE  ~jobs'[v]
    <3>1. CASE v # u
      BY <2>1, <2>2, <3>1
    <3>2. CASE v = u /\ ~AllowsJobWorkers(snap[u])
      BY <2>1, <3>2
    <3>3. CASE v = u /\ AllowsJobWorkers(snap[u])
      <4>1. u \notin interrupted /\ site[u] = MAINTENANCE
        BY <2>1, <2>2, <3>3 DEF AllowsJobWorkers
      <4>2. ~jobs[u]
        BY <2>1, <4>1
      <4>3. QED
        BY <2>1, <3>3, <4>2
    <3>4. QED
      BY <3>1, <3>2, <3>3
  <2>3. QED
    BY <2>2
<1>5. CASE ServicesReconciled(u)
  <2>1. PICK queueReady \in BOOLEAN :
           jobs' = [jobs EXCEPT ![u] = AllowsJobWorkers(snap[u]) /\ queueReady]
    BY <1>5 DEF ServicesReconciled
  <2>2. /\ pc' = [pc EXCEPT ![u] = "active"]
        /\ site' = [site EXCEPT ![u] = snap[u]]
    BY <1>5 DEF ServicesReconciled
  <2>3. snap[u] = MAINTENANCE => ~jobs'[u]
    BY <2>1 DEF AllowsJobWorkers
  <2>4. site'[u] = snap[u]
    BY <2>2
  <2>5. ASSUME NEW v \in Units, site'[v] = MAINTENANCE, pc'[v] # "configured",
               v \notin interrupted'
        PROVE  ~jobs'[v]
    <3>1. CASE v = u
      BY <2>3, <2>4, <2>5, <3>1
    <3>2. CASE v # u
      <4>1. v \in Units \ {u}
        BY <3>2
      <4>2. site[v] = MAINTENANCE /\ pc[v] # "configured"
        BY <2>2, <2>5, <4>1
      <4>3. v \notin interrupted
        BY <1>5, <2>5, <4>1 DEF ServicesReconciled
      <4>4. ~jobs[v]
        BY <4>2, <4>3, Zenon DEF WorkersFollowSettings
      <4>5. jobs'[v] = jobs[v]
        BY <2>1, <4>1
      <4>6. QED
        BY <4>4, <4>5, Zenon
    <3>3. QED
      BY <3>1, <3>2
  <2>6. QED
    BY <2>5
<1>6. CASE ServicesUnreachable(u) \/ ServicesFail(u)
  BY <1>6 DEF ServicesUnreachable, ServicesFail, Abort
<1>7. CASE NothingToComplete(u) \/ WaitForPeers(u) \/ BarrierPassed(u)
  BY <1>7 DEF NothingToComplete, WaitForPeers, BarrierPassed
<1>8. CASE SchemaUpdated(u) \/ SchemaUpdateBlocked(u)
  BY <1>8 DEF SchemaUpdated, SchemaUpdateBlocked
<1>9. CASE HookError(u)
  BY <1>9 DEF HookError, Abort
<1>10. CASE FlushAcknowledgement(u) \/ FlushCompletion(u) \/ CompletionRefused(u)
  BY <1>10 DEF FlushAcknowledgement, FlushCompletion, CompletionRefused, Abort
<1>11. QED
  BY <1>1, <1>2, <1>3, <1>4, <1>5, <1>6, <1>7, <1>8, <1>9, <1>10 DEF Reconcile

\* Neither an action nor the environment renders settings or starts workers.
LEMMA OthersKeepWorkers ==
    ASSUME TypeOK, WorkersFollowSettings, NEW u \in Units, Act(u) \/ Environment(u)
    PROVE  WorkersFollowSettings'
<1> USE DEF WorkersFollowSettings, TypeOK, Goto, Abort, peerVars, workVars, hookVars
<1>1. CASE Act(u)
  <2>1. workVars' = workVars
    BY <1>1 DEF Act, RequestDatabaseUpdate, RequestForceReconciliation, RequestMaintenance,
                RequestMaintenanceEnd, SetReadOnly, SetReadOnlyFails, FlushRequest
  <2>2. pc[u] # "configured" /\ \A v \in Units \ {u} : pc'[v] = pc[v]
    BY <1>1 DEF Act, RequestDatabaseUpdate, RequestForceReconciliation, RequestMaintenance,
                RequestMaintenanceEnd, SetReadOnly, SetReadOnlyFails, FlushRequest, Actable
  <2>3. QED
    BY <2>1, <2>2
<1>2. CASE Environment(u)
  BY <1>2 DEF Environment, LeaderElected, PodRestart, UnitJoins, UnitLeaves
<1>3. QED
  BY <1>1, <1>2

\* No job workers are left running under maintenance settings, unless the last hook that
\* rendered settings came no further: it died there, or Pebble failed it or was out of reach.
THEOREM MaintenanceStopsWorkers == Spec => []NoJobsUnderMaintenanceSettings
<1>1. Init => WorkersFollowSettings
  BY DEF Init, WorkersFollowSettings
<1>2. TypeOK /\ WorkersFollowSettings /\ [Next]_vars => WorkersFollowSettings'
  <2> SUFFICES ASSUME TypeOK, WorkersFollowSettings, [Next]_vars
               PROVE  WorkersFollowSettings'
    OBVIOUS
  <2>1. CASE UNCHANGED vars
    BY <2>1 DEF vars, workVars, hookVars, WorkersFollowSettings
  <2>2. CASE Next
    BY <2>2, ReconcileKeepsWorkers, OthersKeepWorkers DEF Next
  <2>3. QED
    BY <2>1, <2>2
<1>3. WorkersFollowSettings => NoJobsUnderMaintenanceSettings
  BY DEF WorkersFollowSettings, NoJobsUnderMaintenanceSettings
<1>4. QED
  BY <1>1, <1>2, <1>3, TypeCorrect, PTL DEF Spec

(***************************************************************************)
(* The protocol implements EditFreeze, for any finite set of units, when   *)
(* the application is stable and no unit leaves.                           *)
(***************************************************************************)
FixedApplication == StableApplication /\ ~Has("scale-down")

FreezeInv == IndInv /\ joined = Units

\* The invariant of the protocol, for units that neither join nor leave.
LEMMA FreezeInvariant ==
    ASSUME FixedApplication
    PROVE  Spec => []FreezeInv
<1>1. Init => joined = Units
  BY DEF Init, FixedApplication, StableApplication
<1>2. joined = Units /\ [Next]_vars => (joined = Units)'
  <2> SUFFICES ASSUME joined = Units, [Next]_vars PROVE joined' = Units
    OBVIOUS
  <2>1. CASE UNCHANGED vars
    BY <2>1 DEF vars
  <2>2. ASSUME NEW u \in Units, Reconcile(u) PROVE joined' = Units
    BY <2>2 DEF Reconcile, BeginReconciliation, EndEarly, StopWorkload, StopWorkloadFails,
                ConfigurationOk, ConfigurationFails, ServicesReconciled, ServicesUnreachable,
                ServicesFail, NothingToComplete, WaitForPeers, BarrierPassed, SchemaUpdated, SchemaUpdateBlocked, HookError,
                FlushAcknowledgement, FlushCompletion, CompletionRefused
  <2>3. ASSUME NEW u \in Units, Act(u) PROVE joined' = Units
    BY <2>3 DEF Act, RequestDatabaseUpdate, RequestForceReconciliation, RequestMaintenance,
                RequestMaintenanceEnd, SetReadOnly, SetReadOnlyFails, FlushRequest
  <2>4. ASSUME NEW u \in Units, Environment(u) PROVE joined' = Units
    BY <2>4 DEF Environment, LeaderElected, PodRestart, UnitJoins, UnitLeaves,
                FixedApplication, StableApplication
  <2>5. QED
    BY <2>1, <2>2, <2>3, <2>4 DEF Next
<1>3. Spec => []IndInv
  BY ProtocolInvariant DEF FixedApplication
<1>4. QED
  BY <1>1, <1>2, <1>3, PTL DEF Spec, FreezeInv

\* Only the leader runs an update, so its step tells the stage of the update.
LEMMA LeaderStage ==
    ASSUME IndInv
    PROVE  UpdateStage = IF pc[leader] = "updating" THEN "running"
                         ELSE IF CompletesUpdate(leader) THEN "done" ELSE "none"
BY DEF IndInv, TypeOK, ProtocolInv, LeaderActs, LeaderSteps, UpdateStage, CompletesUpdate

\* A unit that promised accepts no edits.
LEMMA PromiseKept ==
    FreezeInv => \A u \in Promised : u \notin Accepting
<1> SUFFICES ASSUME FreezeInv, NEW u \in Promised PROVE u \notin Accepting
  OBVIOUS
<1> USE DEF FreezeInv, IndInv, ProtocolInv
<1>1. u \in Units /\ appMode = DATABASE_UPDATE
  BY DEF Promised, Frozen
<1>2. CASE unitMode[u] = DATABASE_UPDATE
  BY <1>1, <1>2 DEF AcknowledgedBinds, Accepting
<1>3. CASE pc[u] \in {"updating", "completing"}
  BY <1>1, <1>3 DEF LeaderActs, LeaderSteps, Reconciles, SettingsRendered, Accepting
<1>4. QED
  BY <1>2, <1>3 DEF Promised, CompletesUpdate

\* The same after a step.
LEMMA PromiseKeptNext == FreezeInv' => (\A u \in Promised : u \notin Accepting)'
BY PromiseKept, PTL

----------------------------------------------------------------------------
(* Each step of a unit is a step of EditFreeze, or none.                   *)

\* The steps of unit u that EditFreeze tells apart leave every other unit's as they are.
SameStages ==
    \A v \in Units : /\ pc'[v] = "updating" <=> pc[v] = "updating"
                     /\ CompletesUpdate(v)' <=> CompletesUpdate(v)

\* Steps that keep the modes and the stages keep what the abstraction sees.
LEMMA SameView ==
    ASSUME SameStages, UNCHANGED <<appMode, unitMode>>
    PROVE  UNCHANGED <<Frozen, Promised, UpdateStage>>
BY DEF SameStages, Frozen, Promised, UpdateStage

\* Such a step is a stutter if it also serves what was served before.
LEMMA Silent ==
    ASSUME SameStages, UNCHANGED <<appMode, unitMode, site>>
    PROVE  UNCHANGED Freezing!vars
BY SameView DEF Freezing!vars, Accepting

\* A step that moves one unit's site only is a step of Serve, or none.
LEMMA OneSite ==
    ASSUME FreezeInv, FreezeInv', SameStages, UNCHANGED <<appMode, unitMode>>,
           NEW u \in Units, \A v \in Units \ {u} : site'[v] = site[v]
    PROVE  [Freezing!Next]_(Freezing!vars)
<1>1. UNCHANGED <<Frozen, Promised, UpdateStage>>
  BY SameView
<1>2. Accepting' \in {Accepting \union {u}, Accepting \ {u}}
  BY DEF Accepting
<1>3. CASE u \in Promised
  <2>1. u \notin Accepting /\ u \notin Accepting'
    BY <1>1, <1>3, PromiseKept, PromiseKeptNext
  <2>2. Accepting' = Accepting
    BY <1>2, <2>1
  <2>3. QED
    BY <1>1, <2>2 DEF Freezing!vars
<1>4. CASE u \notin Promised
  BY <1>1, <1>2, <1>4 DEF Freezing!Next, Freezing!Serve
<1>5. QED
  BY <1>3, <1>4

\* An update that fails withdraws the promise its hook gave, or keeps an earlier one.
LEMMA UpdateLost ==
    ASSUME FreezeInv, FreezeInv', NEW u \in Units, pc[u] = "updating" \/ CompletesUpdate(u),
           pc' = [pc EXCEPT ![u] = "idle"] \/ pc' = [pc EXCEPT ![u] = "acknowledged"],
           UNCHANGED <<appMode, unitMode, leader, snap>>, Accepting' = Accepting
    PROVE  Freezing!Next
<1> USE DEF FreezeInv, IndInv, TypeOK, ProtocolInv
<1>1. u = leader
  BY DEF LeaderActs, LeaderSteps, CompletesUpdate
<1>2. UpdateStage \in {"running", "done"} /\ UpdateStage' = "none"
  BY <1>1 DEF UpdateStage, CompletesUpdate, LeaderActs, LeaderSteps
<1>3. Promised' \in {Promised, Promised \ {u}}
  BY <1>1 DEF Promised, Frozen, CompletesUpdate
<1>4. Freezing!Withdraw(u)
  BY <1>2, <1>3 DEF Freezing!Withdraw, Frozen
<1>5. QED
  BY <1>4 DEF Freezing!Next

\* Every step of a reconciliation is a step of the edit freeze, or none.
LEMMA HookStep ==
    ASSUME FixedApplication, FreezeInv, FreezeInv', NEW u \in Units, Reconcile(u)
    PROVE  [Freezing!Next]_(Freezing!vars)
<1> USE DEF FreezeInv, IndInv, TypeOK, Goto, Abort, peerVars, workVars, hookVars
<1>1. CASE BeginReconciliation(u) \/ EndEarly(u)
  <2>1. SameStages /\ UNCHANGED <<appMode, unitMode, site>>
    BY <1>1 DEF BeginReconciliation, EndEarly, SameStages, CompletesUpdate
  <2>2. QED
    BY <2>1, Silent
<1>2. CASE NothingToComplete(u) \/ WaitForPeers(u)
  <2>1. SameStages /\ UNCHANGED <<appMode, unitMode, site>>
    BY <1>2 DEF NothingToComplete, WaitForPeers, SameStages, CompletesUpdate
  <2>2. QED
    BY <2>1, Silent
<1>3. CASE \/ StopWorkload(u) \/ StopWorkloadFails(u)
           \/ ConfigurationOk(u) \/ ConfigurationFails(u)
  <2>1. SameStages /\ UNCHANGED <<appMode, unitMode>>
    BY <1>3 DEF StopWorkload, StopWorkloadFails, ConfigurationOk, ConfigurationFails, SameStages,
                CompletesUpdate
  <2>2. \A v \in Units \ {u} : site'[v] = site[v]
    BY <1>3 DEF StopWorkload, StopWorkloadFails, ConfigurationOk, ConfigurationFails, Render
  <2>3. QED
    BY <2>1, <2>2, OneSite
<1>4. CASE ServicesReconciled(u) \/ ServicesUnreachable(u) \/ ServicesFail(u)
  <2>1. SameStages /\ UNCHANGED <<appMode, unitMode>>
    BY <1>4 DEF ServicesReconciled, ServicesUnreachable, ServicesFail, SameStages, CompletesUpdate
  <2>2. \A v \in Units \ {u} : site'[v] = site[v]
    BY <1>4 DEF ServicesReconciled, ServicesUnreachable, ServicesFail
  <2>3. QED
    BY <2>1, <2>2, OneSite
<1>5. CASE BarrierPassed(u)
  <2>1. CASE snap[u] # DATABASE_UPDATE
    <3>1. SameStages /\ UNCHANGED <<appMode, unitMode, site>>
      BY <1>5, <2>1 DEF BarrierPassed, SameStages, CompletesUpdate
    <3>2. QED
      BY <3>1, Silent
  <2>2. CASE snap[u] = DATABASE_UPDATE
    <3>1. u = leader /\ appMode = DATABASE_UPDATE /\ pc'[u] = "updating"
      BY <1>5, <2>2 DEF BarrierPassed, ProtocolInv, LeaderActs, Reconciles
    <3>2. UpdateStage = "none" /\ UpdateStage' = "running"
      BY <1>5, <3>1, LeaderStage DEF BarrierPassed, CompletesUpdate, UpdateStage
    <3>3. u \notin Accepting /\ Accepting' = Accepting
      BY <1>5, <2>2 DEF BarrierPassed, Accepting, ProtocolInv, SettingsRendered
    <3>4. \A v \in Units \ {u} : unitMode[v] = DATABASE_UPDATE
      BY <1>5, <2>2 DEF BarrierPassed, AllPeersApplied, Peers
    <3>5. Promised' = Units
      BY <1>5, <3>1, <3>4 DEF BarrierPassed, Promised, Frozen
    <3>6. Promised' = Promised \union {u}
      BY <3>1, <3>4, <3>5 DEF Promised, Frozen
    <3>7. Freezing!Run(u)
      BY <1>5, <3>1, <3>2, <3>3, <3>5, <3>6 DEF Freezing!Run, Frozen, BarrierPassed
    <3>8. QED
      BY <3>7 DEF Freezing!Next
  <2>3. QED
    BY <2>1, <2>2
<1>6. CASE SchemaUpdated(u)
  <2>1. u = leader /\ snap[u] = DATABASE_UPDATE
    BY <1>6 DEF SchemaUpdated, ProtocolInv, LeaderActs, LeaderSteps, BarrierHolds
  <2>2. UpdateStage = "running"
    BY <1>6 DEF SchemaUpdated, UpdateStage
  <2>3. UpdateStage' = "done"
    BY <1>6, <2>1 DEF SchemaUpdated, UpdateStage, CompletesUpdate, ProtocolInv, LeaderActs, LeaderSteps
  <2>4. UNCHANGED <<Frozen, Accepting, Promised>>
    BY <1>6, <2>1 DEF SchemaUpdated, Frozen, Accepting, Promised, CompletesUpdate
  <2>5. QED
    BY <2>2, <2>3, <2>4 DEF Freezing!Next, Freezing!Finish
<1>7. CASE SchemaUpdateBlocked(u)
  <2>1. /\ pc[u] = "updating"
        /\ pc' = [pc EXCEPT ![u] = "acknowledged"]
        /\ UNCHANGED <<appMode, unitMode, leader, snap>>
        /\ Accepting' = Accepting
    BY <1>7 DEF SchemaUpdateBlocked, Accepting
  <2>2. QED
    BY <2>1, UpdateLost
<1>8. CASE HookError(u)
  <2>1. CASE pc[u] = "updating" \/ CompletesUpdate(u)
    <3>1. /\ pc' = [pc EXCEPT ![u] = "idle"]
          /\ UNCHANGED <<appMode, unitMode, leader, snap>>
          /\ Accepting' = Accepting
      BY <1>8 DEF HookError, Accepting
    <3>2. QED
      BY <2>1, <3>1, UpdateLost
  <2>2. CASE ~(pc[u] = "updating" \/ CompletesUpdate(u))
    <3>1. SameStages /\ UNCHANGED <<appMode, unitMode, site>>
      BY <1>8, <2>2 DEF HookError, SameStages, CompletesUpdate
    <3>2. QED
      BY <3>1, Silent
  <2>3. QED
    BY <2>1, <2>2
<1>9. CASE FlushAcknowledgement(u)
  <2>1. SameStages /\ UNCHANGED <<appMode, site>>
    BY <1>9 DEF FlushAcknowledgement, SameStages, CompletesUpdate
  <2>2. UNCHANGED <<Frozen, Accepting, UpdateStage>>
    BY <2>1 DEF SameStages, Frozen, Accepting, UpdateStage
  <2>3. CASE appMode = DATABASE_UPDATE /\ snap[u] = DATABASE_UPDATE
    <3>1. u \notin Accepting
      BY <1>9, <2>3 DEF FlushAcknowledgement, Accepting, ProtocolInv, SettingsRendered
    <3>2. Promised' = Promised \union {u}
      BY <1>9, <2>1, <2>3 DEF FlushAcknowledgement, Acknowledge, Promised, Frozen, SameStages
    <3>3. QED
      BY <2>2, <2>3, <3>1, <3>2 DEF Freezing!Next, Freezing!Promise, Frozen
  <2>4. CASE ~(appMode = DATABASE_UPDATE /\ snap[u] = DATABASE_UPDATE)
    <3>1. appMode = DATABASE_UPDATE => unitMode[u] # DATABASE_UPDATE
      BY <1>9, <2>4 DEF FlushAcknowledgement, ProtocolInv, AcknowledgedBinds, Reconciles
    <3>2. Promised' = Promised
      BY <1>9, <2>1, <2>4, <3>1 DEF FlushAcknowledgement, Acknowledge, Promised, Frozen, SameStages
    <3>3. QED
      BY <2>2, <3>2 DEF Freezing!vars
  <2>5. QED
    BY <2>3, <2>4
<1>10. CASE FlushCompletion(u)
  <2>1. u = leader /\ appMode = snap[u] /\ snap[u] \in CoordinatedModes
    BY <1>10 DEF FlushCompletion, ProtocolInv, LeaderActs, Reconciles, BarrierHolds
  <2>2. UpdateStage' = "none" /\ Promised' = {} /\ Accepting' = Accepting /\ ~Frozen'
    BY <1>10, <2>1 DEF FlushCompletion, UpdateStage, Promised, Accepting, Frozen, CompletesUpdate,
                       ProtocolInv, LeaderActs, LeaderSteps
  <2>3. CASE snap[u] = DATABASE_UPDATE
    <3>1. UpdateStage = "done"
      BY <1>10, <2>1, <2>3, LeaderStage DEF FlushCompletion, CompletesUpdate
    <3>2. Frozen' = FALSE
      BY <2>2 DEF Frozen
    <3>3. QED
      BY <2>2, <3>1, <3>2 DEF Freezing!Next, Freezing!Thaw
  <2>4. CASE snap[u] = FORCE_RECONCILIATION
    <3>1. UpdateStage = "none"
      BY <1>10, <2>1, <2>4, LeaderStage DEF FlushCompletion, CompletesUpdate
    <3>2. Promised = {} /\ Frozen' = Frozen
      BY <1>10, <2>1, <2>4 DEF Promised, Frozen, FlushCompletion
    <3>3. QED
      BY <2>2, <3>1, <3>2 DEF Freezing!vars
  <2>5. QED
    BY <2>1, <2>3, <2>4
<1>11. CASE CompletionRefused(u)
  BY <1>11 DEF CompletionRefused, ProtocolInv, LeaderActs, LeaderSteps
<1>12. QED
  BY <1>1, <1>2, <1>3, <1>4, <1>5, <1>6, <1>7, <1>8, <1>9, <1>10, <1>11 DEF Reconcile

\* So is every step of an operator's action: a request of an update freezes edits.
LEMMA ActionStep ==
    ASSUME FixedApplication, FreezeInv, FreezeInv', NEW u \in Units, Act(u)
    PROVE  [Freezing!Next]_(Freezing!vars)
<1> USE DEF FreezeInv, IndInv, TypeOK, Goto, peerVars, workVars, hookVars
<1>1. CASE \/ RequestDatabaseUpdate(u) \/ RequestForceReconciliation(u)
           \/ RequestMaintenance(u) \/ RequestMaintenanceEnd(u)
  <2>1. SameStages /\ UNCHANGED <<appMode, unitMode, site>>
    BY <1>1 DEF RequestDatabaseUpdate, RequestForceReconciliation, RequestMaintenance,
                RequestMaintenanceEnd, Actable, SameStages, CompletesUpdate
  <2>2. QED
    BY <2>1, Silent
<1>2. CASE SetReadOnly(u) \/ SetReadOnlyFails(u)
  <2>1. SameStages /\ UNCHANGED <<appMode, unitMode, site>>
    BY <1>2 DEF SetReadOnly, SetReadOnlyFails, SameStages, CompletesUpdate
  <2>2. QED
    BY <2>1, Silent
<1>3. CASE FlushRequest(u)
  <2>1. SameStages /\ UNCHANGED <<unitMode, site>>
    BY <1>3 DEF FlushRequest, SameStages, CompletesUpdate
  <2>2. UNCHANGED <<Accepting, UpdateStage>>
    BY <2>1 DEF SameStages, Accepting, UpdateStage
  <2>3. CASE appMode' = appMode
    BY <2>1, <2>3, Silent
  <2>4. CASE appMode' # appMode /\ appMode' # DATABASE_UPDATE
    <3>1. appMode # DATABASE_UPDATE
      BY <1>3, <2>4 DEF FlushRequest, ProtocolInv, RequestsAreClean
    <3>2. UNCHANGED <<Frozen, Promised>>
      BY <2>4, <3>1 DEF Frozen, Promised
    <3>3. QED
      BY <2>2, <3>2 DEF Freezing!vars
  <2>5. CASE appMode' # appMode /\ appMode' = DATABASE_UPDATE
    <3>1. \A v \in Units : unitMode[v] # DATABASE_UPDATE
      <4>1. pc[u] \in ActionSteps /\ snap[u] = DATABASE_UPDATE /\ appMode # DATABASE_UPDATE
        BY <1>3, <2>5 DEF FlushRequest
      <4>2. \A v \in joined : unitMode[v] # snap[u]
        BY <4>1 DEF ProtocolInv, RequestsAreClean
      <4>3. QED
        BY <4>1, <4>2
    <3>2. \A v \in Units : pc[v] # "updating" /\ ~CompletesUpdate(v)
      BY <1>3 DEF FlushRequest, CompletesUpdate, ProtocolInv, LeaderActs, LeaderSteps
    <3>3. Promised = {} /\ Promised' = {}
      BY <2>1, <2>5, <3>1, <3>2 DEF Promised, Frozen, SameStages
    <3>4. Frozen = FALSE /\ Frozen' = TRUE
      BY <2>5 DEF Frozen
    <3>5. QED
      BY <2>2, <3>3, <3>4 DEF Freezing!Next, Freezing!Freeze
  <2>6. QED
    BY <2>3, <2>4, <2>5
<1>4. QED
  BY <1>1, <1>2, <1>3 DEF Act

\* So is what happens around the hooks.
LEMMA EnvironmentStep ==
    ASSUME FixedApplication, FreezeInv, FreezeInv', NEW u \in Units, Environment(u)
    PROVE  [Freezing!Next]_(Freezing!vars)
<1> USE DEF FreezeInv, IndInv, TypeOK, Goto, Abort, peerVars, workVars, hookVars
<1>1. CASE LeaderElected(u)
  <2>1. SameStages /\ UNCHANGED <<appMode, unitMode, site>>
    BY <1>1 DEF LeaderElected, SameStages, CompletesUpdate
  <2>2. QED
    BY <2>1, Silent
<1>2. CASE PodRestart(u)
  <2>1. CASE pc[u] = "updating" \/ CompletesUpdate(u)
    <3>1. u = leader /\ snap[u] = DATABASE_UPDATE
      BY <2>1 DEF CompletesUpdate, ProtocolInv, LeaderActs, LeaderSteps, BarrierHolds
    <3>2. site[u] \in {DOWN, DATABASE_UPDATE} /\ site' = [site EXCEPT ![u] = DOWN]
      BY <1>2, <2>1, <3>1 DEF PodRestart, CompletesUpdate, ProtocolInv, SettingsRendered
    <3>3. Accepting' = Accepting
      BY <3>2 DEF Accepting
    <3>4. /\ pc' = [pc EXCEPT ![u] = "idle"]
          /\ UNCHANGED <<appMode, unitMode, leader, snap>>
      BY <1>2 DEF PodRestart
    <3>5. QED
      BY <2>1, <3>3, <3>4, UpdateLost
  <2>2. CASE ~(pc[u] = "updating" \/ CompletesUpdate(u))
    <3>1. SameStages /\ UNCHANGED <<appMode, unitMode>>
      BY <1>2, <2>2 DEF PodRestart, SameStages, CompletesUpdate
    <3>2. \A v \in Units \ {u} : site'[v] = site[v]
      BY <1>2 DEF PodRestart
    <3>3. QED
      BY <3>1, <3>2, OneSite
  <2>3. QED
    BY <2>1, <2>2
<1>3. CASE UnitJoins(u) \/ UnitLeaves(u)
  BY <1>3 DEF UnitJoins, UnitLeaves, FixedApplication, StableApplication
<1>4. QED
  BY <1>1, <1>2, <1>3 DEF Environment

\* The units' protocol implements EditFreeze: an update runs under the promise of every
\* unit, a promise is kept until the operation is over, and the operation ends only after
\* an update that ran to its end.
THEOREM ProtocolImplementsEditFreeze ==
    ASSUME FixedApplication
    PROVE  Spec => ImplementsEditFreeze
<1>1. Init => Freezing!Init
  BY DEF Init, Freezing!Init, Frozen, Accepting, Promised, UpdateStage, CompletesUpdate
<1>2. FreezeInv /\ FreezeInv' /\ [Next]_vars => [Freezing!Next]_(Freezing!vars)
  <2>1. ASSUME FreezeInv, FreezeInv', Next PROVE [Freezing!Next]_(Freezing!vars)
    BY <2>1, HookStep, ActionStep, EnvironmentStep DEF Next
  <2>2. ASSUME UNCHANGED vars PROVE UNCHANGED Freezing!vars
    <3>1. SameStages /\ UNCHANGED <<appMode, unitMode, site>>
      BY <2>2 DEF vars, SameStages, CompletesUpdate
    <3>2. QED
      BY <3>1, Silent
  <2>3. QED
    BY <2>1, <2>2
<1>3. Spec => []FreezeInv
  BY FreezeInvariant
<1>4. QED
  BY <1>1, <1>2, <1>3, PTL DEF Spec, ImplementsEditFreeze, Freezing!Spec
=============================================================================
