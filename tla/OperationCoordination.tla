----------------------- MODULE OperationCoordination -----------------------
(***************************************************************************)
(* How the units of one MediaWiki application enter and leave the          *)
(* operation modes: the peer relation of mediawiki_peers.py, the           *)
(* reconciliation of charm.py and mediawiki/_core.py as far as the mode is *)
(* concerned, and the actions that request a mode.                         *)
(*                                                                         *)
(* Juju runs at most one hook or action of a unit at a time, and those of  *)
(* different units concurrently.  What a hook writes to relation data is   *)
(* held back and reaches the other units, all of it or none, when the hook *)
(* ends well; what it does to the workload container and to the database   *)
(* takes effect at once.                                                   *)
(***************************************************************************)
EXTENDS OperationMode, FiniteSets

CONSTANTS
    Units,      \* the units of the application
    Requests,   \* the modes the operator asks for
    Faults      \* what may go wrong, a subset of FaultKinds

FaultKinds ==
    { "hook-error",         \* a hook dies or raises an uncaught exception
      "status-failure",     \* a hook ends early with a Waiting or Blocked status, as
                            \* it does when Pebble is out of reach
      "database-failure",   \* set_read_only fails, before or after ALTER DATABASE
      "pod-restart",        \* a pod is replaced: its containers start afresh
      "scale-up",           \* units join
      "scale-down",         \* units leave
      "leader-change",      \* leadership moves, from one idle unit to another
      "update-loss",        \* ... from a unit that runs the schema update
      "mid-hook-gain",      \* ... to a unit that runs a hook
      "lagging-membership", \* a new unit runs hooks before its peers know of it
      "foreign-mode" }      \* peer data written by another charm revision

ASSUME UnitsAssumption == Units # {} /\ IsFiniteSet(Units)
ASSUME RequestsAssumption == Requests \subseteq (OperationModes \ {NORMAL})
ASSUME FaultsAssumption == Faults \subseteq FaultKinds

VARIABLES
    appMode,     \* operation_mode in the application databag
    unitMode,    \* operation_mode in each unit's databag: what it acknowledged
    leader,      \* the unit that holds leadership
    joined,      \* the units that relation.units and the leader's own unit show
    dbReadOnly,  \* the READ ONLY option of the database
    site,        \* the mode whose settings a unit's web services serve, or "down"
    jobs,        \* whether a unit's job workers run
    pc,          \* where a unit's current hook or action is
    snap,        \* the mode that hook applies, or that action publishes
    interrupted, \* history: units whose services were last left unreconciled
    dirty,       \* whether a relation-changed event is due to the unit
    forced       \* history: who completed a forced reconciliation since the request

peerVars == <<appMode, unitMode, forced>>
workVars == <<site, jobs, interrupted>>
hookVars == <<pc, snap>>
vars == <<appMode, unitMode, leader, joined, dbReadOnly, site, jobs, interrupted, pc, snap,
          dirty, forced>>

DOWN == "down"

ReconcileSteps ==
    { "configuring",   \* the mode is read, the settings are not rendered yet
      "configured",    \* settings rendered, services not reconciled yet
      "active",        \* services reconciled, the acknowledgement is buffered
      "updating",      \* the leader runs update_database_schema
      "completing",    \* the return to NORMAL is buffered too
      "acknowledged" } \* nothing is left but to flush the acknowledgement

ActionSteps ==
    { "protecting",    \* set_database_read_only is about to run
      "requesting" }   \* the requested mode is buffered

Has(fault) == fault \in Faults

TypeOK ==
    /\ appMode \in OperationModes \union {UNKNOWN}
    /\ unitMode \in [Units -> OperationModes \union {UNKNOWN, ABSENT}]
    /\ leader \in Units
    /\ joined \subseteq Units
    /\ dbReadOnly \in BOOLEAN
    /\ site \in [Units -> OperationModes \union {DOWN}]
    /\ jobs \in [Units -> BOOLEAN]
    /\ interrupted \subseteq Units
    /\ pc \in [Units -> {"idle", "restoring"} \union ActionSteps \union ReconcileSteps]
    /\ snap \in [Units -> OperationModes]
    /\ dirty \in [Units -> BOOLEAN]
    /\ forced \subseteq Units

(***************************************************************************)
(* A deployed application before its first reconciliation, or one whose    *)
(* pods a refresh has just replaced and whose peer data another revision   *)
(* of the charm wrote.                                                     *)
(***************************************************************************)
Init ==
    /\ \/ appMode = NORMAL /\ dbReadOnly = FALSE /\ unitMode = [u \in Units |-> ABSENT]
       \/ /\ Has("foreign-mode")
          /\ appMode = UNKNOWN
          /\ dbReadOnly \in BOOLEAN
          /\ unitMode \in [Units -> {NORMAL, MAINTENANCE, UNKNOWN}]
    /\ leader \in Units
    /\ joined \in SUBSET Units
    /\ leader \in joined
    /\ Has("scale-up") \/ joined = Units
    /\ site = [u \in Units |-> DOWN]
    /\ jobs = [u \in Units |-> FALSE]
    /\ interrupted = {}
    /\ pc = [u \in Units |-> "idle"]
    /\ snap = [u \in Units |-> NORMAL]
    /\ dirty = [u \in Units |-> u \in joined]
    /\ forced = {}

----------------------------------------------------------------------------
(* Relation data.                                                          *)

Peers(u) == joined \ {u}

\* Mutant: only the leader's own databag is looked at.
LeaderInNormalOperation == unitMode[leader] \in {ABSENT, NORMAL}

\* MediaWikiPeers._ensure_units_in_normal_operation
UnitsInNormalOperation == \A u \in joined : unitMode[u] \in {ABSENT, NORMAL}

\* Mutant: no peer is waited for.
NoPeerAwaited(u) == snap[u] \in CoordinatedModes

\* The loop over relation.units in MediaWikiPeers.reconcile_operation_mode.
AllPeersApplied(u) == \A v \in Peers(u) : unitMode[v] = snap[u]

\* What unit u's flush changes is announced: application data to every unit,
\* unit data to the other units.  Data that does not change announces nothing.
Announce(u) ==
    dirty' = [v \in Units |-> \/ dirty[v]
                              \/ appMode' # appMode
                              \/ v # u /\ unitMode'[u] # unitMode[u]]

Goto(u, step) == pc' = [pc EXCEPT ![u] = step]

\* The hook ends and leaves nothing in relation data.  Juju runs a failed hook again.
Abort(u) ==
    /\ Goto(u, "idle")
    /\ dirty' = [dirty EXCEPT ![u] = TRUE]

----------------------------------------------------------------------------
(* One unit's reconciliation.                                              *)

\* Mutant: an unrecognised mode is applied like any other.
BeginWithAnyMode(u) ==
    /\ pc[u] = "idle"
    /\ u \in joined \/ Has("lagging-membership")
    /\ Goto(u, "configuring")
    /\ snap' = [snap EXCEPT ![u] = appMode]
    /\ dirty' = [dirty EXCEPT ![u] = FALSE]
    /\ UNCHANGED <<peerVars, leader, joined, dbReadOnly, workVars>>

\* Reconciliation reaches MediaWikiPeers.reconciliation_state and reads the mode.
BeginReconciliation(u) ==
    /\ pc[u] = "idle"
    /\ u \in joined \/ Has("lagging-membership")
    /\ appMode # UNKNOWN
    /\ Goto(u, "configuring")
    /\ snap' = [snap EXCEPT ![u] = appMode]
    /\ dirty' = [dirty EXCEPT ![u] = FALSE]
    /\ UNCHANGED <<peerVars, leader, joined, dbReadOnly, workVars>>

\* git-sync, ingress, Pebble or storage is not ready, or the mode is not
\* recognised: the status is set, the event is spent and the workload is left alone.
EndEarly(u) ==
    /\ pc[u] = "idle"
    /\ dirty[u]
    /\ Has("status-failure") \/ appMode = UNKNOWN
    /\ dirty' = [dirty EXCEPT ![u] = FALSE]
    /\ UNCHANGED <<peerVars, leader, joined, dbReadOnly, workVars, hookVars>>

\* No database relation, or the peer state is not available: the workload is stopped.
StopWorkload(u) ==
    /\ Has("status-failure")
    /\ pc[u] = "idle"
    /\ u \in joined
    /\ site' = [site EXCEPT ![u] = DOWN]
    /\ jobs' = [jobs EXCEPT ![u] = FALSE]
    /\ interrupted' = interrupted \ {u}
    /\ dirty' = [dirty EXCEPT ![u] = FALSE]
    /\ UNCHANGED <<peerVars, leader, joined, dbReadOnly, hookVars>>

\* ... or Pebble fails to stop all of it.
StopWorkloadFails(u) ==
    /\ Has("status-failure") /\ Has("hook-error")
    /\ pc[u] = "idle"
    /\ u \in joined
    /\ site' \in {site, [site EXCEPT ![u] = DOWN]}
    /\ jobs' \in {jobs, [jobs EXCEPT ![u] = FALSE]}
    /\ Abort(u)
    /\ UNCHANGED <<peerVars, leader, joined, dbReadOnly, interrupted, snap>>

\* PHP reads the settings on every request: a running site follows the files at once.
Render(u) == [site EXCEPT ![u] = IF @ = DOWN THEN DOWN ELSE snap[u]]

ConfigurationOk(u) ==
    /\ pc[u] = "configuring"
    /\ site' = Render(u)
    /\ Goto(u, "configured")
    /\ UNCHANGED <<peerVars, leader, joined, dbReadOnly, jobs, interrupted, snap, dirty>>

\* Mutant: the exception handler leaves the job workers running.
FailWithJobsRunning(u) ==
    /\ pc[u] = "configuring"
    /\ site' \in {site, Render(u)}
    /\ interrupted' = IF AllowsJobWorkers(snap[u]) THEN interrupted ELSE interrupted \ {u}
    /\ \/ Has("status-failure") /\ Goto(u, "idle") /\ UNCHANGED dirty
       \/ Has("hook-error") /\ Abort(u)
    /\ UNCHANGED <<peerVars, leader, joined, dbReadOnly, jobs, snap>>

\* _reconcile_configuration raises, before or after it rendered the settings; in
\* maintenance the job workers are stopped nevertheless.  (A hook in which Pebble fails to
\* stop them ends as one that dies once the settings are rendered.)
ConfigurationFails(u) ==
    /\ pc[u] = "configuring"
    /\ site' \in {site, Render(u)}
    /\ jobs' = [jobs EXCEPT ![u] = @ /\ AllowsJobWorkers(snap[u])]
    /\ interrupted' = IF AllowsJobWorkers(snap[u]) THEN interrupted ELSE interrupted \ {u}
    /\ \/ Has("status-failure") /\ Goto(u, "idle") /\ UNCHANGED dirty
       \/ Has("hook-error") /\ Abort(u)
    /\ UNCHANGED <<peerVars, leader, joined, dbReadOnly, snap>>

\* _reconcile_services(workload_active=True): job workers run when the mode allows
\* them and the queue is ready.
ServicesReconciled(u) ==
    /\ pc[u] = "configured"
    /\ site' = [site EXCEPT ![u] = snap[u]]
    /\ \E queueReady \in BOOLEAN :
          jobs' = [jobs EXCEPT ![u] = AllowsJobWorkers(snap[u]) /\ queueReady]
    /\ interrupted' = interrupted \ {u}
    /\ Goto(u, "active")
    /\ UNCHANGED <<peerVars, leader, joined, dbReadOnly, snap, dirty>>

\* Pebble is out of reach once the settings are rendered: Waiting status, the event is
\* spent and the services are left as they are.
ServicesUnreachable(u) ==
    /\ Has("status-failure")
    /\ pc[u] = "configured"
    /\ interrupted' = interrupted \union {u}
    /\ Goto(u, "idle")
    /\ UNCHANGED <<peerVars, leader, joined, dbReadOnly, site, jobs, snap, dirty>>

\* Pebble fails part of the way, which no handler answers: services are stopped before
\* others are started.
ServicesFail(u) ==
    /\ Has("hook-error")
    /\ pc[u] = "configured"
    /\ site' \in {site, [site EXCEPT ![u] = snap[u]]}
    /\ \E running \in BOOLEAN :
          /\ \/ AllowsJobWorkers(snap[u])
             \/ ~running
             \/ running = jobs[u] /\ site' = site
          /\ jobs' = [jobs EXCEPT ![u] = running]
    /\ interrupted' = interrupted \union {u}
    /\ Abort(u)
    /\ UNCHANGED <<peerVars, leader, joined, dbReadOnly, snap>>

\* reconcile_operation_mode returns: there is no operation for this unit to complete.
NothingToComplete(u) ==
    /\ pc[u] = "active"
    /\ u # leader \/ snap[u] \notin CoordinatedModes
    /\ Goto(u, "acknowledged")
    /\ UNCHANGED <<peerVars, leader, joined, dbReadOnly, workVars, snap, dirty>>

\* A peer has not applied the mode yet: Waiting status, the acknowledgement stands.
WaitForPeers(u) ==
    /\ pc[u] = "active"
    /\ u = leader
    /\ snap[u] \in CoordinatedModes
    /\ ~AllPeersApplied(u)
    /\ Goto(u, "acknowledged")
    /\ UNCHANGED <<peerVars, leader, joined, dbReadOnly, workVars, snap, dirty>>

\* Mutants: an update completes like a forced reconciliation, without being run; a unit
\* that is not the leader completes the operation too.
CompleteWithoutUpdate(u) ==
    /\ pc[u] = "active"
    /\ u = leader
    /\ snap[u] \in CoordinatedModes
    /\ AllPeersApplied(u)
    /\ Goto(u, "completing")
    /\ UNCHANGED <<peerVars, leader, joined, dbReadOnly, workVars, snap, dirty>>
BarrierPassedAnywhere(u) ==
    /\ pc[u] = "active"
    /\ snap[u] \in CoordinatedModes
    /\ AllPeersApplied(u)
    /\ Goto(u, IF snap[u] = DATABASE_UPDATE THEN "updating" ELSE "completing")
    /\ UNCHANGED <<peerVars, leader, joined, dbReadOnly, workVars, snap, dirty>>

BarrierPassed(u) ==
    /\ pc[u] = "active"
    /\ u = leader
    /\ snap[u] \in CoordinatedModes
    /\ AllPeersApplied(u)
    /\ Goto(u, IF snap[u] = DATABASE_UPDATE THEN "updating" ELSE "completing")
    /\ UNCHANGED <<peerVars, leader, joined, dbReadOnly, workVars, snap, dirty>>

\* update.php and the DDL after it succeed, which they cannot on a read-only database.
SchemaUpdated(u) ==
    /\ pc[u] = "updating"
    /\ ~dbReadOnly
    /\ Goto(u, "completing")
    /\ UNCHANGED <<peerVars, leader, joined, dbReadOnly, workVars, snap, dirty>>

\* The DDL after update.php exhausts its retries: Blocked status, the
\* acknowledgement stands and the operation stays requested.
SchemaUpdateBlocked(u) ==
    /\ Has("status-failure")
    /\ pc[u] = "updating"
    /\ Goto(u, "acknowledged")
    /\ UNCHANGED <<peerVars, leader, joined, dbReadOnly, workVars, snap, dirty>>

\* The hook raises or dies; update.php on a read-only database always raises.
HookError(u) ==
    /\ pc[u] \in ReconcileSteps
    /\ Has("hook-error") \/ (pc[u] = "updating" /\ dbReadOnly)
    /\ interrupted' = interrupted \union {v \in {u} : pc[v] = "configured"}
    /\ Abort(u)
    /\ UNCHANGED <<peerVars, leader, joined, dbReadOnly, site, jobs, snap>>

\* Mutants: the requested mode is acknowledged, not the one applied; the return to
\* normal operation is not acknowledged.
AcknowledgeRequested(u) ==
    /\ unitMode' = [unitMode EXCEPT ![u] = appMode]
    /\ forced' = IF snap[u] = FORCE_RECONCILIATION THEN forced \union {u} ELSE forced
AcknowledgeOperationsOnly(u) ==
    /\ unitMode' = IF snap[u] = NORMAL THEN unitMode ELSE [unitMode EXCEPT ![u] = snap[u]]
    /\ forced' = IF snap[u] = FORCE_RECONCILIATION THEN forced \union {u} ELSE forced

\* The hook ends well and its acknowledgement reaches the peers.
Acknowledge(u) ==
    /\ unitMode' = [unitMode EXCEPT ![u] = snap[u]]
    /\ forced' = IF snap[u] = FORCE_RECONCILIATION THEN forced \union {u} ELSE forced

FlushAcknowledgement(u) ==
    /\ pc[u] = "acknowledged"
    /\ Acknowledge(u)
    /\ Goto(u, "idle")
    /\ UNCHANGED <<appMode, leader, joined, dbReadOnly, workVars, snap>>
    /\ Announce(u)

\* Mutant: the mode is not reset.
FlushWithoutReset(u) ==
    /\ pc[u] = "completing"
    /\ u = leader
    /\ Acknowledge(u)
    /\ Goto(u, "idle")
    /\ UNCHANGED <<appMode, leader, joined, dbReadOnly, workVars, snap>>
    /\ Announce(u)

FlushCompletion(u) ==
    /\ pc[u] = "completing"
    /\ u = leader
    /\ Acknowledge(u)
    /\ appMode' = NORMAL
    /\ Goto(u, "idle")
    /\ UNCHANGED <<leader, joined, dbReadOnly, workVars, snap>>
    /\ Announce(u)

\* Application data written by a unit that is no longer the leader is refused.
CompletionRefused(u) ==
    /\ pc[u] = "completing"
    /\ u # leader
    /\ Abort(u)
    /\ UNCHANGED <<peerVars, leader, joined, dbReadOnly, workVars, snap>>

----------------------------------------------------------------------------
(* The operator's actions, run on the leader.                              *)

Actable(u) == u = leader /\ pc[u] = "idle"

\* request_database_update: a pending update may be requested again.
RequestDatabaseUpdate(u) ==
    /\ DATABASE_UPDATE \in Requests
    /\ Actable(u)
    /\ appMode \in {NORMAL, DATABASE_UPDATE}
    /\ UnitsInNormalOperation
    /\ Goto(u, "requesting")
    /\ snap' = [snap EXCEPT ![u] = DATABASE_UPDATE]
    /\ UNCHANGED <<peerVars, leader, joined, dbReadOnly, workVars, dirty>>

RequestForceReconciliation(u) ==
    /\ FORCE_RECONCILIATION \in Requests
    /\ Actable(u)
    /\ appMode = NORMAL
    /\ UnitsInNormalOperation
    /\ Goto(u, "requesting")
    /\ snap' = [snap EXCEPT ![u] = FORCE_RECONCILIATION]
    /\ UNCHANGED <<peerVars, leader, joined, dbReadOnly, workVars, dirty>>

\* Mutant: the request is published without protecting the database first.
PublishBeforeProtecting(u) ==
    /\ MAINTENANCE \in Requests
    /\ Actable(u)
    /\ appMode \notin CoordinatedModes
    /\ appMode = NORMAL => UnitsInNormalOperation
    /\ Goto(u, "requesting")
    /\ snap' = [snap EXCEPT ![u] = MAINTENANCE]
    /\ UNCHANGED <<peerVars, leader, joined, dbReadOnly, workVars, dirty>>

\* request_maintenance_mode(enabled=True), up to the call that protects the database.
RequestMaintenance(u) ==
    /\ MAINTENANCE \in Requests
    /\ Actable(u)
    /\ appMode \notin CoordinatedModes
    /\ appMode = NORMAL => UnitsInNormalOperation
    /\ Goto(u, "protecting")
    /\ snap' = [snap EXCEPT ![u] = MAINTENANCE]
    /\ UNCHANGED <<peerVars, leader, joined, dbReadOnly, workVars, dirty>>

\* request_maintenance_mode(enabled=False): out of normal operation it restores
\* database writes and publishes nothing.
RequestMaintenanceEnd(u) ==
    /\ MAINTENANCE \in Requests
    /\ Actable(u)
    /\ appMode \notin CoordinatedModes
    /\ Goto(u, IF appMode = NORMAL THEN "restoring" ELSE "protecting")
    /\ snap' = [snap EXCEPT ![u] = NORMAL]
    /\ UNCHANGED <<peerVars, leader, joined, dbReadOnly, workVars, dirty>>

\* Database.set_read_only: ALTER DATABASE, then the verification of its effect.
SetReadOnly(u) ==
    /\ pc[u] \in {"protecting", "restoring"}
    /\ dbReadOnly' = (snap[u] = MAINTENANCE)
    /\ Goto(u, IF pc[u] = "protecting" THEN "requesting" ELSE "idle")
    /\ UNCHANGED <<peerVars, leader, joined, workVars, snap, dirty>>

\* Mutant: the request is published although the database could not be verified.
PublishUnverified(u) ==
    /\ Has("database-failure")
    /\ pc[u] \in {"protecting", "restoring"}
    /\ dbReadOnly' \in {dbReadOnly, snap[u] = MAINTENANCE}
    /\ Goto(u, IF pc[u] = "protecting" THEN "requesting" ELSE "idle")
    /\ UNCHANGED <<peerVars, leader, joined, workVars, snap, dirty>>

\* The action fails without publishing; the database may have changed.
SetReadOnlyFails(u) ==
    /\ Has("database-failure")
    /\ pc[u] \in {"protecting", "restoring"}
    /\ dbReadOnly' \in {dbReadOnly, snap[u] = MAINTENANCE}
    /\ Goto(u, "idle")
    /\ UNCHANGED <<peerVars, leader, joined, workVars, snap, dirty>>

FlushRequest(u) ==
    /\ pc[u] = "requesting"
    /\ u = leader
    /\ appMode' = snap[u]
    /\ forced' = IF snap[u] = FORCE_RECONCILIATION THEN {} ELSE forced
    /\ Goto(u, "idle")
    /\ UNCHANGED <<unitMode, leader, joined, dbReadOnly, workVars, snap>>
    /\ Announce(u)

----------------------------------------------------------------------------
(* Juju and Kubernetes.                                                    *)

\* The charm observes leader_elected to create the replica secret only: the new
\* leader does not reconcile.
LeaderElected(u) ==
    /\ u \in joined \ {leader}
    /\ Has("leader-change")
    /\ pc[leader] = "idle" \/ (pc[leader] = "updating" /\ Has("update-loss"))
    /\ pc[u] = "idle" \/ Has("mid-hook-gain")
    /\ leader' = u
    /\ UNCHANGED <<peerVars, joined, dbReadOnly, workVars, hookVars, dirty>>

\* Files, services and the hook are lost; what the unit wrote to relation data stays.
PodRestart(u) ==
    /\ Has("pod-restart")
    /\ u \in joined
    /\ site' = [site EXCEPT ![u] = DOWN]
    /\ jobs' = [jobs EXCEPT ![u] = FALSE]
    /\ interrupted' = interrupted \ {u}
    /\ Abort(u)
    /\ UNCHANGED <<peerVars, leader, joined, dbReadOnly, snap>>

UnitJoins(u) ==
    /\ Has("scale-up")
    /\ u \notin joined
    /\ joined' = joined \union {u}
    /\ dirty' = [v \in Units |-> dirty[v] \/ v \in joined']
    /\ UNCHANGED <<peerVars, leader, dbReadOnly, workVars, hookVars>>

\* relation_departed is not a reconciliation event: nobody reacts.
UnitLeaves(u) ==
    /\ Has("scale-down")
    /\ u \in joined \ {leader}
    /\ pc[u] = "idle"
    /\ joined' = joined \ {u}
    /\ unitMode' = [unitMode EXCEPT ![u] = ABSENT]
    /\ site' = [site EXCEPT ![u] = DOWN]
    /\ jobs' = [jobs EXCEPT ![u] = FALSE]
    /\ interrupted' = interrupted \ {u}
    /\ dirty' = [dirty EXCEPT ![u] = FALSE]
    /\ forced' = forced \ {u}
    /\ UNCHANGED <<appMode, leader, dbReadOnly, hookVars>>

----------------------------------------------------------------------------
Reconcile(u) ==
    \/ BeginReconciliation(u) \/ EndEarly(u) \/ StopWorkload(u) \/ StopWorkloadFails(u)
    \/ ConfigurationOk(u) \/ ConfigurationFails(u)
    \/ ServicesReconciled(u) \/ ServicesUnreachable(u) \/ ServicesFail(u)
    \/ NothingToComplete(u) \/ WaitForPeers(u) \/ BarrierPassed(u)
    \/ SchemaUpdated(u) \/ SchemaUpdateBlocked(u) \/ HookError(u)
    \/ FlushAcknowledgement(u) \/ FlushCompletion(u) \/ CompletionRefused(u)

Act(u) ==
    \/ RequestDatabaseUpdate(u) \/ RequestForceReconciliation(u)
    \/ RequestMaintenance(u) \/ RequestMaintenanceEnd(u)
    \/ SetReadOnly(u) \/ SetReadOnlyFails(u)
    \/ FlushRequest(u)

Environment(u) ==
    LeaderElected(u) \/ PodRestart(u) \/ UnitJoins(u) \/ UnitLeaves(u)

Next == \E u \in Units : Reconcile(u) \/ Act(u) \/ Environment(u)

Spec == Init /\ [][Next]_vars

\* A hook or action that runs goes on to its end.
Progress(u) ==
    \/ ConfigurationOk(u) \/ ServicesReconciled(u)
    \/ NothingToComplete(u) \/ WaitForPeers(u) \/ BarrierPassed(u) \/ SchemaUpdated(u)
    \/ FlushAcknowledgement(u) \/ FlushCompletion(u) \/ CompletionRefused(u)
    \/ SetReadOnly(u) \/ FlushRequest(u)

Fault(u) ==
    \/ StopWorkloadFails(u) \/ ConfigurationFails(u) \/ ServicesUnreachable(u)
    \/ ServicesFail(u) \/ HookError(u) \/ PodRestart(u) \/ LeaderElected(u)

\* Juju delivers the events that are due, between the operator's actions if need be.
\* Faults may strike any number of times, but they stop at some point; the operator is
\* free to ask for nothing.
Fairness ==
    /\ \A u \in Units : WF_vars(Progress(u)) /\ SF_vars(dirty[u] /\ BeginReconciliation(u))
    /\ <>[][\A u \in Units : ~Fault(u)]_vars

FairSpec == Spec /\ Fairness

----------------------------------------------------------------------------
(* Properties.                                                             *)

\* While the leader changes the database schema, no unit serves the wiki with settings
\* that accept edits: every other unit serves read-only settings or nothing.  This is
\* what the barrier of reconcile_operation_mode is for; stale acknowledgements, hooks
\* that read the mode before the request and restarted pods must not get past it.
SchemaUpdateQuiesced ==
    \A u, v \in Units : pc[u] = "updating" => site[v] \in {DOWN, DATABASE_UPDATE}

\* The application stays in database-update mode for as long as a schema update runs:
\* no unit is told to leave the read-only settings, and no second leader completes the
\* operation, under an update that is still running.
UpdateProtected ==
    \A u \in Units : pc[u] = "updating" => appMode = DATABASE_UPDATE

\* An acknowledged database update is applied for as long as it is requested: hooks that
\* failed half-way, restarted pods and late flushes do not bring a unit back to settings
\* that accept edits.
AcknowledgedUpdateIsApplied ==
    \A u \in Units : appMode = DATABASE_UPDATE /\ unitMode[u] = DATABASE_UPDATE =>
        site[u] \in {DOWN, DATABASE_UPDATE}

AppliesMaintenance(u) == site[u] \in {DOWN, MAINTENANCE} /\ ~jobs[u]

\* The same of maintenance: unit data records what the unit has actually applied, so a
\* unit that acknowledged the maintenance that is requested runs no job workers and
\* serves no other settings.  (No run checks this: a hook of an earlier maintenance may
\* acknowledge a later one.)
AcknowledgedMaintenanceIsApplied ==
    \A u \in Units : appMode = MAINTENANCE /\ unitMode[u] = MAINTENANCE =>
        AppliesMaintenance(u)

\* A unit that serves maintenance settings is left with no job workers running, whatever
\* failed before and however its configuration failed, unless its services were last left
\* unreconciled: once the settings were rendered the hook died, or Pebble failed or was out
\* of reach, and no reconciliation came as far as the services since (_core.py:194, 485).
NoJobsUnderMaintenanceSettings ==
    \A u \in Units :
        site[u] = MAINTENANCE /\ pc[u] = "idle" /\ u \notin interrupted => ~jobs[u]

\* The schema update runs on a database that accepts writes: maintenance and database
\* updates exclude each other because they need opposite database states.  (No run checks
\* this: set_read_only may fail after ALTER DATABASE took effect.)
SchemaUpdateWritable ==
    \A u \in Units : pc[u] = "updating" => ~dbReadOnly

\* The database is protected before maintenance is published, and writable again before
\* the units are told to leave it; the hook that completes an update or a forced
\* reconciliation never ends a maintenance.
ProtectionPrecedesIntent ==
    [][/\ appMode # MAINTENANCE /\ appMode' = MAINTENANCE => dbReadOnly
       /\ appMode = MAINTENANCE /\ appMode' # MAINTENANCE => ~dbReadOnly]_vars

\* What a completion of forced reconciliation finds: every unit, save one that joined
\* meanwhile and never reconciled, completed a forced reconciliation for this request.
CompletesForced ==
    appMode = FORCE_RECONCILIATION /\ appMode' = NORMAL =>
        \A u \in joined : u \in forced' \/ unitMode'[u] = ABSENT

\* Forced reconciliation returns to normal only after every unit of the application
\* completed a reconciliation that was forced by this request, not by an earlier one.
\* Only a unit that joined meanwhile and never reconciled is excepted.
ForcedReconciliationIsComplete == [][CompletesForced]_vars

\* A requested database update or forced reconciliation eventually completes.
CoordinatedOperationCompletes ==
    appMode \in CoordinatedModes ~> appMode = NORMAL

\* Every unit eventually acknowledges, for good, a mode that stays requested, and
\* maintenance is then applied wherever it is acknowledged.
UnitsConverge ==
    \A m \in {NORMAL, MAINTENANCE} :
        <>[](appMode = m) =>
            <>[](\A u \in Units : /\ unitMode[u] = m
                                  /\ m = MAINTENANCE => AppliesMaintenance(u))
=============================================================================
