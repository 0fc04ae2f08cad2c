--------------------------- MODULE OperationMode ---------------------------
(***************************************************************************)
(* The operation modes coordinated across MediaWiki units                  *)
(* (src/src/types_.py) and what they mean for one unit's workload.         *)
(***************************************************************************)

NORMAL               == "normal"
DATABASE_UPDATE      == "database-update"
MAINTENANCE          == "maintenance"
FORCE_RECONCILIATION == "force-reconciliation"

OperationModes == {NORMAL, DATABASE_UPDATE, MAINTENANCE, FORCE_RECONCILIATION}

\* A value of the mode key that this revision of the charm does not recognise.
UNKNOWN == "unknown"

\* A unit databag that does not hold the mode key yet.
ABSENT == "absent"

\* OperationMode.allows_job_workers
AllowsJobWorkers(mode) == mode # MAINTENANCE

\* The modes whose completion the leader decides at a barrier of all units
\* (MediaWikiPeers.reconcile_operation_mode).
CoordinatedModes == {DATABASE_UPDATE, FORCE_RECONCILIATION}
=============================================================================
