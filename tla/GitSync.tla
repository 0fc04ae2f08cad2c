------------------------------ MODULE GitSync -------------------------------
(***************************************************************************)
(* The git-sync sidecar: the SSH and sparse-checkout files that the charm  *)
(* writes for it, its Pebble service, and the assets it checks out, which  *)
(* the web server serves.  Each operation takes the configuration c that   *)
(* its hook has read.                                                      *)
(***************************************************************************)
EXTENDS Egress, Pebble

VARIABLES
    gitSsh,     \* key, known hosts and proxy command that ssh is configured with
    gitSparse,  \* the sparse-checkout file exists
    gitPlan,    \* the service in the Pebble plan
    gitRunning, \* the command it runs
    assets      \* the repository behind the link that is served

gitSyncVars == <<gitSsh, gitSparse, gitPlan, gitRunning, assets>>

NoSsh == [key |-> FALSE, hosts |-> {}, proxy |-> NONE]
NotPlanned == [command |-> SLEEP, enabled |-> FALSE]

GitSyncInit ==
    /\ gitSsh = NoSsh /\ gitSparse = FALSE
    /\ gitPlan = NotPlanned /\ gitRunning = STOPPED
    /\ assets = NONE

\* The container is as its image has it again; the assets are on a volume.
GitSyncReplaced ==
    /\ gitSsh' = NoSsh /\ gitSparse' = FALSE
    /\ gitPlan' = NotPlanned /\ gitRunning' = STOPPED
    /\ UNCHANGED assets

GitSyncCommand(c, ssh, sparse) ==
    IF c.repo = NONE THEN SLEEP
    ELSE [repo |-> c.repo, key |-> ssh.key, sparse |-> sparse, env |-> Environment(c.proxy)]

\* Mutant: without a repository the service is disabled and keeps its command.
DisabledLayer(c, ssh, sparse, forceDisable) ==
    [command |-> IF c.repo = NONE THEN gitPlan.command ELSE GitSyncCommand(c, ssh, sparse),
     enabled |-> c.repo # NONE /\ ~forceDisable]

\* _pebble_layer.
PebbleLayer(c, ssh, sparse, forceDisable) ==
    [command |-> GitSyncCommand(c, ssh, sparse),
     enabled |-> c.repo # NONE /\ ~forceDisable]

\* _reconcile_services, with the files ssh and sparse in place.
ReconcileGitSync(c, ssh, sparse, forceDisable) ==
    /\ gitPlan' = PebbleLayer(c, ssh, sparse, forceDisable)
    /\ gitRunning' = Replanned(gitPlan', gitRunning)

\* ssh_reconcile_config for the sidecar.
WrittenSsh(c) ==
    [key |-> c.sshKey \in {"present", "partly"}, hosts |-> c.knownHosts, proxy |-> SshProxyCommand(c.proxy)]

RemoteIsKnown(c) ==
    Remote(c.repo) = NONE \/ RemoteInKnownHosts(Remote(c.repo), c.knownHosts)

ConfigureSsh(c) ==
    /\ RemoteIsKnown(c)
    /\ gitSsh' = WrittenSsh(c)
    /\ UNCHANGED <<gitSparse, gitPlan, gitRunning, assets>>

\* The remote is not known: git-sync is disabled by force, under the new SSH files.
RefuseRemote(c) ==
    /\ ~RemoteIsKnown(c)
    /\ gitSsh' = WrittenSsh(c)
    /\ ReconcileGitSync(c, gitSsh', gitSparse, TRUE)
    /\ UNCHANGED <<gitSparse, assets>>

\* Mutant: the service is reconciled only if its command changes.
ConfigureChangedService(c) ==
    /\ gitSparse' = c.sparse
    /\ IF GitSyncCommand(c, gitSsh, gitSparse') = gitPlan.command
       THEN UNCHANGED <<gitPlan, gitRunning>>
       ELSE ReconcileGitSync(c, gitSsh, gitSparse', FALSE)
    /\ UNCHANGED <<gitSsh, assets>>

ConfigureService(c) ==
    /\ gitSparse' = c.sparse
    /\ ReconcileGitSync(c, gitSsh, gitSparse', FALSE)
    /\ UNCHANGED <<gitSsh, assets>>

\* _clear_repo_contents, when there is nothing to sync.
ClearAssets(c) ==
    /\ assets' = IF c.repo = NONE THEN NONE ELSE assets
    /\ UNCHANGED <<gitSsh, gitSparse, gitPlan, gitRunning>>

\* git-sync checks its repository out; over SSH only from a host it knows.
Sync ==
    /\ gitRunning \notin {STOPPED, SLEEP}
    /\ \/ Remote(gitRunning.repo) = NONE
       \/ RemoteInKnownHosts(Remote(gitRunning.repo), gitSsh.hosts)
    /\ assets' = gitRunning.repo
    /\ UNCHANGED <<gitSsh, gitSparse, gitPlan, gitRunning>>

=============================================================================
