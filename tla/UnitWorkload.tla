---------------------------- MODULE UnitWorkload ----------------------------
(***************************************************************************)
(* One unit's reconciliation across its three containers: the ingress      *)
(* route, git-sync, Shellbox and the MediaWiki workload, in the order of   *)
(* the code.  A hook works on the configuration that it read when it       *)
(* began; relation data and secrets that it writes are kept only if it     *)
(* ends, with whatever status; files and services stay as they are when    *)
(* it dies.                                                                *)
(***************************************************************************)
EXTENDS GitSync, Shellbox, UnitSettings

CONSTANTS
    Options,    \* what may be asked for: the values of each option and relation
    Deployed,   \* what is asked for at first
    MaxChanges, \* bound: changes of what is asked for
    MaxFaults   \* bound: hooks that die, pods that are replaced

Configs == {c \in [DOMAIN Options -> UNION {Options[f] : f \in DOMAIN Options}] :
               \A f \in DOMAIN Options : c[f] \in Options[f]}

OptionNames ==
    { "repo", "knownHosts", "sshKey", "sparse", "proxy", "smtp", "s3", "saml", "oauth", "valkey",
      "origin", "tls", "ingress", "database" }

\* What SimpleSAMLphp can be configured with, which is never taken for its absence.
SamlConfigs ==
    [ idp : Options.saml, store : Options.valkey \union {NONE},
      proxy : {p.https : p \in Options.proxy},
      origin : {Normalized(origin) : origin \in Options.origin \ {BAD}} ]

ASSUME OptionsAssumption == DOMAIN Options = OptionNames /\ NONE \notin SamlConfigs
ASSUME DeployedAssumption ==
    /\ Deployed = [f \in DOMAIN Options |-> Deployed[f]]
    /\ \A f \in DOMAIN Options : Deployed[f] \in Options[f]
ASSUME BoundsAssumption == MaxChanges \in Nat /\ MaxFaults \in Nat

VARIABLES
    want,         \* what the operator and the related applications ask for
    seen,         \* what the last hook read
    due,          \* an event that reconciles is due
    pc,           \* the next step of the hook
    keyChanged,   \* the hook has changed the Shellbox key file
    sentRoute,    \* the backend that the hook has submitted to Traefik
    route,        \* the backend that Traefik has
    client,       \* the redirect URI that OAuth's provider is told, NONE before
    sentClient,   \* the one that the hook tells it
    registered,   \* the one that the provider has registered
    status,       \* what the last hook ended with
    ssh,          \* key, known hosts and proxy command that the workload's ssh is configured with
    late,         \* LateSettings.php, NONE before it is written
    server,       \* the origin in LocalSettings.php, NONE before it is written
    samlFile,     \* SimpleSAMLphp's charm-config.php
    tlsSite,      \* Apache's TLS site is enabled
    apache,       \* TLS site and environment of the running Apache, or STOPPED
    tunnelPlan, tunnelRunning, \* the service smtp-proxy
    changes, faults

hookVars == <<seen, due, pc, keyChanged, sentRoute, route, sentClient, status>>
oauthVars == <<client, registered>>
workloadVars == <<ssh, late, server, samlFile, tlsSite, apache, tunnelPlan, tunnelRunning>>
bounds == <<changes, faults>>
vars == <<want, hookVars, oauthVars, gitSyncVars, shellboxVars, workloadVars, bounds>>

WorkloadInit ==
    /\ ssh = NoSsh /\ late = NONE /\ server = NONE /\ samlFile = NONE
    /\ tlsSite = FALSE /\ apache = STOPPED
    /\ tunnelPlan = NotPlanned /\ tunnelRunning = STOPPED
WorkloadReplaced ==
    /\ ssh' = NoSsh /\ late' = NONE /\ server' = NONE /\ samlFile' = NONE
    /\ tlsSite' = FALSE /\ apache' = STOPPED
    /\ tunnelPlan' = NotPlanned /\ tunnelRunning' = STOPPED

Init ==
    /\ want = Deployed /\ seen = Deployed
    /\ due = TRUE /\ pc = "idle" /\ keyChanged = FALSE
    /\ sentRoute = "none" /\ route = "none"
    /\ client = NONE /\ sentClient = NONE /\ registered = NONE
    /\ status = "none"
    /\ GitSyncInit /\ ShellboxInit /\ WorkloadInit
    /\ changes = 0 /\ faults = 0

----------------------------------------------------------------------------
(* The hook.                                                               *)

Step(from, to) ==
    /\ pc = from /\ pc' = to
    /\ UNCHANGED <<want, seen, due, keyChanged, sentRoute, route, sentClient, status, oauthVars,
                   bounds>>

\* The hook ends with a status: what it wrote to relations and secrets is kept.
EndsWithin(from, with) ==
    /\ pc = from /\ pc' = "idle"
    /\ status' = with
    /\ route' = sentRoute
    /\ client' = IF sentClient = NONE THEN client ELSE sentClient
    /\ CommitSecret
    /\ UNCHANGED <<want, seen, due, keyChanged, sentRoute, sentClient, registered, changes>>
Ends(from, with) == EndsWithin(from, with) /\ UNCHANGED faults

\* What a hook finds of a configuration: OAuth's relation has data once a client is registered.
Found(c) == [c EXCEPT !.oauth = IF registered # NONE THEN "registered" ELSE @]

\* _reconciliation begins.
Begin ==
    /\ pc = "idle" /\ due
    /\ due' = FALSE
    /\ pc' = "ingress"
    /\ seen' = Found(want)
    /\ keyChanged' = FALSE /\ sentRoute' = route /\ sentClient' = NONE
    /\ UNCHANGED <<want, route, status, oauthVars, gitSyncVars, shellboxVars, workloadVars, bounds>>

\* _configure_ingress, which asks first whether there is TLS material.
ConfigureIngress ==
    /\ pc = "ingress" /\ pc' = "git-ssh"
    /\ ~TlsRefused(seen) /\ seen.ingress # "pending"
    /\ seen.ingress = "ready" => ConfigIsValid(seen)
    /\ sentRoute' = IF seen.ingress = "none" THEN "none"
                    ELSE IF TlsIsReady(seen) THEN "https" ELSE "http"
    /\ UNCHANGED <<want, seen, due, keyChanged, route, sentClient, status, oauthVars, gitSyncVars,
                   shellboxVars, workloadVars, bounds>>
IngressEnds ==
    /\ \/ TlsRefused(seen) /\ Ends("ingress", "blocked")
       \/ ~TlsRefused(seen) /\ seen.ingress = "pending" /\ Ends("ingress", "waiting")
       \/ /\ ~TlsRefused(seen) /\ seen.ingress = "ready" /\ ~ConfigIsValid(seen)
          /\ Ends("ingress", "blocked")
    /\ UNCHANGED <<gitSyncVars, workloadVars>>

\* _ssh_key for git-sync: the configuration cannot be loaded, or the secret that it names is
\* missing or holds nothing usable.
SshKeyIsUsable(c) == ConfigIsValid(c) /\ c.sshKey # "unusable"
SshKeyInvalid ==
    /\ ~SshKeyIsUsable(seen)
    /\ Ends("git-ssh", "blocked")
    /\ UNCHANGED <<gitSyncVars, workloadVars>>
GitSyncSsh ==
    /\ SshKeyIsUsable(seen)
    /\ Step("git-ssh", "git-service")
    /\ ConfigureSsh(seen)
    /\ UNCHANGED <<shellboxVars, workloadVars>>
GitSyncRefuses ==
    /\ SshKeyIsUsable(seen)
    /\ RefuseRemote(seen)
    /\ Ends("git-ssh", "blocked")
    /\ UNCHANGED workloadVars
GitSyncService ==
    /\ Step("git-service", "git-clear")
    /\ ConfigureService(seen)
    /\ UNCHANGED <<shellboxVars, workloadVars>>
GitSyncClear ==
    /\ Step("git-clear", "shellbox-key")
    /\ ClearAssets(seen)
    /\ UNCHANGED <<shellboxVars, workloadVars>>

ShellboxKey ==
    /\ pc = "shellbox-key" /\ pc' = "shellbox"
    /\ WriteKey
    /\ keyChanged' = (keyFile' # keyFile)
    /\ UNCHANGED <<want, seen, due, sentRoute, route, sentClient, status, oauthVars, gitSyncVars,
                   workloadVars, bounds>>
ShellboxServices ==
    /\ Step("shellbox", "check")
    /\ StartShellbox(keyChanged)
    /\ UNCHANGED <<gitSyncVars, workloadVars>>

\* _ssh_key for the workload, whose field of the secret may be blank.
WorkloadKeyIsUsable(c) == c.sshKey # "partly"
WorkloadKeyInvalid ==
    /\ ~WorkloadKeyIsUsable(seen)
    /\ Ends("check", "blocked")
    /\ UNCHANGED <<gitSyncVars, workloadVars>>

\* The Pebble plan of the workload, with the tunnel that this hook has registered.
PlanTunnel(command) ==
    /\ tunnelPlan' = TunnelService(command)
    /\ tunnelRunning' = Replanned(tunnelPlan', tunnelRunning)

\* Without the database relation the workload is stopped, and its tunnel with it.
WorkloadInactive ==
    /\ WorkloadKeyIsUsable(seen) /\ seen.database = "absent"
    /\ PlanTunnel(NONE)
    /\ apache' = STOPPED
    /\ Ends("check", "blocked")
    /\ UNCHANGED <<gitSyncVars, ssh, late, server, samlFile, tlsSite>>

\* The relation is not ready, or the unit waits for its leader: the workload is left alone.
WorkloadWaits ==
    /\ WorkloadKeyIsUsable(seen) /\ seen.database = "pending"
    /\ Ends("check", "waiting")
    /\ UNCHANGED <<gitSyncVars, workloadVars>>

\* _tls_reconciliation, and the restart of Apache that it requests; the workload's SSH files.
WriteFiles ==
    /\ WorkloadKeyIsUsable(seen) /\ seen.database = "ready"
    /\ Step("check", "auth")
    /\ tlsSite' = TlsIsReady(seen)
    /\ ssh' = WrittenSsh(seen)
    /\ UNCHANGED <<gitSyncVars, shellboxVars, late, server, samlFile, apache, tunnelPlan,
                   tunnelRunning>>

\* The SimpleSAMLphp files are written while the settings are put together.
PushSaml ==
    /\ Step("auth", "late")
    /\ samlFile' = CASE SamlWritten(seen) -> SamlConfig(seen)
                     [] SamlRefused(seen) -> NONE
                     [] OTHER             -> samlFile
    /\ UNCHANGED <<gitSyncVars, shellboxVars, ssh, late, server, tlsSite, apache, tunnelPlan,
                   tunnelRunning>>

\* _push_late_settings: deferred errors are raised now, before LocalSettings.php and the services.
PushLateSettings ==
    /\ pc = "late"
    /\ late' = LateSettings(seen, KnownKey)
    /\ IF Deferred(seen) THEN Ends("late", "degraded")
       ELSE Step("late", "local") /\ UNCHANGED shellboxVars
    /\ UNCHANGED <<gitSyncVars, ssh, server, samlFile, tlsSite, apache, tunnelPlan, tunnelRunning>>

PushLocalSettings ==
    /\ Step("local", "services")
    /\ server' = seen.origin
    /\ UNCHANGED <<gitSyncVars, shellboxVars, ssh, late, samlFile, tlsSite, apache, tunnelPlan,
                   tunnelRunning>>

\* Apache as the plan has it, with the site as it is now.
Apache(c) == [tls |-> tlsSite, env |-> Environment(c.proxy)]

\* Mutant: the plan is made before the mail relay is known.
PlanWithoutTunnel ==
    /\ Step("services", "client")
    /\ PlanTunnel(NONE)
    /\ apache' = Apache(seen)
    /\ UNCHANGED <<gitSyncVars, shellboxVars, ssh, late, server, samlFile, tlsSite>>

\* _reconcile_services: the tunnel, and Apache, which is started, or restarted for its
\* environment by the replan and for its site by the request.
ReconcileServices ==
    /\ Step("services", "client")
    /\ PlanTunnel(MailTunnel(seen))
    /\ apache' = Apache(seen)
    /\ UNCHANGED <<gitSyncVars, shellboxVars, ssh, late, server, samlFile, tlsSite>>

\* update_client_config: MediaWiki itself is asked for the URL to redirect to.
Redirect == Normalized(server)
UpdateClientConfig ==
    /\ pc = "client" /\ pc' = "end"
    /\ sentClient' = IF want.oauth = "none" THEN NONE ELSE Redirect
    /\ UNCHANGED <<want, seen, due, keyChanged, sentRoute, route, status, oauthVars, gitSyncVars,
                   shellboxVars, workloadVars, bounds>>

\* MediaWiki does not answer in time.
ApiFails ==
    /\ want.oauth # "none" /\ faults < MaxFaults
    /\ faults' = faults + 1
    /\ EndsWithin("client", "unanswered")
    /\ UNCHANGED <<gitSyncVars, workloadVars>>

Finish ==
    /\ Ends("end", "active")
    /\ UNCHANGED <<gitSyncVars, workloadVars>>

----------------------------------------------------------------------------
(* What happens around it.                                                 *)

\* Someone changes an option or a relation, which raises an event.  A relation that is
\* removed takes its data with it.
Change ==
    /\ changes < MaxChanges
    /\ \E f \in DOMAIN Options : \E v \in Options[f] \ {want[f]} :
          /\ want' = [want EXCEPT ![f] = v]
          /\ IF f = "oauth" THEN client' = NONE /\ sentClient' = NONE /\ registered' = NONE
             ELSE UNCHANGED <<sentClient, oauthVars>>
    /\ due' = TRUE
    /\ changes' = changes + 1
    /\ UNCHANGED <<seen, pc, keyChanged, sentRoute, route, status, gitSyncVars, shellboxVars,
                   workloadVars, faults>>

\* The provider registers the client, which gives it credentials, or its new redirect URI,
\* which changes nothing for it.
Register ==
    /\ client # NONE /\ registered # client
    /\ registered' = client
    /\ due' = (due \/ registered = NONE)
    /\ UNCHANGED <<want, seen, pc, keyChanged, sentRoute, route, sentClient, status, client,
                   gitSyncVars, shellboxVars, workloadVars, bounds>>

\* The hook dies, and Juju runs it again: its relation data and its secret are discarded.
Dies ==
    /\ pc # "idle" /\ faults < MaxFaults
    /\ pc' = "idle" /\ status' = "error" /\ due' = TRUE
    /\ faults' = faults + 1
    /\ DiscardSecret
    /\ UNCHANGED <<want, seen, keyChanged, sentRoute, route, sentClient, oauthVars, gitSyncVars,
                   keyFile, phpFpm, workloadVars, changes>>

\* The pod is replaced: its containers come back as their images have them.
PodReplaced ==
    /\ faults < MaxFaults
    /\ faults' = faults + 1
    /\ pc' = "idle" /\ status' = "error" /\ due' = TRUE
    /\ DiscardSecret
    /\ GitSyncReplaced /\ ShellboxReplaced /\ WorkloadReplaced
    /\ UNCHANGED <<want, seen, keyChanged, sentRoute, route, sentClient, oauthVars, changes>>

GitSyncs ==
    /\ Sync
    /\ UNCHANGED <<want, hookVars, oauthVars, shellboxVars, workloadVars, bounds>>

PhpFpmRestarts ==
    /\ RestartShellbox
    /\ UNCHANGED <<want, hookVars, oauthVars, gitSyncVars, workloadVars, bounds>>

Reconcile ==
    \/ Begin \/ ConfigureIngress \/ IngressEnds
    \/ SshKeyInvalid \/ GitSyncSsh \/ GitSyncRefuses \/ GitSyncService \/ GitSyncClear
    \/ ShellboxKey \/ ShellboxServices
    \/ WorkloadKeyInvalid \/ WorkloadInactive \/ WorkloadWaits
    \/ WriteFiles \/ PushSaml \/ PushLateSettings \/ PushLocalSettings \/ ReconcileServices
    \/ UpdateClientConfig \/ Finish
Next ==
    \/ Reconcile \/ Change \/ Register \/ ApiFails \/ Dies \/ PodReplaced
    \/ GitSyncs \/ PhpFpmRestarts

Spec == Init /\ [][Next]_vars
\* Juju runs the hooks that are due, to their end; git-sync syncs every ten seconds, and OAuth's
\* provider answers.
FairSpec == Spec /\ WF_vars(Reconcile) /\ WF_vars(GitSyncs) /\ WF_vars(Register)

----------------------------------------------------------------------------
(* Properties.                                                             *)

Active == status = "active" /\ pc = "idle"
Settled == status \in {"active", "degraded"} /\ pc = "idle"

\* When a repository is no longer configured, its assets are no longer served: git-sync,
\* which runs on its own and may check out at any moment, is put to sleep before they are
\* cleared, and nothing brings them back.
AssetsAreWithdrawn == (Active /\ seen.repo = NONE) => assets = NONE

\* MediaWiki and the running Shellbox hold the same key, the one that is kept in the unit's
\* secret, although a hook that dies leaves the key file without the secret, and php-fpm
\* reads the file only when it starts.
ShellboxKeysAgree == Active => late.shellbox = phpFpm /\ phpFpm = secret

MailIsRouted ==
    IF late.mail.via = "tunnel"
    THEN tunnelRunning = [proxy |-> ProxyOf(seen.proxy), to |-> late.mail.to]
    ELSE tunnelRunning \in {STOPPED, SLEEP}
SamlIsConfigured ==
    late # NONE /\ "SimpleSAMLphp" \in late.auth =>
        samlFile # NONE /\ samlFile.store = late.cache /\ samlFile.idp = seen.saml

\* What the settings rely on is there.  Mail that they send to the local port is picked up there
\* by a tunnel to the relay, through the current proxy, otherwise nothing listens; and when they
\* load SimpleSAMLphp they find its configuration, with the session store that MediaWiki uses,
\* even if what was wrong elsewhere has deferred an error.
SettingsAreServed == (Active => MailIsRouted) /\ (Settled => SamlIsConfigured)

\* Traefik is sent to port 443 only while Apache listens there.  (No run checks this: a hook
\* that is blocked after it has submitted the route keeps it.)
RouteIsServed == (apache # STOPPED /\ route = "https") => apache.tls

\* What the hooks make of a configuration c.
Reflects(c) ==
    /\ late = LateSettings(Found(c), secret) /\ server = c.origin
    /\ gitRunning = GitSyncCommand(c, WrittenSsh(c), c.sparse) \/ c.repo = NONE
    /\ assets = c.repo
    /\ ssh = WrittenSsh(c)
    /\ apache = [tls |-> TlsIsReady(c), env |-> Environment(c.proxy)]
    /\ route = IF c.ingress = "none" THEN "none"
               ELSE IF TlsIsReady(c) THEN "https" ELSE "http"
    /\ registered = IF c.oauth = "none" THEN NONE ELSE Normalized(c.origin)

\* Nothing stands in the way of this configuration.
Serviceable(c) ==
    /\ ConfigIsValid(c)
    /\ ~TlsRefused(c) /\ c.ingress # "pending" /\ c.sshKey \notin {"partly", "unusable"}
    /\ RemoteIsKnown(c) /\ c.database = "ready" /\ ~Deferred(c)

\* When changes and faults are over, a configuration that nothing stands in the way of is
\* reflected in all containers, and by the provider of OAuth, which answers only to a unit that
\* has been reconciled before, from whatever an earlier one, a hook that died, a disabled
\* git-sync or a replaced pod left behind.  (If the last hook got no answer from MediaWiki, no
\* event makes another one ask again.)
EventuallyReflected ==
    <>[](Serviceable(want) /\ status # "unanswered" => status = "active" /\ Reflects(want))

=============================================================================
