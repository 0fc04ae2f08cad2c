---------------------------- MODULE PendingWork ----------------------------
(***************************************************************************)
(* How one unit brings its running services and its localisation cache up  *)
(* to date with the files that a reconciliation changes: the trust store,  *)
(* the TLS material, the job-runner configuration and the settings.        *)
(*                                                                         *)
(* Files are compared with what is wanted and written when they differ,    *)
(* and what a change entails (a restart, a rebuild) is recorded in marker  *)
(* files, so that it is done by a later reconciliation if this one ends    *)
(* early.  What a file holds is abstracted to a version of it; certificate *)
(* and private key are files of their own, and a renewal keeps the key.    *)
(***************************************************************************)
EXTENDS Naturals

CONSTANTS
    Versions,    \* the contents a file may have
    Certificates,
    Keys,
    KeyOf,       \* the private key that each certificate was requested with
    NONE,        \* no file, no content
    Images,      \* the MediaWiki versions that workload images ship
    MaxChanges,  \* bound: how often what is wanted, or the image, changes
    Faults

FaultKinds ==
    { "hook-error",       \* a step raises, or the hook dies before it
      "status-failure",   \* the reconciliation ends with a Waiting or Blocked status
      "refresh-failure",  \* update-ca-certificates exits with an error
      "restore-failure",  \* ... and the previous bundle cannot be written back
      "refresh-cut-off",  \* ... or it times out and _run_cli raises ContainerError
      "site-failure",     \* a2ensite or a2dissite fails
      "service-failure",  \* Pebble fails to stop, start or restart services
      "unmarked-crash",   \* the hook ends between a change and its marker
      "pod-restart" }

ASSUME VersionsAssumption == Versions # {} /\ NONE \notin Versions
ASSUME CertificatesAssumption ==
    NONE \notin Certificates \union Keys /\ KeyOf \in [Certificates -> Keys]
ASSUME ImagesAssumption == Images # {}
ASSUME ChangesAssumption == MaxChanges \in Nat
ASSUME FaultsAssumption == Faults \subseteq FaultKinds

APACHE == "apache"
JOBS == "jobs"
Services == {APACHE, JOBS}

Content == Versions \union {NONE}
Issued == Certificates \union {NONE}

\* What relations and configuration ask for: certificates to trust, the certificate that is
\* assigned, the connection of the job runners, and the settings.
Wants == [trust : Content, tls : Issued, runner : Content, settings : Versions]

\* The private key that goes with a certificate, or with none.
KeyFor(c) == IF c = NONE THEN NONE ELSE KeyOf[c]

\* What Apache reads when it starts.
TlsFiles == [cert : Issued, key : Keys \union {NONE}, site : BOOLEAN]

VARIABLES
    want,      \* what is asked for, read by a hook when it begins
    image,     \* the MediaWiki version of the workload image
    bundle,    \* the managed CA bundle
    store,     \* the bundle that the system trust store was refreshed with
    cert, key, \* the TLS certificate and private key files
    site,      \* whether Apache's TLS site is enabled
    runner,    \* JobRunnerConfig.json
    settings,  \* the settings files
    restarts,  \* the restart marker: services that owe a restart
    rebuild,   \* the localisation rebuild marker
    cache,     \* what the localisation cache was built from
    recorded,  \* the version in the unit databag of the last rebuild
    running,   \* the services that run
    loaded,    \* what each service read when it started
    pc,        \* the next step of the hook
    hook,      \* what the hook remembers
    changes    \* how often something has changed

files == <<bundle, store, cert, key, site, runner, settings>>
markers == <<restarts, rebuild>>
localisation == <<cache, recorded>>
services == <<running, loaded>>
given == <<want, image, changes>>
vars == <<given, files, markers, localisation, services, pc, hook>>

Has(fault) == fault \in Faults

Steps ==
    { "idle", "bundle", "refresh", "trusted", "certificate", "key", "site", "secured",
      "runner", "runner-written", "settings", "settings-written", "cache",
      "services", "restart", "clear" }

\* previous: the bundle to restore; changed: whether TLS material or site changed;
\* rebuilt: whether the rebuild is to be recorded; kept: services running throughout.
Hooks == [previous : Content, changed : BOOLEAN, rebuilt : BOOLEAN, kept : SUBSET Services]
NoHook == [previous |-> NONE, changed |-> FALSE, rebuilt |-> FALSE, kept |-> {}]

NoCache == [image |-> NONE, settings |-> NONE]
Current == [apache |-> [cert |-> cert, key |-> key, site |-> site],
            jobs |-> [store |-> store, runner |-> runner]]
NotLoaded == [apache |-> NONE, jobs |-> NONE]

\* Job workers never run without a configuration.
TypeOK ==
    /\ want \in Wants
    /\ image \in Images
    /\ bundle \in Content /\ store \in Content
    /\ cert \in Issued /\ key \in Keys \union {NONE}
    /\ site \in BOOLEAN
    /\ runner \in Content /\ settings \in Content
    /\ restarts \subseteq Services
    /\ rebuild \in BOOLEAN
    /\ cache \in [image : Images \union {NONE}, settings : Content]
    /\ recorded \in Images \union {NONE}
    /\ running \subseteq Services
    /\ loaded \in [apache : TlsFiles \union {NONE},
                   jobs : [store : Content, runner : Versions] \union {NONE}]
    /\ pc \in Steps
    /\ hook \in Hooks
    /\ changes \in 0..MaxChanges

Init ==
    /\ want \in Wants
    /\ image \in Images
    /\ bundle = NONE /\ store = NONE /\ cert = NONE /\ key = NONE
    /\ site = FALSE
    /\ runner = NONE /\ settings = NONE
    /\ restarts = {}
    /\ rebuild = FALSE
    /\ cache = NoCache
    /\ recorded = NONE
    /\ running = {}
    /\ loaded = NotLoaded
    /\ pc = "idle"
    /\ hook = NoHook
    /\ changes = 0

----------------------------------------------------------------------------
(* The steps of a hook, in the order in which the code takes them.         *)

Step(from, to) == pc = from /\ pc' = to

Remember(h) == hook' = h

\* The hook ends.  When it ends well, with or without a status, the version of a rebuild
\* reaches the databag; when it fails, nothing does.
Flush ==
    /\ pc' = "idle"
    /\ Remember(NoHook)
    /\ recorded' = IF hook.rebuilt THEN image ELSE recorded
Abort ==
    /\ pc' = "idle"
    /\ Remember(NoHook)
    /\ UNCHANGED recorded

\* In maintenance mode an exception stops the job workers.
StopJobsPerhaps == running' \in {running, running \ {JOBS}} /\ UNCHANGED loaded

Begin ==
    /\ Step("idle", "bundle")
    /\ UNCHANGED <<given, files, markers, localisation, services, hook>>

\* CertificateTransfer.reconcile: write the bundle when it differs ...
InstallBundle ==
    /\ bundle # want.trust
    /\ Step("bundle", "refresh")
    /\ bundle' = want.trust
    /\ Remember([hook EXCEPT !.previous = bundle])
    /\ UNCHANGED <<given, store, cert, key, site, runner, settings, markers, localisation, services>>

KeepBundle ==
    /\ bundle = want.trust
    /\ Step("bundle", "certificate")
    /\ UNCHANGED <<given, files, markers, localisation, services, hook>>

\* ... and refresh the trust store, ...
RefreshTrustStore ==
    /\ Step("refresh", "trusted")
    /\ store' = bundle
    /\ UNCHANGED <<given, bundle, cert, key, site, runner, settings, markers, localisation, services, hook>>

\* Mutant: the bundle stays although the store does not follow it.
RefreshFailsUnrestored ==
    /\ Has("refresh-failure")
    /\ pc = "refresh"
    /\ Flush
    /\ StopJobsPerhaps
    /\ UNCHANGED <<given, files, markers, cache>>

\* ... or, when that fails, restore the bundle that the store was made from.  The second
\* refresh, from that bundle, may fail as well.
RefreshFails ==
    /\ Has("refresh-failure")
    /\ pc = "refresh"
    /\ bundle' \in {hook.previous} \union (IF Has("restore-failure") THEN {bundle} ELSE {})
    /\ store' \in {store, bundle'}
    /\ Flush
    /\ StopJobsPerhaps
    /\ UNCHANGED <<given, cert, key, site, runner, settings, markers, cache>>

\* request_service_restart(*_JOB_SERVICES)
RequestJobRestart ==
    /\ Step("trusted", "certificate")
    /\ restarts' = restarts \union {JOBS}
    /\ UNCHANGED <<given, files, rebuild, localisation, services, hook>>

\* Tls.reconcile writes or removes both files, one after the other, and remembers whether
\* either was not as wanted.
WriteCertificate ==
    /\ Step("certificate", "key")
    /\ cert' = want.tls
    /\ Remember([hook EXCEPT !.changed = cert # want.tls])
    /\ UNCHANGED <<given, bundle, store, key, site, runner, settings, markers, localisation, services>>

WriteKey ==
    /\ Step("key", "site")
    /\ key' = KeyFor(want.tls)
    /\ Remember([hook EXCEPT !.changed = @ \/ key # KeyFor(want.tls)])
    /\ UNCHANGED <<given, bundle, store, cert, site, runner, settings, markers, localisation, services>>

\* _set_apache_site_enabled
EnableSite ==
    /\ Step("site", "secured")
    /\ site' = (want.tls # NONE)
    /\ Remember([hook EXCEPT !.changed = @ \/ site # (want.tls # NONE)])
    /\ UNCHANGED <<given, bundle, store, cert, key, runner, settings, markers, localisation, services>>

SiteFails ==
    /\ Has("site-failure")
    /\ pc = "site"
    /\ site # (want.tls # NONE)
    /\ Abort
    /\ StopJobsPerhaps
    /\ UNCHANGED <<given, files, markers, cache>>

\* Mutant: only a change of the site asks for a restart.
RequestNoWebRestart ==
    /\ Step("secured", "runner")
    /\ UNCHANGED <<given, files, markers, localisation, services, hook>>

\* request_service_restart(_SERVICE_NAME), if anything of TLS changed.
RequestWebRestart ==
    /\ Step("secured", "runner")
    /\ restarts' = restarts \union (IF hook.changed THEN {APACHE} ELSE {})
    /\ UNCHANGED <<given, files, rebuild, localisation, services, hook>>

\* _get_cache_settings writes or removes the job-runner configuration ...
WriteRunnerConfig ==
    /\ Step("runner", IF want.runner \in {NONE, runner} THEN "settings" ELSE "runner-written")
    /\ runner' = want.runner
    /\ UNCHANGED <<given, bundle, store, cert, key, site, settings, markers, localisation, services, hook>>

\* ... and asks for a restart of the job services when it wrote it.
RequestRunnerRestart ==
    /\ Step("runner-written", "settings")
    /\ restarts' = restarts \union {JOBS}
    /\ UNCHANGED <<given, files, rebuild, localisation, services, hook>>

\* _settings_reconciliation
WriteSettings ==
    /\ Step("settings", IF settings = want.settings THEN "cache" ELSE "settings-written")
    /\ settings' = want.settings
    /\ UNCHANGED <<given, bundle, store, cert, key, site, runner, markers, localisation, services, hook>>

\* _record_settings_change
RecordSettingsChange ==
    /\ Step("settings-written", "cache")
    /\ rebuild' = TRUE
    /\ UNCHANGED <<given, files, restarts, localisation, services, hook>>

RebuildPending == rebuild \/ recorded # image

\* _localisation_cache_reconciliation
RebuildCache ==
    /\ RebuildPending
    /\ Step("cache", "services")
    /\ cache' = [image |-> image, settings |-> settings]
    /\ rebuild' = FALSE
    /\ Remember([hook EXCEPT !.rebuilt = TRUE])
    /\ UNCHANGED <<given, files, restarts, recorded, services>>

\* Mutant: the marker is cleared before the rebuild.
RebuildFailsUnmarked ==
    /\ Has("status-failure")
    /\ RebuildPending
    /\ pc = "cache"
    /\ rebuild' = FALSE
    /\ Flush
    /\ StopJobsPerhaps
    /\ UNCHANGED <<given, files, restarts, cache>>

RebuildFails ==
    /\ Has("status-failure")
    /\ RebuildPending
    /\ pc = "cache"
    /\ rebuild' = TRUE
    /\ Flush
    /\ StopJobsPerhaps
    /\ UNCHANGED <<given, files, restarts, cache>>

KeepCache ==
    /\ ~RebuildPending
    /\ Step("cache", "services")
    /\ UNCHANGED <<given, files, markers, localisation, services, hook>>

\* What the services in S read when they start now; the others keep what they read.
Load(S) == [apache |-> IF APACHE \in S THEN Current.apache ELSE loaded.apache,
            jobs |-> IF JOBS \in S THEN Current.jobs ELSE loaded.jobs]

\* Mutant: the job workers are started whether or not they are configured.
ReconcileServicesUnconfigured ==
    /\ Step("services", "restart")
    /\ running' = Services
    /\ loaded' = Load(running' \ running)
    /\ Remember([hook EXCEPT !.kept = running \intersect running'])
    /\ UNCHANGED <<given, files, markers, localisation>>

\* _reconcile_services: stop what should not run and start what should.  The mode may
\* forbid the job workers.
ReconcileServices ==
    /\ Step("services", "restart")
    /\ \E jobWorkers \in SUBSET {JOBS} :
          running' = {APACHE} \union (IF runner = NONE THEN {} ELSE jobWorkers)
    /\ loaded' = Load(running' \ running)
    /\ Remember([hook EXCEPT !.kept = running \intersect running'])
    /\ UNCHANGED <<given, files, markers, localisation>>

\* Mutant: no service is restarted.
RestartNothing ==
    /\ Step("restart", "clear")
    /\ UNCHANGED <<given, files, markers, localisation, services, hook>>

\* _finish_active_service_reconciliation: the services that ran before and still owe a
\* restart are restarted, and nothing is owed any more.
RestartPending ==
    /\ Step("restart", "clear")
    /\ loaded' = Load(restarts \intersect hook.kept)
    /\ UNCHANGED <<given, files, markers, localisation, running, hook>>

ClearRestarts ==
    /\ pc = "clear"
    /\ restarts' = {}
    /\ Flush
    /\ UNCHANGED <<given, files, rebuild, cache, services>>

----------------------------------------------------------------------------
(* Failures between the steps, and what happens around the hook.           *)

\* Pebble fails part of the way through _reconcile_services.
ServicesFail ==
    /\ Has("service-failure")
    /\ pc \in {"services", "restart"}
    /\ \E stopped \in SUBSET running, started \in SUBSET Services :
          /\ JOBS \in started => runner # NONE
          /\ running' = (running \ stopped) \union started
          /\ loaded' = Load(started)
    /\ Abort
    /\ UNCHANGED <<given, files, markers, cache>>

\* A step before or between the file changes raises a status, which ends the hook well.
EndWithStatus ==
    /\ Has("status-failure")
    /\ pc \in {"bundle", "certificate", "runner", "cache"}
    /\ Flush
    /\ StopJobsPerhaps
    /\ UNCHANGED <<given, files, markers, cache>>

\* A change is made and not yet recorded.  A new certificate with a key that is already in
\* place leaves nothing for the next hook to find changed.
Unrecorded ==
    \/ pc \in {"refresh", "trusted", "site", "secured", "runner-written", "settings-written"}
    \/ pc = "key" /\ hook.changed /\ key = KeyFor(want.tls)

HookError ==
    /\ pc # "idle"
    /\ \/ Has("hook-error") /\ ~Unrecorded
       \/ Has("unmarked-crash") /\ Unrecorded
       \/ Has("refresh-cut-off") /\ pc \in {"refresh", "trusted"}
    /\ Abort
    /\ StopJobsPerhaps
    /\ UNCHANGED <<given, files, markers, cache>>

\* The database relation is gone: _reconcile_services(workload_active=False).
StopWorkload ==
    /\ Has("status-failure")
    /\ pc = "idle"
    /\ running # {}
    /\ running' = {}
    /\ UNCHANGED <<given, files, markers, localisation, loaded, pc, hook>>

\* A hook sees relations and configuration as they were when it began.
Change ==
    /\ pc = "idle"
    /\ changes < MaxChanges
    /\ \/ \E v \in Content \ {want.trust} : want' = [want EXCEPT !.trust = v]
       \/ \E c \in Issued \ {want.tls} : want' = [want EXCEPT !.tls = c]
       \/ \E v \in Content \ {want.runner} : want' = [want EXCEPT !.runner = v]
       \/ \E v \in Versions \ {want.settings} : want' = [want EXCEPT !.settings = v]
    /\ changes' = changes + 1
    /\ UNCHANGED <<image, files, markers, localisation, services, pc, hook>>

\* A new container, perhaps of another image; the cache storage outlives it, and with it
\* the rebuild marker.
PodRestart ==
    /\ Has("pod-restart")
    /\ changes < MaxChanges
    /\ changes' = changes + 1
    /\ image' \in Images
    /\ bundle' = NONE /\ store' = NONE /\ cert' = NONE /\ key' = NONE
    /\ site' = FALSE
    /\ runner' = NONE /\ settings' = NONE
    /\ restarts' = {}
    /\ running' = {}
    /\ loaded' = NotLoaded
    /\ Abort
    /\ UNCHANGED <<want, rebuild, cache>>

Hook ==
    \/ Begin \/ InstallBundle \/ KeepBundle \/ RefreshTrustStore \/ RequestJobRestart
    \/ WriteCertificate \/ WriteKey \/ EnableSite \/ RequestWebRestart
    \/ WriteRunnerConfig \/ RequestRunnerRestart \/ WriteSettings \/ RecordSettingsChange
    \/ RebuildCache \/ KeepCache \/ ReconcileServices \/ RestartPending \/ ClearRestarts

Failure ==
    \/ RefreshFails \/ SiteFails \/ RebuildFails \/ ServicesFail
    \/ EndWithStatus \/ HookError

Next == Hook \/ Failure \/ StopWorkload \/ Change \/ PodRestart

Spec == Init /\ [][Next]_vars

----------------------------------------------------------------------------
(* Properties.                                                             *)

\* The key is the certificate's, and the site is enabled just if there is one.
TlsFits == key = KeyFor(cert) /\ site = (cert # NONE)

\* Whatever ended the last hook, a service that runs on files that have changed since it
\* started is listed in the restart marker, unless the next reconciliation cannot miss it:
\* TLS files that do not fit each other differ from any that are wanted, and a job service
\* that has lost its configuration will be stopped.  (A hook that ends between a change and
\* its marker is excepted, by the faults: after a renewal that keeps the key it leaves
\* Apache on the old certificate, and nothing that tells.)
RestartsAreOwed ==
    pc = "idle" =>
        \A s \in running : \/ loaded[s] = Current[s]
                           \/ s \in restarts
                           \/ s = APACHE /\ ~TlsFits
                           \/ s = JOBS /\ runner = NONE

\* Likewise a localisation cache that was built from other settings or by another version
\* is due to be rebuilt, by its marker, by the recorded version, or because the settings
\* files themselves are gone and will be written again.
RebuildIsOwed ==
    pc = "idle" =>
        \/ cache = [image |-> image, settings |-> settings]
        \/ rebuild \/ recorded # image \/ settings = NONE

\* The trust store holds the bundle on disk, so that an unchanged bundle needs no refresh.
TrustStoreHoldsBundle == pc = "idle" => store = bundle

\* A reconciliation that reaches its end leaves everything as it was asked for, and every
\* service that runs, and the cache, up to date with it.
ReconciledWorkloadIsCurrent ==
    pc = "clear" =>
        /\ <<bundle, store>> = <<want.trust, want.trust>>
        /\ <<cert, key, site>> = <<want.tls, KeyFor(want.tls), want.tls # NONE>>
        /\ <<runner, settings>> = <<want.runner, want.settings>>
        /\ cache = [image |-> image, settings |-> settings]
        /\ APACHE \in running
        /\ \A s \in running : loaded[s] = Current[s]
=============================================================================
