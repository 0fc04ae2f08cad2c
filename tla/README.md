# A verification of the MediaWiki charm

TLA+ models, TLC runs and TLAPS proofs for the MediaWiki Kubernetes charm (`src/src`): a
Juju operator whose units run PHP-FPM, Apache and job workers in a container, share one
MySQL database, coordinate through a peer relation, and use the charm libraries in `src/lib`
to work with other applications.

## The system

Every event of a unit ends in one handler, `Charm._reconciliation` (charm.py), which brings the
unit's containers from whatever state they are in to the one that configuration, relations and
peer data ask for. There is no other loop: nothing polls, and a hook that ends with a `Waiting`
or `Blocked` status spends its event.

What the models rely on of Juju:

- a unit runs one hook or action at a time; hooks of different units run concurrently;
- a hook sees relation data and configuration as they were when it began (its own writes
  excepted), while `is_leader()` is asked afresh;
- what it writes to relation data and secrets is held back and applied, all or nothing, when it
  ends well; a failed hook leaves nothing there and runs again; a unit that is not the leader is
  refused application data;
- a change of relation data is announced at least once, application data also to the unit that
  wrote it (the charm's design document, docs/explanation/charm-design.rst, lines 105 and 135,
  builds on this);
- what a hook does to the containers and to the database takes effect at once, and stays.

The gap between the last two points, and the concurrency of the units, is where the charm is
hard to test, and what most of the models are about.

### Inventory

| Component | State | Operations | Interacts with | Hard behaviour | Correct when |
|---|---|---|---|---|---|
| Operation modes (`mediawiki_peers.py`, `_core.py`) | `operation_mode` in the application's and each unit's databag | request an update, a forced reconciliation, maintenance and its end; acknowledge; complete at a barrier | actions, reconciliation, database | acknowledgements of other requests, hooks that read the mode earlier, failing hooks, leader changes, joining and leaving units | no edits under a schema update; no completion before everyone applied; requests complete |
| Database write protection (`relations/database.py`) | `READ ONLY` of the database | `set_read_only` | maintenance action, schema update | failure after ALTER DATABASE | maintenance only over a protected database |
| Installation, schema update, surrogate keys, storage engine (`_core.py`, `_database.py`) | schema, flag table, tables without a primary key, blanked user settings | install, retry, reset, wait, update, DDL | leadership, all units | every statement may be the last one; two leaders; bounded waits | a flagged database is complete; content is never dropped; a key is never lost; every unit comes to serve |
| Composer (`_composer.py`, `_core.py`) | `composer.user.json`, `composer.lock`, packages; published lock and hash | update, install, skip, bootstrap, wait, publish | leader and followers, settings | failure or timeout half-way, stale locks, leadership lost meanwhile, new pods | settings never meet packages of another configuration; followers hold the leader's |
| Replica secrets (`_secrets.py`, peers) | Juju secret of the application | create, migrate, rotate, wait | every unit, events of the secret | fields added by an upgrade, failing leader hooks, elections | served secrets are shared; only a rotation changes a field |
| Localisation cache and restarts (`_cache.py`, `_base.py`) | two marker files, recorded version | request, rebuild, restart, clear | settings, TLS, trust store, composer, Pebble | cycles that end between a change and what it entails | nothing owed is lost |
| Trust store (`relations/certificate_transfer.py`), TLS (`relations/tls.py`, `_tls.py`) | CA bundle, system store; certificate, key, Apache site | install, refresh, roll back; write, remove, enable | job workers, Apache | separate changes, each of which may fail | store and Apache fit what is on disk |
| Services (`_core.py`) | Pebble plan, running services | replan, start, stop, restart | markers, modes | Pebble fails half-way | running services are current |
| Settings (`_settings.py`) | settings files, SimpleSAMLphp's, `JobRunnerConfig.json` | render, defer errors | all relations | written one by one; an error is raised later | what the settings rely on is there |
| Git sync (`git_sync.py`) | sidecar's files and service, assets | reconcile, disable, withdraw | SSH keys, proxies, a sidecar that runs on its own | a failure forces it off | comes back; withdrawn assets stay away |
| Shellbox (`shellbox.py`) | key in the unit's secret, in a file, in php-fpm | create, write, replan | settings | the secret is lost with the hook, the file is not | one key |
| Egress (`egress.py`, `utils.py`) | tunnel registry of a hook | proxy routes, no-proxy, tunnels, known hosts | settings, sidecars | error paths that skip a registration | mail has a route |
| Ingress (`charm.py`, traefik_route) | route in the relation | submit | TLS, certificates | submitted before the hook can fail | current |
| OAuth, MediaWiki API client (`relations/auth.py`, `mediawiki_api.py`) | client registered with the provider | register, query | the running wiki | needs a unit that was reconciled before | registered for the current origin |
| S3, SMTP, SAML, Valkey, database, certificates, Loki (`relations/`, `lib/`) | databags and secrets of both ends, the copy for the next diff | the libraries' handlers | other applications | events that are not emitted, hooks that fail, new pods, elections | no change is missed |
| Observability (`lib/`: Prometheus, Grafana, Loki) | jobs, addresses, dashboards, rules, error reports | publish, read, convert, report back | other applications | events missed by one end, reports left over, names that collide | what is published is what is shown |
| Log redaction (`log_redaction.py`), container client (`container.py`) | values registered in a hook | register, mask; run a command | every credential | overlapping values, other representations, unanswered commands | no credential is logged; actions tell what happened |
| Operator actions (`charm.py`) | users, modes | create a user, run a script, request an operation, report | modes, wiki | retries, refusals | as above |

`PROJECT.json` lists every component with its status, and under `hazards` the places in this
code where something can go wrong that a test would hardly reach.

## The modules

| Module | What it models |
|---|---|
| `OperationMode` | the modes (`types_.py`) and what they mean for job workers and the barrier |
| `OperationCoordination` | the modes across units: reconciliation, actions, barrier, schema update |
| `EditFreeze`, `EditFreezeRefinement` | what a requested database update promises, and the mapping under which the protocol implements it |
| `DatabaseSetup`, `SurrogateKeys` | installation, schema update and DDL in the shared database; one table's key |
| `ComposerSync` | composer, its files and the published lock, across units |
| `ComposerAgreement`, `ComposerRefinement` | what units agree on about packages, and the mapping under which the hooks implement it |
| `ReplicaSecrets` | the application's secret across units and revisions of the charm |
| `PendingWork` | files, markers, cache and services of one unit |
| `UnitWorkload` with `GitSync`, `Shellbox`, `UnitSettings`, `Egress`, `Pebble` | one unit's three containers, the ingress route and OAuth, in the order of a reconciliation |
| `Integrations` with `DataInterfaces`, `CertificateTransfer`, `Telemetry` | one relation with another application, of any of seven kinds, both ends |
| `Monitoring` | Prometheus and Grafana, several applications of them, both ends |
| `ObservedContent` with `GrafanaDashboards`, `ScrapeTargets`, `AlertRules`, `RelationFields`, `LogRedaction`, `UnitActions` | what the libraries and the charm make of data: functions, checked over families of inputs |
| `OperationCoordinationProofs` (with the refinement of `EditFreeze`), `DatabaseSetupProofs`, `ComposerAndContentProofs`, `PendingWorkProofs`, `ReplicaSecretsProofs`, `UnitWorkloadProofs`, `IntegrationsProofs`, `MonitoringProofs` | theorems |
| `MC...` | constants, families of inputs and symmetry sets for TLC |

### OperationCoordination

`pc[u]` is where unit u's hook or action is, `snap[u]` the mode it read or is about to publish.
`configuring` to `acknowledged` are the stages of a reconciliation; each ends where another unit
could see a difference: settings rendered (`ConfigurationOk`; PHP reads them at every request,
so a running `site` follows), services reconciled, the barrier decided, the update run, and the
flush (`FlushAcknowledgement`, `FlushCompletion`). Once the settings are rendered the services may
be reconciled, Pebble may be out of reach (`ServicesUnreachable`, a Waiting status that leaves them
alone), or one of its changes may fail, which no handler catches (`ServicesFail`, `HookError`).
Requests are two or three steps: the checks, `set_read_only`, the flush. `dirty[u]` says that an
event is due to u; `Announce` raises it as Juju does. `forced` and `interrupted` are history
variables; the second holds the units whose services were last left in one of these ways.

`Faults` selects what may go wrong, so that a run can say under which assumptions its properties
hold. The mode that one unit reads is atomic with the start of its reconciliation; the time a
hook waits before that (git-sync, shellbox) is time in which nothing has been read.

### EditFreeze

A wiki is `Frozen` while an update is requested. Units promise not to accept edits; the update
runs only under everyone's promise; a promise is kept until the update is over; and the freeze
ends only after an update that ran to its end. `EditFreezeRefinement` maps the application's mode,
the acknowledgements and the leader's step to these.

### DatabaseSetup

`schema` is how far MediaWiki's own scripts have come, `table` the tables that it ships without
a primary key (`SurrogateKeys`), `flag` the table `mediawiki_charm_setup`, and `content` whatever
an installation did not create. `pc[u]` is the step of the unit's hook: attempt, reset and
restore of `_install`, the schema update that both installation and barrier use (`hook[u].then`
says what follows), and under it one step for each ALTER TABLE. A script or statement may fail
before or after it took effect, the hook may die anywhere, and what a hook remembers, above all
that it found the database empty, dies with it. `Waiting` is the bounded wait of the others.

### ComposerSync

A lock is abstracted to the dependencies it resolves and how far upstream was; the state hash to
the configuration it is computed from (blake2b does not collide). `Read` is what a hook reads
before it turns to composer. A run has two steps, because it may take minutes: the files are
written first (`RunComposer`), the outcome comes later (`ComposerSucceeds`, `ComposerFails`). The
mode of a hook is any of `Modes`; what the modes do to each other is OperationCoordination's
subject. `PARTIAL` packages stand for whatever a failed run leaves behind.

### ComposerAgreement

Without files, hooks or failures: a unit sets out for a configuration, either to resolve packages
itself or to take exactly those that it saw published; it ends up with packages that fit, or gives
up; and the leader alone publishes, what it is ready to run with. `ComposerRefinement` maps a hook
to a plan from what it has read, and settings that are about to be served to `ready`.

### ReplicaSecrets

A content gives every field the generation of its value, 0 if it is missing. `shared` is what was
ever in the secret. A unit of an older revision knows only `OldFields`; `Upgrade` gives it the
newer charm. `rendered[u]` is what the unit serves with; a leader renders what it wrote before
Juju has accepted it, and Juju refuses it of a unit that is no longer the leader.

### PendingWork

One unit, and a step for each write to the container, in the code's order. A file's content is
one of `Versions`; TLS material is a certificate and its key, which are compared and written one
after the other, and several certificates may have one key (a renewal that keeps it). `want` is what relations and configuration ask for. It can change only between
hooks, which see a snapshot; so the steps of a hook agree. The group of settings files is one
file: each of them is followed by the same record. Composer has a module of its own; its
rebuild request goes through the same marker, so its inputs are not repeated here. Whether the
mode allows job workers is left open at every reconciliation, since another hook may find
another mode. Apache stands for the web services, `jobs` for the job workers.

### UnitWorkload

`want` is the configuration, all relations included, that may change between hooks; `seen` what
the running hook has read. The steps follow `_reconciliation`: the ingress route, git-sync (SSH files,
known hosts, sparse checkout, plan, withdrawal of assets), Shellbox (key, php-fpm), then the
MediaWiki container (Apache's site and SSH files, SimpleSAMLphp, LateSettings.php,
LocalSettings.php, tunnel and services) and OAuth's client, whose address is asked of the wiki. Each step may end the hook
with a status, and at any of them it may die: relation data and secrets are lost then, files and
services are not. `GitSyncs` is the sidecar at its own pace. `UnitSettings` says what the settings
files contain as a function of the configuration; `Pebble`, external code, what a replan does.

### Integrations

The relation is `theirs` (the other application's databag), `remote` (its units'), `ours` and
`bag` (this unit's, where data_interfaces keeps the copy for the next diff). `meant` is what the
other application would have us use. Each unit has the events that Juju owes it in `due`; the
libraries decide which of them the charm hears of (`DatabaseEvent`, `Emits`, `Reconciles`), and
only then does it read. A reconciliation may end with a status before it comes to the relation
(fault `status`): the event is spent, and `missed` remembers the unit. Which events Juju owes whom, how a pod is replaced, and how units see a
relation appear and go, are the environment.

### Monitoring

The options, pod addresses and revision that the leader publishes, and the other applications'
units with what they scrape or show. Several relations may lead to one application's units. The
leader of the other application is fixed: a Grafana unit that is elected while an event is on its
way may handle it as a leader that has nothing to do, and no other unit shows the dashboard.

### ObservedContent

A state machine only in name: an initial state for each input of a family, and a step that
applies the code's function to it. What is compared is the input and the outcome, stated without
the function. The families of `MCObservedContent` are chosen for what the code tells apart: data
sources in every form that `_replace_all_datasources` distinguishes, plain, as a variable, with only
one of `$` and braces, as a string, an object or neither, with and without inputs and an author's own
variables, some with our names; expressions that parse or do not and ranges like the placeholder;
dashboards that share a uid, from relations whose ids are strings ("9" comes after "10"); jobs that
share names, wildcard and listed targets, hosts that are
one unit's or nobody's, rule groups with and without topology, valid or not; sequences of a
provider's writes, deletions and failing hooks; log lines from values in every representation,
with and without a separator, values that are a part of each other or of a key, secrets that were
rotated or cannot be read; and every pair of an operator's actions with every outcome of their
commands and every ending of a reconciliation. The assumptions on the constants say what any input is like, so that the theorems need
no family.

## Runs

| Run | Instance | Shows |
|---|---|---|
| `ModesSafety` | 2 units, all requests, six kinds of faults | the barrier and the acknowledgements hold; the protocol implements `EditFreeze` |
| `ModesUnstable` | 2 units, joining, leaving, leadership lost under an update, hooks that die, pods that restart, Pebble that fails or is out of reach | what maintenance promises needs no stable application |
| `ModesLiveness` | 2 units, update and maintenance, hook errors | requests complete, units converge |
| `DatabaseSetup` | 2 units, 2 tables, 2 attempts, 4 faults, 1 update | the database is set up once, completely, without loss, from wherever it was left; every unit comes to serve |
| `ComposerSync` | 2 units, options with and without dependencies, 1 release | packages, settings and published lock belong together; the hooks implement `ComposerAgreement` |
| `ComposerRecovery` | the same, composer failures and leader changes | units recover and agree |
| `ReplicaSecrets` | 2 units, 2 fields one of which is new, 2 elections, 2 rotations, 1 failure | units use one secret, and keep it through an upgrade |
| `PendingWork` | 3 certificates with 2 keys, 2 contents, 2 images, 2 changes; 735 260 states | no restart, rebuild or refresh is lost |
| `UnitWorkload` | 14 options, up to 2 of them changed, 1 fault | the three containers agree and come to reflect the configuration |
| `Integrations` | 7 kinds, 2 units on each side, 2 relations one after the other, 2 changes, 1 accident, reconciliations that spend an event with a status; 4 408 856 states | no change is missed; what is asked for is current |
| `Monitoring` | 2 units, 2 applications of Prometheus or 2 units of Grafana, 2 changes, 1 accident | what is published is scraped and shown; reports are current |
| `ObservedContent` | the families of `MCObservedContent`, 465 328 states | nothing is lost, mistaken, or let out on the way |

Why the bounds are enough to be interesting. Two units give a leader and a peer in every
combination, and the leader's role moves between them; the proofs cover every number. One
upstream release is enough for two resolutions of the same dependencies to differ. Two changes
let a file, an option or a databag change away and back before anything reacts; the proofs cover
any number. Two tables let a hook stop at the first and at a later one, two attempts are a first
one and one that finds the remains of another, and four faults let every attempt fail in another
way and a hook die besides. Two relations, one after the other, show what is left of a first one.
In `ObservedContent` inputs have up to three parts, which is enough for two of them to collide
before or after a third. `CHECK_DEADLOCK FALSE` is set everywhere because the system really may
stop: an operator who asks for nothing, and no event, leave nothing to do. Symmetry is used only
in runs without temporal properties other than action properties and the refinement of safety.

Fairness. In `OperationCoordination` a hook that runs goes on (`WF` of `Progress`): Juju runs a
hook to its end. An event that is due begins a hook: `SF`, since the operator's actions may
occupy the unit in between, but never for ever. Faults stop at some point, without which nothing
could be promised; nothing is assumed about the operator. `ComposerSync` assumes the same, with
`WF` for the start of hooks, and that the operator leaves the configuration alone at some point.
`UnitsSynchronize` is conditional on further events arriving: a hook that ends with a status
spends its event and the charm has no timer, so a unit that waits is not promised another one
unless the leader publishes. In `DatabaseSetup` hooks proceed, a wait ends (it has a deadline),
faults are bounded, and, again as an assumption, a unit that does not serve is given another event. In
`UnitWorkload` an event that is due is handled, a hook proceeds, the git-sync that runs checks out
sooner or later, and the provider of OAuth answers. In `ReplicaSecrets` events are handled and an
upgrade reaches every unit in the end; `UnitsAgree` is conditional on leadership staying where
it is, because after an election in the middle of an upgrade nobody completes the secret until
another event.

## Findings

Where the code does not do what its documents or comments lead one to expect. No run checks
these; the definitions are there, with comments, and TLC finds them violated when one is listed
in a configuration, or when the fault that is named is added to a passing run; 10 and 11 are what the
properties named there state.

1. `SchemaUpdateWritable` (OperationCoordination, with `database-failure`): `set_read_only` can
   fail after its ALTER DATABASE took effect. The mode stays normal, the database stays
   read-only, and a database update is accepted that cannot run
   (docs/explanation/charm-design.rst:73).
2. `AcknowledgedMaintenanceIsApplied` (requests of maintenance): maintenance can be ended and
   requested again while a hook of the first request is in flight, whose late acknowledgement
   then stands for the second.
3. `CoordinatedOperationCompletes` with `leader-change` or `scale-down`: neither `leader_elected`
   nor `relation_departed` reconciles; an operation acknowledged by everyone can stay pending.
4. `SettingsFindTheirPackages` with `composer-cut-off`: a composer run that times out is not
   marked as failed; the next cycle skips composer and starts on the old packages.
5. `StaleLockIsReinstalled`: a pristine non-leader without configured dependencies never compares
   locks (docs/explanation/charm-design.rst:198).
6. `RouteIsServed` (UnitWorkload): the route to port 443 is submitted before the hook has given
   Apache the certificate, and a hook that then ends as blocked keeps it.
7. `InputsAreFollowed` of certificates with `early-certificates`: in version 0 of the interface a
   second reading in the same hook looks at another unit's certificates or at none.
8. `RestartsAreOwed` and `ReconciledWorkloadIsCurrent` with `unmarked-crash`: certificate and key are
   compared and written separately (tls.py:106). If a renewal keeps the key and the hook ends
   after the certificate is written and before Apache is marked, the next hook finds nothing
   changed: `_tls_reconciliation` does not say that Apache must be restarted (_tls.py:22), and a
   reconciliation reaches its end with Apache on the old certificate.
9. `NoJobsUnderMaintenanceSettings` without its exception: maintenance settings are rendered before
   the workers are stopped. If Pebble is out of reach then (_core.py:485), if its change fails
   (_core.py:527), or if the hook dies there, the workers run on until a later reconciliation comes
   as far as the services, and the Waiting status has spent the event.
10. `DashboardsAreShownOnce`: of equal versions the dashboard of the "highest relid" is to be kept
   (grafana_dashboard.py:1841); ids are compared as strings, so relation 9 wins over relation 10.
11. `ActionsTellWhatHappened`: `force-reconciliation` of one unit logs that it completed
   (charm.py:632) also when the reconciliation ended early with a status (charm.py:407); only the
   unit's status tells.

More show up when a fault is added to a passing run, and are listed as hazards: a unit that
joins (`scale-up`, `lagging-membership`) is not waited for by the barrier or serves settings that
accept edits under an update; a unit that becomes leader in the middle of a hook
(`mid-hook-gain`) completes an operation that is over; a unit whose install failed and that
becomes leader (`failed-successor`) publishes an empty lock; an update that outlives its unit's
leadership (`update-loss`) runs on after another leader has returned the application to normal; a
refresh of the trust store that times out, or a bundle that cannot be restored
(`refresh-cut-off`, `restore-failure`), leaves a store that no later reconciliation refreshes; a leader that is
replaced while its hook runs (`lease-expiry`) installs at the same time as its successor, and
either may drop what the other has made; a leader that loses the lead and regains it within one
hook (`lease-return`) overwrites what was rotated meanwhile.

What the properties had to except, and a reader of the code may want to know:

- An error of S3, SMTP or authentication is raised after LateSettings.php and the SAML files are
  written and before LocalSettings.php and the tunnel are. So mail has its route only after a hook
  that ended Active (`SettingsAreServed`), and the key of Shellbox may differ until then.
- SAML without a usable Valkey drops OAuth too; incomplete Valkey data counts as no Valkey.
- A forced disabling of git-sync does not stop a service that runs.
- A hook that finds an invalid model proxy returns from `StatefulCharmBase.__init__` without
  `self.state`.
- A query of the MediaWiki API that fails blocks the unit, and no event repeats it
  (`EventuallyReflected` excepts it).
- The leader is not told of its own rotation of the replica secret and serves the old one until
  its next event (`UnitsAgree` excepts it).
- The route for Traefik is not submitted again after an election, and the database is never
  asked for when leadership moves between the hooks of relation-created (`PublicationsAreCurrent`
  is about a leader that stays). Alert rules are not published again on an upgrade of the charm.
- `relation_changed` of SMTP catches only `ValidationError` (smtp.py:408).
- `_delete_relation_secret` of data_interfaces pops all fields of a call from each group's secret:
  a deletion that spans groups, or names an absent field, deletes nothing from secrets
  (`FieldsAreFound` excepts it).
- In dashboards an author's variable named `prometheusds` or `lokids` is removed without ours being
  inserted, if a panel names it in another way than we do (`Displaced`); without templating an
  input's type does not count, so that a Loki input may become the Prometheus variable (`Misread`);
  inputs of other types are deleted and who names them is left without a value (`Orphaned`); a
  range or offset `5y` is taken for the placeholder. `PanelsKeepTheirMeaning` excepts these four.
  Not converted at all, and not claimed: data sources of a panel's queries, of query variables and
  of annotations, and panels within collapsed row panels. Panels of old-style rows get no labels. Two
  files with one stem overwrite each other.
- Loki names a file of rules only by its identifier: of relations with one identifier the last that
  publishes rules decides, and an invalid one takes the others' rules away (`RulesAreLoaded` says
  so). Errors that were reported stay when there are no rules any more, no units, or none that can be
  read. Without scrape metadata a `*` target stays unexpanded.
- A create-and-promote whose command is not answered may have set a password that nobody knows;
  the action with `force` recovers the user.
- Log redaction registers the tracked and the latest revision of a secret; a value that a file
  still holds and that is older than both is not masked. All values are registered before the first
  line; a value registered after the expression was built (log_redaction.py:78) is not modelled.
- A reconciliation that ends with a status spends its event; `InputsAreFollowed` and the route of
  `PublicationsAreCurrent` except the units whose last one ended before it came to the relation
  (`missed`).

Hazards that no property covers, because the code makes no promise there that holds or the runs leave
the case out, are in `PROJECT.json` with a note instead of a property: a unit that becomes leader in
the middle of a hook, leadership or departure during a pending operation, a mode of another revision,
a composer run that is cut off, and an election between the hooks that should ask for the database.

## What is proved

For any finite set of units, any contents and any number of changes and faults, with TLAPS:

- **Types** (`TypeCorrect` in five modules; in the others they are conjuncts of the inductive
  invariants). No run lists the type invariants: the theorems say more than TLC can.
- **Modes.** `ProtocolInvariant` and from it `UpdateIsQuiesced`, `UpdateIsProtected`,
  `AcknowledgedUpdateHolds`, `ForcedIsComplete`, `ProtectionIsFirst`. Assumption: a stable
  application (`StableApplication`: no unit joins, and leadership neither reaches a unit in the
  middle of a hook nor leaves one that runs an update); hooks may fail, pods restart, units leave
  and leaders change. The properties are not inductive: that no unit accepts edits under an
  update follows only from what each acknowledgement binds its unit to, which stale hooks may
  still be under way, and that a request finds no acknowledgement left over. `ProtocolInv` names
  these one by one. `MaintenanceStopsWorkers` has no assumption: under every fault, a unit whose
  settings are those of maintenance runs job workers at most between the steps that render the
  settings and stop them, or if it is one of `interrupted` (`WorkersFollowSettings`).
- **Refinement.** `ProtocolImplementsEditFreeze`: the initial states map to initial states and
  each step to a step of `EditFreeze` or a stutter, for a fixed membership.
- **Database.** `InstalledCompletely`, `NeverServedBlank`, `KeysAreReconciled`, `ContentIsKept` and
  `ComplianceIsKept`, for any tables and attempts. Assumption `LeaseHolds`: a leader is not
  replaced while its hook runs. The inductive invariant `IInv` adds that only the leader works on
  the database (`OneBusy`); that a hook which found it empty still finds nothing but its own
  work, which is what makes a reset safe (`EmptyMeansEmpty`); where user settings are blank
  (`Settings`); and what the update has achieved at each statement (`Updated`).
- **Composer.** `SyncInvariant`, and from it `PublishedLockFits`, `SettingsHavePackages`,
  `FollowersHoldPackages`. Assumption `FailuresAreMarked`: a run is not cut off, and no unit with
  a cleared lock becomes leader; both are shown necessary by finding 4 and its neighbour hazard.
  The argument: files without a failure mark agree with the packages (`FilesAgree`), and the mark
  lies where the next kind of run looks for it (`ResolversKeepTheirLock`). From the same invariant
  and under the same assumption `HooksImplementAgreement`, the refinement of `ComposerAgreement`,
  step by step: a hook that reads sets out, one that renders its settings is ready, one that
  flushes publishes, and every step of composer stutters.
- **Pending work.** `WorkInvariant`, and from it `RestartsAreMarked`, `RebuildIsMarked`,
  `TrustStoreFollows` (`TrustStoreHoldsBundle`, which no run lists), `ReconciliationIsComplete`.
  Assumption `FailuresAreAnswered`: a bundle can be restored, a refresh is not cut off, and the
  hook does not end exactly between a change and its marker (`Unrecorded`). The delicate part is Apache
  (`ApacheOwed`): whether TLS changed is remembered only by the hook. A running Apache has the
  files as they are, or is marked, or the key or the site does not fit the certificate, which the next
  hook cannot miss, or the hook that changed them is between the key and the marker and remembers.
  A certificate renewed with its key fits at once, which is why a hook that ends right after
  writing it has to be excepted: nothing then tells the next one (finding 8).
- **Replica secrets.** `ServedIsShared` and `SecretStaysComplete` without any assumption: what a
  unit serves is in the shared secret, or in the hands of its running hook, or a reconciliation
  is due to it (`Supported`). `FieldsAreKept`, an action property, under the assumption that
  leadership does not return to a unit within one hook (`lease-return`, the hazard at
  mediawiki_peers.py:339): what the leader's hook has written was computed from the secret that is
  still there when it ends (`LeaderWrites`).
- **One unit's containers.** `AssetsWithdrawn`, `ShellboxAgrees` and `SettingsServed`, for whatever
  options are asked for, in any order, with hooks that die at any step. None of the properties is
  inductive. git-sync may check out at any time, so `AssetsInv` says from which step on it sleeps;
  php-fpm may restart at any time and reads a key that a dead hook left, so `KeyInv` says that a key
  which it has not read is there only as long as the unit has no secret; and `SettingsInv` follows
  each container from the step that writes it, past the error that is deferred.
- **Relations.** `PublicationsCurrent`, without assumption, and `InputsFollowed`, under the one
  that a provider of certificates waits for the version that the requirer speaks
  (`early-certificates`, finding 7). Both hold with reconciliations that end with a status, of every
  unit that is not in `missed`. The first: as long as leadership stays, what is wanted is
  published, or in the hand of the leader's hook, or due to it (`PublicationInv`). The second: each
  unit that follows a relation has what is meant, or has an event to handle of which the libraries
  will tell the charm (`FollowsInv`). Whether they do depends on the copy that the unit compares
  the databag with, also on the one that is lost if its hook fails, so `FollowsInv` says it of both, for
  every kind of relation; `GivenInv` says that such a copy is an earlier state of the databag,
  and `UnreadInv` what a unit has before it sees the relation and after.
- **Monitoring.** `MonitoringCurrent` and `ReportsCurrent`, without assumption: hooks fail, pods
  move, leaders and units come and go, relations are removed and made again. `IInv` follows a change
  through five hands: the leader will publish (`PublishedInv`, which needs that an option which
  changes during a hook is due again, `OptionInv`), each unit will publish its address
  (`AddressInv`), Prometheus has scraped what is published or been told (`ScrapedInv`), Grafana's
  leader has stored it or been told (`RenderedInv`), and its other units show it or have been told
  (`ShownInv`). `GoneInv` is why nothing of an earlier relation comes back. That the jobs which are
  listed again make no difference is `JobsFacts`.

- **Data.** Six of the seven invariants of `ObservedContent`, for inputs of any size. Each compares an
  input with what a function makes of it, so the work is in the functions:
  - `ActionsReport`: what one action tells is what it did (`Tells`), or, of a forced reconciliation of
    one unit, that it did not raise; and a session is a chain of them, along which the password last
    told stays the user's until a command that was not answered.
  - `DashboardsAreListedOnce`: the fold over all that is stored keeps, of each uid, a dashboard that
    comes from some template and has no newer rival, which needs that the order of versions, of relation
    ids as strings and of contents is transitive (`StringsAreOrdered`).
  - `TargetsAreScrapedAsAsked`: every target of a job is in exactly one of the wildcards, those
    listed of one unit, and those of nobody, and the jobs made of these three ask for what it asked for;
    dropping jobs of one name loses nothing, because a name carries the hash of all that the job is.
  - `RulesAreLoadedAsPublished`: Prometheus's identifiers are a relation's own, so that the fold over
    relations never touches a file of another; for Loki the fold keeps, under each identifier, the
    rules of the last relation so far that publishes some, if they are valid (`KeptRules`); the format
    that is chosen is one that the reader reads.
  - `FieldsAreFoundAsWritten`: the relation simulates what the provider intended, operation by operation,
    also through hooks that fail (`Sound`): a field is in the databag or in the secret of its group, in one of
    them only, and links and secrets belong together.
  - `SecretsStayHidden`. What is registered is exactly what is called a credential in what the unit
    can read (`CredentialsAreRegistered`). What the pass puts out from any position on is, by
    induction from the end, free of patterns wherever no mask is, and up to its first mask the text
    itself (`Clean`); so no pattern is left even where two pieces come to meet. A line whose pieces
    are credentials or have none in them is masked piece by piece (`MaskedByPieces`).

A fold or a recursive function of the model is unfolded from its definition, and what it computes is
shown for every input by induction over positions, with the least counterexample that
`NaturalsInduction` and `WellFoundedInduction` provide (`Least`, `Upward`).

What the constants are assumed to be: `NONE` and the other marks are not values
(`NoneAssumption`, `UnitsAssumption`, `NothingAssumption`); the options of `UnitWorkload` have the
values between which its code tells apart (`OptionsAssumption`, `DeployedAssumption`); bounds are
numbers. The inputs of `ObservedContent` are what Juju and the charms' own files can hold: what
is called `prometheusds` or `lokids` in a dashboard is a data source of that type
(`BoardsAssumption`; of others the conversion makes ours); relations have
ids and templates names of their own (`CollectionsAssumption`, `RuleSetsAssumption`,
`ApplicationsAssumption`); groups of rules are not empty, and this library's readers read what they
tell of; a unit's password is never blank (`SessionsAssumption`). `TextsAssumption` and `SessionsAssumption`
also say what a credential is: a field that `REDACTION`, the replica secret or the SSH key's secret names,
in the relation of the endpoint that names it, and a secret that can be read is one that a
relation has told of. TLC evaluates these in every run.

`ComposerAndContentProofs` proves about `ComposerSync` and `ObservedContent`, which have nothing but
`OperationMode` in common.

Only model-checked:

- Liveness (`CoordinatedOperationCompletes`, `UnitsConverge`, `UnitsSynchronize`,
  `EventuallyServed`, `EventuallyReflected`, `UnitsAgree`), which the prover does not reach.
- `PanelsKeepTheirMeaning`. What conversion does change is named in the property (`Misread`, `Orphaned`,
  `Displaced`, the placeholder), the family of boards holds every one of these cases, and TLC finds
  the property violated when any of them is left out. That the list is complete is checked for
  that family, not for every board.

## Not modelled

- The text of PHP settings, Pebble layers, status messages and logs, and the parsing of options
  in `state.py`: data, of which the models keep what properties tell apart.
- The libraries of Valkey and OAuth are not in the repository; the models take them from how
  `relations/` uses them.
- Of the vendored libraries, what this charm and its counterparts never call: data_interfaces for
  Kafka, OpenSearch, etcd and requested entities; promtail and `LogProxyConsumer`; the aggregator
  of dashboards; cos-tool, whose verdict on a rule or job is an input. The model keeps both ends of
  a relation because the code of both is in the libraries.
- Health checks, which Pebble runs on its own, and metrics of the workload.
- A failing flush of relation data is a failing hook. Reading and writing a file is atomic.
- Elections among the units of Grafana (see Monitoring), and a third unit of any application.

## Plan

1. Modes: `OperationCoordination`, `EditFreeze` and its refinement. Done, proved.
2. `ComposerSync`, `PendingWork`. Done, proved.
3. `DatabaseSetup` with `SurrogateKeys`. Done, proved for a lease that holds.
4. `ReplicaSecrets`, `UnitWorkload`, `Integrations`, `Monitoring`. Done, proved.
5. `ObservedContent`. Done; proved but for `PanelsKeepTheirMeaning`.
6. `ComposerAgreement`, which `ComposerSync` implements. Done, proved.
