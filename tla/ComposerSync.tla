---------------------------- MODULE ComposerSync ----------------------------
(***************************************************************************)
(* How the units of one application come to the same Composer packages:    *)
(* mediawiki/_composer.py, the part of _core.py that selects and surrounds *)
(* it, and the lock and state hash that the leader publishes in the peer   *)
(* relation.  The database is initialized.                                 *)
(*                                                                         *)
(* A lock is what `composer update` resolves: the dependencies it resolves *)
(* and how far upstream was at the time.  The state hash stands for the    *)
(* configuration it is computed from.                                      *)
(***************************************************************************)
EXTENDS OperationMode, Naturals

CONSTANTS
    Units,
    Dependencies,    \* values of the composer option
    NoDependencies,  \* its empty value
    LocalSettings,   \* values of the local-settings option
    MaxRelease,      \* bound: how often upstream packages are released
    Modes,           \* the operation modes a hook may find
    Faults

FaultKinds ==
    { "composer-failure",  \* composer exits with an error
      "composer-cut-off",  \* it times out, or the hook dies while it runs
      "hook-error",        \* a hook fails or dies elsewhere
      "status-failure",    \* a hook ends early with a Waiting or Blocked status
      "pod-restart",
      "leader-change",     \* leadership moves, to an idle unit with a whole lock file
      "lease-loss",        \* ... from a unit that runs a hook
      "failed-successor" } \* ... to any unit

ASSUME UnitsAssumption == Units # {}
ASSUME OptionsAssumption == Dependencies # {} /\ LocalSettings # {}
ASSUME ReleaseAssumption == MaxRelease \in Nat
ASSUME ModesAssumption == Modes \subseteq OperationModes
ASSUME FaultsAssumption == Faults \subseteq FaultKinds

\* Values of files and databag entries that are none of the configured ones.
CONSTANTS MISSING, FAILED, CLEARED, PARTIAL
Marks == {MISSING, FAILED, CLEARED, PARTIAL}

Configs == [composer : Dependencies, settings : LocalSettings]
Locks == [resolves : Dependencies \union {NoDependencies}, release : 0..MaxRelease]

\* The lock and the packages that the workload image ships.
ImageLock == [resolves |-> NoDependencies, release |-> 0]

ASSUME MarksAssumption ==
    /\ MISSING # FAILED
    /\ {MISSING, FAILED} \intersect Dependencies = {}
    /\ Marks \intersect (Configs \union Locks) = {}

VARIABLES
    config,     \* the charm configuration
    release,    \* how far upstream is
    published,  \* composer_lock and leader_state_hash in the application databag
    leader,
    userJson,   \* each unit's composer.user.json
    lockFile,   \* each unit's composer.lock
    packages,   \* the lock whose packages a unit holds
    settings,   \* the configuration a unit's settings files were rendered from
    pc,         \* where a unit's hook is
    task,       \* what that hook has read
    dirty       \* whether an event is due to the unit

fileVars == <<userJson, lockFile, packages, settings>>
vars == <<config, release, published, leader, fileVars, pc, task, dirty>>

Has(fault) == fault \in Faults

\* leads: is_leader() when the hook asked; lock: the published one, for a unit that follows it.
Tasks == [config : Configs, leads : BOOLEAN, bootstrap : BOOLEAN, lock : Locks \union {MISSING}]

\* What is left of a hook that is over.
NoTask ==
    [config |-> CHOOSE c \in Configs : TRUE, leads |-> FALSE, bootstrap |-> FALSE, lock |-> MISSING]

TypeOK ==
    /\ config \in Configs
    /\ release \in 0..MaxRelease
    /\ published \in [lock : Locks \union {MISSING}, hash : Configs \union {MISSING}]
    /\ leader \in Units
    /\ userJson \in [Units -> Dependencies \union {MISSING, FAILED}]
    /\ lockFile \in [Units -> Locks \union {CLEARED}]
    /\ packages \in [Units -> Locks \union {PARTIAL}]
    /\ settings \in [Units -> Configs \union {MISSING}]
    /\ pc \in [Units -> {"idle", "composing", "composed", "rendered"}]
    /\ task \in [Units -> Tasks]
    /\ dirty \in [Units -> BOOLEAN]

Init ==
    /\ config \in Configs
    /\ release = 0
    /\ published = [lock |-> MISSING, hash |-> MISSING]
    /\ leader \in Units
    /\ userJson = [u \in Units |-> MISSING]
    /\ lockFile = [u \in Units |-> ImageLock]
    /\ packages = [u \in Units |-> ImageLock]
    /\ settings = [u \in Units |-> MISSING]
    /\ pc = [u \in Units |-> "idle"]
    /\ task = [u \in Units |-> NoTask]
    /\ dirty = [u \in Units |-> TRUE]

----------------------------------------------------------------------------
Goto(u, step) == pc' = [pc EXCEPT ![u] = step]

\* The hook is over and what it read forgotten.
End(u) ==
    /\ Goto(u, "idle")
    /\ task' = [task EXCEPT ![u] = NoTask]

\* Juju runs a failed hook again.
Abort(u) == End(u) /\ dirty' = [dirty EXCEPT ![u] = TRUE]

\* MediaWiki._can_recover_without_leader_state.  Services need no mention: none runs in
\* a container before its settings files are written.
Pristine(u) == settings[u] = MISSING /\ userJson[u] = MISSING

\* Mutant: a unit that follows the leader compares no lock.
RequirementsUnchanged(u, t) ==
    \/ userJson[u] = MISSING /\ t.config.composer = NoDependencies
    \/ userJson[u] = t.config.composer

\* _should_skip_composer: what the files say already holds.
Unchanged(u, t) ==
    \/ userJson[u] = MISSING /\ t.config.composer = NoDependencies
    \/ /\ userJson[u] = t.config.composer
       /\ t.leads \/ t.bootstrap \/ lockFile[u] = t.lock

\* The files that are written before composer runs.
WriteComposerFiles(u, t) ==
    /\ userJson' = [userJson EXCEPT ![u] = t.config.composer]
    /\ lockFile' = [lockFile EXCEPT ![u] = IF t.leads \/ t.bootstrap THEN @ ELSE t.lock]

\* What a hook reads before it turns to composer.
Read(u, mode) ==
    LET leads == u = leader
        bootstrap == ~leads /\ published.hash # config /\ mode = NORMAL /\ Pristine(u)
    IN [config |-> config, leads |-> leads, bootstrap |-> bootstrap,
        lock |-> IF leads \/ bootstrap THEN MISSING ELSE published.lock]

\* Mutants: a published hash that is missing passes for the unit's own; the hash is not
\* compared at all.
MissingHashAccepted(t) ==
    t.leads \/ t.bootstrap \/ published.hash \in {t.config, MISSING}
HashNotCompared(t) ==
    t.leads \/ t.bootstrap \/ t.lock # MISSING

\* The unit resolves for itself, or the published lock is there for its configuration.
MayProceed(t) ==
    \/ t.leads \/ t.bootstrap
    \/ published.hash = t.config /\ t.lock # MISSING

Begin(u) == pc[u] = "idle" /\ dirty[u] /\ dirty' = [dirty EXCEPT ![u] = FALSE]

RunComposer(u, mode) ==
    /\ Begin(u)
    /\ MayProceed(Read(u, mode))
    /\ mode = FORCE_RECONCILIATION \/ ~Unchanged(u, Read(u, mode))
    /\ WriteComposerFiles(u, Read(u, mode))
    /\ task' = [task EXCEPT ![u] = Read(u, mode)]
    /\ Goto(u, "composing")
    /\ UNCHANGED <<config, release, published, leader, packages, settings>>

SkipComposer(u, mode) ==
    /\ Begin(u)
    /\ MayProceed(Read(u, mode))
    /\ mode # FORCE_RECONCILIATION
    /\ Unchanged(u, Read(u, mode))
    /\ task' = [task EXCEPT ![u] = Read(u, mode)]
    /\ Goto(u, "composed")
    /\ UNCHANGED <<config, release, published, leader, fileVars>>

\* The published state is missing or belongs to another configuration: Waiting status.
WaitForLeader(u, mode) ==
    /\ Begin(u)
    /\ ~MayProceed(Read(u, mode))
    /\ UNCHANGED <<config, release, published, leader, fileVars, pc, task>>

\* The hook ends with a status before it comes this far, and the event is spent.
EndEarly(u) ==
    /\ Has("status-failure")
    /\ Begin(u)
    /\ UNCHANGED <<config, release, published, leader, fileVars, pc, task>>

\* The lock that a composer run leads to: its own resolution, or the one it was given.
Outcome(u) ==
    IF task[u].leads \/ task[u].bootstrap
    THEN [resolves |-> task[u].config.composer, release |-> release]
    ELSE task[u].lock

ComposerSucceeds(u) ==
    /\ pc[u] = "composing"
    /\ lockFile' = [lockFile EXCEPT ![u] = Outcome(u)]
    /\ packages' = [packages EXCEPT ![u] = Outcome(u)]
    /\ Goto(u, "composed")
    /\ UNCHANGED <<config, release, published, leader, userJson, settings, task, dirty>>

\* _handle_composer_failure leaves a mark for the next reconciliation: in the
\* requirements after an update, in the lock file after an install.
MarkFailure(u) ==
    IF task[u].leads \/ task[u].bootstrap
    THEN /\ userJson' = [userJson EXCEPT ![u] = FAILED]
         /\ lockFile' \in {lockFile, [lockFile EXCEPT ![u] = Outcome(u)]}
    ELSE /\ lockFile' = [lockFile EXCEPT ![u] = CLEARED]
         /\ UNCHANGED userJson

\* Mutant: a failed composer run is not marked.
FailUnmarked(u) ==
    /\ Has("composer-failure")
    /\ pc[u] = "composing"
    /\ packages' \in {packages, [packages EXCEPT ![u] = PARTIAL]}
    /\ End(u)
    /\ UNCHANGED <<config, release, published, leader, userJson, lockFile, settings, dirty>>

\* Composer exits with an error: marked, Blocked status.  Or _run_cli raises ContainerError,
\* or the hook dies: no mark is left.
ComposerFails(u) ==
    /\ pc[u] = "composing"
    /\ packages' \in {packages, [packages EXCEPT ![u] = PARTIAL]}
    /\ \/ /\ Has("composer-failure")
          /\ MarkFailure(u)
          /\ End(u)
          /\ UNCHANGED dirty
       \/ /\ Has("composer-cut-off")
          /\ lockFile' \in {lockFile, [lockFile EXCEPT ![u] = Outcome(u)]}
          /\ UNCHANGED userJson
          /\ Abort(u)
    /\ UNCHANGED <<config, release, published, leader, settings>>

RenderSettings(u) ==
    /\ pc[u] = "composed"
    /\ settings' = [settings EXCEPT ![u] = task[u].config]
    /\ Goto(u, "rendered")
    /\ UNCHANGED <<config, release, published, leader, userJson, lockFile, packages, task, dirty>>

\* Nothing is published yet when the settings cannot be rendered.
RenderFails(u) ==
    /\ pc[u] = "composed"
    /\ settings' \in {settings, [settings EXCEPT ![u] = task[u].config]}
    /\ \/ Has("status-failure") /\ End(u) /\ UNCHANGED dirty
       \/ Has("hook-error") /\ Abort(u)
    /\ UNCHANGED <<config, release, published, leader, userJson, lockFile, packages>>

\* The hook ends, well or with a status, and what the leader published reaches its peers.
\* Juju drops a key whose value is empty.
Finish(u) ==
    /\ pc[u] = "rendered"
    /\ IF task[u].leads
       THEN /\ u = leader
            /\ published' = [lock |-> IF lockFile[u] = CLEARED THEN MISSING ELSE lockFile[u],
                             hash |-> task[u].config]
       ELSE UNCHANGED published
    /\ dirty' = [v \in Units |-> dirty[v] \/ published' # published]
    /\ End(u)
    /\ UNCHANGED <<config, release, leader, fileVars>>

\* The hook fails, or Juju refuses what it published: it lost leadership meanwhile.
HookError(u) ==
    /\ pc[u] = "rendered"
    /\ Has("hook-error") \/ (task[u].leads /\ u # leader)
    /\ Abort(u)
    /\ UNCHANGED <<config, release, published, leader, fileVars>>

----------------------------------------------------------------------------
(* The operator, upstream, Juju and Kubernetes.                            *)

Configure ==
    /\ config' \in Configs \ {config}
    /\ dirty' = [u \in Units |-> TRUE]
    /\ UNCHANGED <<release, published, leader, fileVars, pc, task>>

PackagesReleased ==
    /\ release < MaxRelease
    /\ release' = release + 1
    /\ UNCHANGED <<config, published, leader, fileVars, pc, task, dirty>>

\* Any of the other events that the charm answers with a reconciliation.
OtherEvent(u) ==
    /\ ~dirty[u]
    /\ dirty' = [dirty EXCEPT ![u] = TRUE]
    /\ UNCHANGED <<config, release, published, leader, fileVars, pc, task>>

LeaderElected(u) ==
    /\ Has("leader-change")
    /\ u # leader
    /\ pc[leader] = "idle" \/ Has("lease-loss")
    /\ (pc[u] = "idle" /\ lockFile[u] # CLEARED) \/ Has("failed-successor")
    /\ leader' = u
    /\ UNCHANGED <<config, release, published, fileVars, pc, task, dirty>>

PodRestart(u) ==
    /\ Has("pod-restart")
    /\ userJson' = [userJson EXCEPT ![u] = MISSING]
    /\ lockFile' = [lockFile EXCEPT ![u] = ImageLock]
    /\ packages' = [packages EXCEPT ![u] = ImageLock]
    /\ settings' = [settings EXCEPT ![u] = MISSING]
    /\ Abort(u)
    /\ UNCHANGED <<config, release, published, leader>>

----------------------------------------------------------------------------
Progress(u) == ComposerSucceeds(u) \/ RenderSettings(u) \/ Finish(u) \/ HookError(u)
Reconcile(u) ==
    \E mode \in Modes : RunComposer(u, mode) \/ SkipComposer(u, mode) \/ WaitForLeader(u, mode)

Fault(u) ==
    \/ EndEarly(u) \/ ComposerFails(u) \/ RenderFails(u)
    \/ LeaderElected(u) \/ PodRestart(u)

Next ==
    \/ Configure \/ PackagesReleased
    \/ \E u \in Units : Reconcile(u) \/ Progress(u) \/ Fault(u) \/ OtherEvent(u)

Spec == Init /\ [][Next]_vars

\* A hook goes on to its end, an event that is due begins a hook, and the operator leaves
\* the configuration alone at some point, after which nothing fails any more.
Fairness ==
    /\ \A u \in Units :
          /\ WF_vars(Progress(u))
          /\ WF_vars(Reconcile(u))
    /\ <>[][~Configure /\ \A u \in Units : ~Fault(u)]_vars

FairSpec == Spec /\ Fairness

----------------------------------------------------------------------------
(* Properties.                                                             *)

\* The lock matches the configuration: what a leader publishes as the lock of a
\* configuration resolves the dependencies of that configuration, whoever led, failed or
\* restarted before.
PublishedLockFitsConfiguration ==
    published.hash # MISSING /\ published.lock # MISSING =>
        published.lock.resolves = published.hash.composer

\* A unit about to start its services holds, whole, the packages that its settings were
\* written for: new settings are never combined with packages of an earlier configuration
\* or of a composer run that failed.
SettingsFindTheirPackages ==
    \A u \in Units : pc[u] = "rendered" =>
        /\ settings[u] = task[u].config
        /\ packages[u] = lockFile[u]
        /\ packages[u].resolves = task[u].config.composer

\* A unit that follows the leader holds exactly the packages that the leader resolved.
\* A pristine unit without configured dependencies is excepted.
FollowersHoldLeaderPackages ==
    \A u \in Units :
        pc[u] = "rendered" /\ ~task[u].leads /\ ~task[u].bootstrap
            /\ task[u].config.composer # NoDependencies =>
                packages[u] = task[u].lock

\* The same without the exception: a lock that differs is always installed.  (No run checks
\* this: a pristine unit without configured dependencies does not compare locks.)
StaleLockIsReinstalled ==
    \A u \in Units :
        pc[u] = "rendered" /\ ~task[u].leads /\ ~task[u].bootstrap =>
            packages[u] = task[u].lock

Synchronized ==
    /\ published.hash = config
    /\ \A u \in Units :
          /\ settings[u] = config
          /\ packages[u] # PARTIAL
          /\ packages[u].resolves = config.composer
          /\ config.composer # NoDependencies => packages[u] = published.lock

\* Units that go on being reconciled end up with the same packages, those of the current
\* configuration, whatever failed before: every failure leaves a state from which the
\* next reconciliations recover.
UnitsSynchronize ==
    (\A u \in Units : []<>(dirty[u])) => <>[]Synchronized
=============================================================================
