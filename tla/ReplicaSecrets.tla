--------------------------- MODULE ReplicaSecrets ---------------------------
(***************************************************************************)
(* The application secret from which all units render the same session     *)
(* and authentication keys: created by the leader, completed when an       *)
(* upgrade introduces a field, rotated by an action.                       *)
(*                                                                         *)
(* Juju keeps what a hook writes to a secret only when the hook ends, and  *)
(* only if the unit is the leader then; the files and services that the    *)
(* hook has changed stay changed in any case.                              *)
(***************************************************************************)
EXTENDS Naturals, FiniteSets

CONSTANTS
    Units,
    Fields,        \* the fields of MediaWikiSecrets
    OldFields,     \* those of the revision that an application is upgraded from
    NONE,
    MaxElections, MaxRotations, MaxFailures, \* bounds
    Faults

FaultKinds ==
    { "hook-failure", \* a hook fails or dies
      "lease-loss",   \* leadership moves while a hook of the leader runs
      "lease-return" } \* ... and returns before that hook has ended

ASSUME UnitsAssumption == Units # {} /\ NONE \notin Units
ASSUME FieldsAssumption == Fields # {} /\ OldFields \subseteq Fields
ASSUME BoundsAssumption ==
    MaxElections \in Nat /\ MaxRotations \in Nat /\ MaxFailures \in Nat
ASSUME FaultsAssumption == Faults \subseteq FaultKinds

\* The content of the secret: for every field the generation of its value, 0 if it is missing.
Contents == [Fields -> Nat]
ASSUME NoneAssumption == NONE \notin Contents

VARIABLES
    secret,    \* the content of the secret, NONE before it is created
    leader,
    due,       \* the events that each unit has yet to handle
    hook,      \* the event that each unit handles
    wrote,     \* what its hook has written to the secret
    publishes, \* the hook publishes the leader's state
    rendered,  \* what the unit's settings are made of
    serving,   \* the units whose workload runs
    upgraded,  \* the units whose pod is of this revision
    tracking,  \* the units that Juju tells of a change to the secret
    published, \* the leader's state is in the peer relation
    generated, \* how many times values have been generated
    shared,    \* history: the contents that the secret has had
    elections, rotations, failures

hookVars == <<hook, wrote, publishes>>
bounds == <<elections, rotations, failures>>
vars == <<secret, leader, due, hookVars, rendered, serving, upgraded, tracking, published,
          generated, shared, bounds>>

Events == {"elected", "reconcile"}

Complete(content) == \A f \in Fields : content[f] # 0
SecretIsComplete == secret # NONE /\ Complete(secret)
FieldsAreMissing == secret # NONE /\ ~Complete(secret)

\* MediaWikiSecrets.generate: every field has a new value.
Generated == [f \in Fields |-> generated + 1]
Generate == generated' = generated + 1

\* A new application, all of whose units have yet to start.
NewApplication ==
    /\ secret = NONE /\ shared = {}
    /\ due = [u \in Units |-> IF u = leader THEN Events ELSE {"reconcile"}]
    /\ upgraded = Units /\ published = FALSE
    /\ generated = 0

\* An application of the old revision that is about to be upgraded.
OldApplication ==
    /\ secret = [f \in Fields |-> IF f \in OldFields THEN 1 ELSE 0]
    /\ shared = {secret}
    /\ due = [u \in Units |-> {}]
    /\ upgraded = {} /\ published = TRUE
    /\ generated = 1

Init ==
    /\ leader \in Units
    /\ NewApplication \/ OldApplication
    /\ hook = [u \in Units |-> "idle"] /\ wrote = [u \in Units |-> NONE]
    /\ publishes = [u \in Units |-> FALSE]
    /\ rendered = [u \in Units |-> NONE]
    /\ serving = {} /\ tracking = {}
    /\ elections = 0 /\ rotations = 0 /\ failures = 0

----------------------------------------------------------------------------
(* Hooks.                                                                  *)

Begin(u, event) ==
    /\ u \in upgraded
    /\ hook[u] = "idle"
    /\ event \in due[u]
    /\ event = "elected" \/ "elected" \notin due[u]
    /\ due' = [due EXCEPT ![u] = @ \ {event}]
    /\ hook' = [hook EXCEPT ![u] = event]

Writes(u, content) == wrote' = [wrote EXCEPT ![u] = content]

\* setup_replica_data.
LeaderElected(u) ==
    /\ Begin(u, "elected")
    /\ IF secret = NONE /\ u = leader
       THEN Writes(u, Generated) /\ Generate
       ELSE UNCHANGED <<wrote, generated>>
    /\ UNCHANGED <<secret, leader, publishes, rendered, serving, upgraded, tracking, published,
                   shared, bounds>>

\* Reading a secret of its application makes a unit that does not lead an observer of it.
Track(u) == tracking' = IF u = leader THEN tracking ELSE tracking \union {u}

\* No secret, or one that the leader has yet to complete: the workload is stopped.
Await(u) ==
    /\ Begin(u, "reconcile")
    /\ secret = NONE \/ (FieldsAreMissing /\ u # leader)
    /\ serving' = serving \ {u}
    /\ IF secret = NONE THEN UNCHANGED tracking ELSE Track(u)
    /\ UNCHANGED <<secret, leader, wrote, publishes, rendered, upgraded, published, generated,
                   shared, bounds>>

\* The settings are rendered and the workload serves.
Serve(u, content) ==
    /\ rendered' = [rendered EXCEPT ![u] = content]
    /\ serving' = serving \union {u}
    /\ publishes' = [publishes EXCEPT ![u] = (u = leader)]

Reconcile(u) ==
    /\ Begin(u, "reconcile")
    /\ SecretIsComplete
    /\ Serve(u, secret)
    /\ Track(u)
    /\ UNCHANGED <<secret, leader, wrote, upgraded, published, generated, shared, bounds>>

\* Mutant: the fields that are there get new values as well.
RegenerateAll(content) == Generated

\* _replica_secrets: the fields that are missing are generated, the others are kept.
Migrated(content) == [f \in Fields |-> IF content[f] = 0 THEN Generated[f] ELSE content[f]]

\* Mutant: any unit completes the content that it renders.
MigrateAnywhere(u) ==
    /\ Begin(u, "reconcile")
    /\ FieldsAreMissing
    /\ Writes(u, IF u = leader THEN Migrated(secret) ELSE NONE) /\ Generate
    /\ Serve(u, Migrated(secret))
    /\ Track(u)
    /\ UNCHANGED <<secret, leader, upgraded, published, shared, bounds>>

\* The leader completes the secret, and renders what it has just written.
Migrate(u) ==
    /\ Begin(u, "reconcile")
    /\ u = leader
    /\ FieldsAreMissing
    /\ Writes(u, Migrated(secret)) /\ Generate
    /\ Serve(u, Migrated(secret))
    /\ UNCHANGED <<secret, leader, upgraded, tracking, published, shared, bounds>>

\* The action rotate-secrets: the unit's own settings stay as they are.
Rotate(u) ==
    /\ u \in upgraded /\ u = leader
    /\ hook[u] = "idle"
    /\ secret # NONE
    /\ rotations < MaxRotations
    /\ rotations' = rotations + 1
    /\ hook' = [hook EXCEPT ![u] = "rotate"]
    /\ Writes(u, Generated) /\ Generate
    /\ UNCHANGED <<secret, leader, due, publishes, rendered, serving, upgraded, tracking,
                   published, shared, elections, failures>>

\* Mutant: the units are told of a new secret only.
TellOfCreation(u) ==
    IF wrote[u] # NONE /\ secret = NONE THEN Units \ {u} ELSE {}

\* The other units are told of a new revision, if they observe the secret, and of a change in
\* the peer relation.
Told(u) ==
    {v \in Units \ {u} :
        \/ wrote[u] # NONE /\ v \in tracking
        \/ publishes[u] /\ ~published}

Leave(u) ==
    /\ hook' = [hook EXCEPT ![u] = "idle"]
    /\ Writes(u, NONE)
    /\ publishes' = [publishes EXCEPT ![u] = FALSE]

NeedsLeadership(u) == wrote[u] # NONE \/ publishes[u]

\* The hook ends well: what it has written is kept.
End(u) ==
    /\ hook[u] # "idle"
    /\ NeedsLeadership(u) => u = leader
    /\ IF wrote[u] = NONE THEN UNCHANGED <<secret, shared>>
       ELSE secret' = wrote[u] /\ shared' = shared \union {wrote[u]}
    /\ published' = (published \/ publishes[u])
    /\ due' = [v \in Units |-> IF v \in Told(u) THEN due[v] \union {"reconcile"} ELSE due[v]]
    /\ Leave(u)
    /\ UNCHANGED <<leader, rendered, serving, upgraded, tracking, generated, bounds>>

\* The hook fails, and Juju will run it again; a failed action is not repeated.
Repeat(u) ==
    /\ due' = [due EXCEPT ![u] = @ \union ({hook[u]} \intersect Events)]
    /\ Leave(u)
    /\ UNCHANGED <<secret, leader, rendered, serving, upgraded, tracking, published, generated,
                   shared, elections, rotations>>

\* Juju does not take from another unit what only the leader may write.
Refuse(u) ==
    /\ hook[u] # "idle"
    /\ NeedsLeadership(u) /\ u # leader
    /\ Repeat(u)
    /\ UNCHANGED failures

Fail(u) ==
    /\ "hook-failure" \in Faults
    /\ hook[u] # "idle"
    /\ failures < MaxFailures
    /\ failures' = failures + 1
    /\ Repeat(u)

----------------------------------------------------------------------------
(* What Juju does.                                                         *)

Elect(u) ==
    /\ u # leader
    /\ elections < MaxElections
    /\ hook[leader] = "idle" \/ "lease-loss" \in Faults
    /\ wrote[u] = NONE \/ "lease-return" \in Faults
    /\ elections' = elections + 1
    /\ leader' = u
    /\ due' = [due EXCEPT ![u] = @ \union {"elected"}]
    /\ UNCHANGED <<secret, hookVars, rendered, serving, upgraded, tracking, published,
                   generated, shared, rotations, failures>>

\* The pod of a unit is replaced by one of this revision, and its containers become ready.
Upgrade(u) ==
    /\ u \notin upgraded
    /\ upgraded' = upgraded \union {u}
    /\ due' = [due EXCEPT ![u] = @ \union {"reconcile"}]
    /\ UNCHANGED <<secret, leader, hookVars, rendered, serving, tracking, published, generated,
                   shared, bounds>>

Handle(u) ==
    LeaderElected(u) \/ Await(u) \/ Reconcile(u) \/ Migrate(u) \/ End(u) \/ Refuse(u)
Next == \E u \in Units : Handle(u) \/ Rotate(u) \/ Fail(u) \/ Elect(u) \/ Upgrade(u)

Spec == Init /\ [][Next]_vars
\* Hooks are run and end; the upgrade reaches every unit.
FairSpec == Spec /\ \A u \in Units : WF_vars(Handle(u)) /\ WF_vars(Upgrade(u))

----------------------------------------------------------------------------
(* Properties.                                                             *)

\* A unit that serves, and has no hook to repeat, serves secrets that are complete and that
\* the others can read.  What a leader has rendered but failed to write is replaced when its
\* hook is repeated or, if it no longer leads, is withdrawn with its workload.  (The hook of
\* _replica_secrets renders before Juju accepts what it has written.)
ServedSecretsAreShared ==
    \A u \in serving :
        (hook[u] = "idle" /\ due[u] = {}) => rendered[u] \in shared /\ Complete(rendered[u])

\* Only the action rotates: whoever completes the secret, after whatever elections and failed
\* hooks, keeps the value of each field that has one.  Sessions survive an upgrade.
KeepsFields ==
    \A f \in Fields :
        (secret # NONE /\ secret[f] # 0 /\ secret'[f] # secret[f]) =>
            \E u \in Units : hook[u] = "rotate" /\ hook'[u] = "idle"
OnlyRotationChangesFields == [][KeepsFields]_vars

\* While the leader stays the same, all units come to serve the content of the secret, through
\* the creation, an upgrade and rotations.  The leader itself is not told of its rotation, and
\* does not render it until another event.
Agreed ==
    \A u \in Units :
        u \in serving /\ (rendered[u] = secret \/ (u = leader /\ rotations > 0))
UnitsAgree == [](elections = 0) => <>[]Agreed

=============================================================================
