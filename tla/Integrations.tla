---------------------------- MODULE Integrations ----------------------------
(***************************************************************************)
(* One relation of the application with another one, of any of the kinds   *)
(* below: what the charm libraries at both ends write to it, which events  *)
(* make a unit read it again, and what the unit is configured with then.   *)
(*                                                                         *)
(* A hook reads the relation as it is when the hook begins, changes the    *)
(* unit's containers at once, and writes to the relation when it ends well.*)
(* Juju runs a hook that failed again; one whose reconciliation ended with *)
(* a status of the unit has ended well, and is not run again.              *)
(***************************************************************************)
EXTENDS DataInterfaces, CertificateTransfer, Telemetry

CONSTANTS
    Units,
    RemoteUnits,   \* units of the other application
    Certificates,
    Kinds,         \* the kinds of relation to consider
    NONE,
    MaxRelations, MaxChanges, MaxAccidents,   \* bounds
    Faults

CredentialKinds == {"database", "s3", "smtp", "saml"}
InputKinds == CredentialKinds \union {"receive-ca-cert", "logging"}
AllKinds == InputKinds \union {"traefik-route"}
FaultKinds ==
    { "hook-failure",         \* a hook fails or dies
      "replacement",          \* a pod is replaced
      "election",
      "status",             \* a reconciliation ends early, the unit Waiting or Blocked
      "early-certificates" }  \* the provider writes before it knows the requirer's version

ASSUME UnitsAssumption == Units # {} /\ RemoteUnits # {}
ASSUME KindsAssumption == Kinds \subseteq AllKinds
ASSUME BoundsAssumption ==
    {MaxRelations, MaxChanges, MaxAccidents} \subseteq Nat
ASSUME FaultsAssumption == Faults \subseteq FaultKinds
\* What the other application gives is never taken for nothing.
ASSUME NoneAssumption ==
    /\ NONE \notin [credentials : Nat, endpoints : Nat]
    /\ \A given \in SUBSET Certificates : given # NONE

VARIABLES
    kind,
    leader,
    up,        \* units whose containers can be reached
    exists,    \* the relation has not been removed
    related,   \* units that see the relation
    theirs,    \* databag of the other application
    remote,    \* databags of its units that are in the relation
    secrets,   \* content of the secrets it has given, 0 for one that is removed
    meant,     \* what it means to give us, NONE before it has answered
    ours,      \* what our application's databag says, 0 for nothing
    wanted,    \* what it ought to say: the generation of our configuration
    bag,       \* databag of each of our units
    tracks,    \* secrets that each unit has read
    due,       \* events that each unit has yet to handle
    hook,      \* event that each unit handles
    pending,   \* what its hook writes to the relation if it ends well
    applied,   \* what its containers are configured with
    missed,    \* units whose last reconciliation ended before what it does for this relation
    relations, changes, accidents, elections

sideVars == <<theirs, remote, secrets, meant>>
hookVars == <<due, hook, pending>>
bounds == <<relations, changes, accidents, elections>>
vars == <<kind, leader, up, exists, related, sideVars, ours, wanted, bag, tracks,
          hookVars, applied, missed, bounds>>

Blank ==
    CASE kind = "receive-ca-cert" -> {}
      [] kind = "logging" -> EmptyDatabag
      [] OTHER -> NONE

Init ==
    /\ kind \in Kinds
    /\ leader \in Units
    /\ up = {} /\ exists = FALSE /\ related = {}
    /\ theirs = EmptyDatabag /\ remote = EmptyDatabag /\ secrets = << >> /\ meant = NONE
    /\ ours = 0 /\ wanted = 1
    /\ bag = [u \in Units |-> EmptyDatabag]
    /\ tracks = [u \in Units |-> {}]
    /\ due = [u \in Units |-> {}] /\ hook = [u \in Units |-> "idle"]
    /\ pending = [u \in Units |-> [bag |-> EmptyDatabag, ours |-> 0]]
    /\ applied = [u \in Units |-> Blank] /\ missed = {}
    /\ relations = 0 /\ changes = 0 /\ accidents = 0 /\ elections = 0

----------------------------------------------------------------------------
(* What the relation says.                                                 *)

CredentialField ==
    [database |-> "secret-user", s3 |-> "access-key", smtp |-> "password_id", saml |-> "x509certs"]
EndpointField ==
    [database |-> "endpoints", s3 |-> "endpoint", smtp |-> "host", saml |-> "entity_id"]
SecretKinds == {"database", "smtp"}

\* get_relation_data of the charm: fields that are given together stand for each other, the
\* database's name for its credentials, the access key for the secret key.
Ready ==
    LET field == CredentialField[kind] IN
        /\ {field, EndpointField[kind]} \subseteq DOMAIN theirs
        /\ kind \in SecretKinds => secrets[theirs[field]] # 0
Fetched ==
    LET given == theirs[CredentialField[kind]] IN
        [credentials |-> IF kind \in SecretKinds THEN secrets[given] ELSE given,
         endpoints |-> theirs[EndpointField[kind]]]

\* The events that the charm or its library for the relation observes.
Observed ==
    CASE kind = "database" -> {"created", "changed", "broken", "secret", "ready"}
      [] kind = "s3" -> {"joined", "changed", "broken", "ready"}
      [] kind = "smtp" -> {"changed", "broken", "secret", "ready"}
      [] kind = "saml" -> {"changed", "broken", "ready"}
      [] kind = "receive-ca-cert" -> {"created", "changed", "broken", "ready"}
      [] kind = "logging" -> {"joined", "changed", "departed", "broken", "ready"}
      [] kind = "traefik-route" -> {"joined", "changed", "broken", "ready", "config"}

InRelation(u, event) == u \in related /\ event # "broken"

\* Whether the library makes an event that the charm observes of a change in the relation.
Emits(u) ==
    CASE kind = "database" -> DatabaseEvent(Diff(bag[u], theirs)) # "none"
      [] kind = "s3" -> "access-key" \in DOMAIN theirs
      [] kind \in {"smtp", "saml"} -> theirs # EmptyDatabag
      [] OTHER -> kind \in {"receive-ca-cert", "traefik-route"}

\* The events upon which the charm reconciles.
Reconciles(u, event) ==
    \/ event \in {"config", "ready", "secret"}
    \/ event = "broken" /\ kind \in CredentialKinds \union {"receive-ca-cert", "traefik-route"}
    \/ event = "created" /\ kind = "receive-ca-cert"
    \/ event = "joined" /\ kind = "traefik-route"
    \/ event = "changed" /\ Emits(u)

----------------------------------------------------------------------------
(* What a hook does.                                                       *)

\* Once the containers can be reached.  Without usable data the workload is stopped, for a
\* database, or is left as it is.
Configured(u, event) ==
    IF ~InRelation(u, event) THEN Blank
    ELSE IF Ready THEN Fetched
    ELSE IF kind = "database" THEN Blank
    ELSE applied[u]

\* The certificates that a reconciliation may find, one of them in a handler before.
Trusted(u, event) ==
    IF ~InRelation(u, event) THEN {{}}
    ELSE {r.found : r \in IF event = "changed"
                          THEN SecondReadings(theirs, remote, DOMAIN remote)
                          ELSE Readings(theirs, remote, DOMAIN remote)}

\* LogForwarder: _on_pebble_ready does nothing without an endpoint, _update_logging disables.
Forwarded(u, event) ==
    LET endpoints == IF InRelation(u, event) THEN LokiEndpoints(remote) ELSE {} IN
        IF \/ event \in {"joined", "changed", "departed", "broken"}
           \/ event = "ready" /\ endpoints # {}
        THEN Targets(applied[u], endpoints) ELSE applied[u]

\* Whether a hook comes to what it does for the relation.  A reconciliation ends before that,
\* and its event is spent, when git-sync, the route, the repository, another relation, a
\* certificate, composer or the leader's state makes the unit wait or blocks it.  LogForwarder
\* does not wait for the reconciliation.
Arrivals(u, event) ==
    IF "status" \in Faults /\ kind # "logging" /\ u \in up /\ Reconciles(u, event)
    THEN BOOLEAN ELSE {TRUE}

Outcomes(u, event) ==
    IF u \notin up THEN {applied[u]}
    ELSE CASE kind = "logging" -> {Forwarded(u, event)}
           [] kind = "receive-ca-cert" /\ Reconciles(u, event) -> Trusted(u, event)
           [] kind \in CredentialKinds /\ Reconciles(u, event) -> {Configured(u, event)}
           [] OTHER -> {applied[u]}

\* The secrets that a hook reads: when the library registers or validates them, and when the
\* charm reconciles.
SecretsRead(u, event, arrives) ==
    IF kind \notin SecretKinds \/ ~InRelation(u, event) THEN {}
    ELSE IF /\ Ready
            /\ (kind = "smtp" /\ event = "changed") \/ (u \in up /\ Reconciles(u, event) /\ arrives)
    THEN {theirs[CredentialField[kind]]}
    ELSE IF kind = "database" /\ event = "changed" THEN Registered(Diff(bag[u], theirs), theirs)
    ELSE {}

\* The events upon which the leader writes to the application's databag.
PublicationEvents ==
    CASE kind \in {"database", "receive-ca-cert"} -> {"created"}
      [] kind = "s3" -> {"joined"}
      [] OTHER -> {}

\* Mutant: nothing is published before the containers can be reached.
PublishesWhenUp(u, event) ==
    /\ u = leader /\ InRelation(u, event) /\ u \in up
    /\ IF kind = "traefik-route" THEN Reconciles(u, event) ELSE event \in PublicationEvents

Publishes(u, event) ==
    /\ u = leader /\ InRelation(u, event)
    /\ IF kind = "traefik-route" THEN u \in up /\ Reconciles(u, event)
       ELSE event \in PublicationEvents

Wanted == IF kind \in {"database", "s3", "receive-ca-cert"} THEN 1 ELSE wanted
Publishers == AllKinds \ {"smtp", "saml", "logging"}

\* The unit's own databag: the copy of theirs for the next diff.
BagWritten(u, event) ==
    IF ~InRelation(u, event) THEN EmptyDatabag
    ELSE IF kind = "database" /\ event = "changed" THEN theirs
    ELSE bag[u]

RelationEvents == {"created", "joined", "changed", "departed"}
InOrder(u, event) ==
    /\ event # "created" => "created" \notin due[u]
    /\ event \in {"changed", "departed"} => "joined" \notin due[u]
    /\ event = "broken" => due[u] \intersect RelationEvents = {}

Begin(u, event) ==
    /\ hook[u] = "idle"
    /\ event \in due[u] /\ InOrder(u, event)
    /\ hook' = [hook EXCEPT ![u] = event]
    /\ due' = [due EXCEPT ![u] = @ \ {event}]
    /\ related' = IF event = "broken" THEN related \ {u} ELSE related
    /\ \E arrives \in Arrivals(u, event) :
          /\ \E outcome \in IF arrives THEN Outcomes(u, event) ELSE {applied[u]} :
                applied' = [applied EXCEPT ![u] = outcome]
          /\ tracks' = [tracks EXCEPT ![u] = @ \union SecretsRead(u, event, arrives)]
          /\ pending' = [pending EXCEPT ![u] =
                [bag |-> BagWritten(u, event),
                 ours |-> IF Publishes(u, event) /\ (kind = "traefik-route" => arrives)
                          THEN Wanted ELSE 0]]
          /\ missed' = IF ~arrives THEN missed \union {u}
                       ELSE IF u \in up /\ Reconciles(u, event) THEN missed \ {u}
                       ELSE missed
    /\ UNCHANGED <<kind, leader, up, exists, sideVars, ours, wanted, bag, bounds>>

Leave(u) ==
    /\ hook' = [hook EXCEPT ![u] = "idle"]
    /\ pending' = [pending EXCEPT ![u] = [bag |-> EmptyDatabag, ours |-> 0]]

\* The hook ends well: Juju keeps what it has written.
End(u) ==
    /\ hook[u] # "idle"
    /\ bag' = [bag EXCEPT ![u] = pending[u].bag]
    /\ ours' = IF pending[u].ours # 0 THEN pending[u].ours ELSE ours
    /\ Leave(u)
    /\ UNCHANGED <<kind, leader, up, exists, related, sideVars, wanted, tracks, due,
                   applied, missed, bounds>>

Accident(fault) ==
    /\ fault \in Faults
    /\ accidents < MaxAccidents
    /\ accidents' = accidents + 1

Fail(u) ==
    /\ hook[u] # "idle"
    /\ Accident("hook-failure")
    /\ due' = [due EXCEPT ![u] = @ \union {hook[u]}]
    /\ Leave(u)
    /\ UNCHANGED <<kind, leader, up, exists, related, sideVars, ours, wanted, bag,
                   tracks, applied, missed, relations, changes, elections>>

----------------------------------------------------------------------------
(* What the other application does, while the relation exists.             *)

Tell(units, event) ==
    due' = [u \in Units |-> IF u \in units THEN due[u] \union ({event} \intersect Observed)
                            ELSE due[u]]

ourVars == <<kind, leader, up, exists, related, ours, wanted, bag, tracks, hook,
             pending, applied, missed, relations, accidents, elections>>

\* Endpoints, before there are credentials.
Announce ==
    /\ exists /\ kind \in {"database", "s3"}
    /\ EndpointField[kind] \notin DOMAIN theirs
    /\ kind = "database" => MayProvide(ours # 0, {"endpoints"})
    /\ theirs' = With(theirs, [k \in {EndpointField[kind]} |-> changes + 1])
    /\ Tell(related, "changed")
    /\ UNCHANGED <<remote, secrets, meant, changes, ourVars>>

\* The answer to a request, or for SMTP and SAML to the relation.
Answer ==
    LET field == CredentialField[kind] value == changes + 1 IN
        /\ exists /\ kind \in CredentialKinds
        /\ meant = NONE
        /\ kind = "database" => MayProvide(ours # 0, {field})
        /\ kind = "s3" => ours # 0
        /\ meant' = [credentials |-> value, endpoints |-> value]
        /\ LET bagged == With(theirs, [k \in {EndpointField[kind]} |-> value]) IN
               IF kind \in SecretKinds
               THEN /\ secrets' = SecretsAfter(bagged, secrets, field, value)
                    /\ theirs' = BagAfter(bagged, secrets, field)
               ELSE /\ theirs' = With(bagged, [k \in {field} |-> value])
                    /\ UNCHANGED secrets
        /\ Tell(related, "changed")
        /\ UNCHANGED <<remote, changes, ourVars>>

Changes ==
    /\ exists
    /\ changes < MaxChanges
    /\ changes' = changes + 1

\* New credentials: the secret, if there is one, has a new revision.
ChangeCredentials ==
    LET field == CredentialField[kind] value == changes + 2 IN
        /\ Changes /\ kind \in CredentialKinds /\ meant # NONE
        /\ meant' = [meant EXCEPT !.credentials = value]
        /\ IF kind \in SecretKinds
           THEN /\ secrets' = SecretsAfter(theirs, secrets, field, value)
                /\ Tell({u \in related : theirs[field] \in tracks[u]}, "secret")
                /\ UNCHANGED theirs
           ELSE /\ theirs' = [theirs EXCEPT ![field] = value]
                /\ Tell(related, "changed")
                /\ UNCHANGED secrets
        /\ UNCHANGED <<remote, ourVars>>

ChangeEndpoints ==
    LET value == changes + 2 IN
        /\ Changes /\ kind \in CredentialKinds /\ meant # NONE
        /\ meant' = [meant EXCEPT !.endpoints = value]
        /\ theirs' = [theirs EXCEPT ![EndpointField[kind]] = value]
        /\ Tell(related, "changed")
        /\ UNCHANGED <<remote, secrets, ourVars>>

\* The provider's leader, p, adds or removes certificates.
Transfer ==
    /\ Changes /\ kind = "receive-ca-cert"
    /\ ours # 0 \/ "early-certificates" \in Faults
    /\ \E p \in RemoteUnits, added \in SUBSET Certificates, removed \in SUBSET Certificates :
          /\ [added |-> added, removed |-> removed] \in Operations(Certificates)
          /\ LET held == ProviderRead(ours, theirs, remote, p)
                 next == (held \union added) \ removed
             IN /\ theirs' = AppAfter(ours, theirs, next)
                /\ remote' = BagsAfter(ours, remote, p, next)
          /\ meant' = ((IF meant = NONE THEN {} ELSE meant) \union added) \ removed
    /\ Tell(related, "changed")
    /\ UNCHANGED <<secrets, ourVars>>

\* Units of Loki.
RemoteJoins(r) ==
    /\ Changes /\ kind = "logging"
    /\ r \notin DOMAIN remote
    /\ remote' = [q \in DOMAIN remote \union {r} |-> IF q = r THEN 0 ELSE remote[q]]
    /\ Tell(related, "joined")
    /\ UNCHANGED <<theirs, secrets, meant, ourVars>>

RemotePublishes(r) ==
    /\ exists /\ kind = "logging"
    /\ r \in DOMAIN remote /\ remote[r] = 0
    /\ remote' = [remote EXCEPT ![r] = 1]
    /\ Tell(related, "changed")
    /\ UNCHANGED <<theirs, secrets, meant, changes, ourVars>>

RemoteDeparts(r) ==
    /\ Changes /\ kind = "logging"
    /\ r \in DOMAIN remote
    /\ remote' = Without(remote, {r})
    /\ Tell(related, "departed")
    /\ UNCHANGED <<theirs, secrets, meant, ourVars>>

----------------------------------------------------------------------------
(* What Juju, Kubernetes and the operator do.                              *)

Relate ==
    /\ ~exists /\ related = {}
    /\ \A u \in Units : hook[u] # "broken" /\ "broken" \notin due[u]
    /\ relations < MaxRelations
    /\ relations' = relations + 1
    /\ exists' = TRUE /\ related' = Units
    /\ theirs' = IF kind = "receive-ca-cert" THEN {} ELSE EmptyDatabag
    /\ remote' = IF kind = "receive-ca-cert" THEN [r \in RemoteUnits |-> {}] ELSE EmptyDatabag
    /\ meant' = NONE /\ ours' = 0
    /\ bag' = [u \in Units |-> EmptyDatabag] /\ tracks' = [u \in Units |-> {}]
    /\ due' = [u \in Units |-> due[u] \union ({"created", "joined", "changed"} \intersect Observed)]
    /\ UNCHANGED <<kind, leader, up, secrets, wanted, hook, pending, applied, missed,
                   changes, accidents, elections>>

Break ==
    /\ Changes
    /\ exists' = FALSE
    /\ meant' = NONE
    /\ due' = [u \in Units |-> (due[u] \ RelationEvents) \union {"broken"}]
    /\ UNCHANGED <<kind, leader, up, related, theirs, remote, secrets, ours, wanted, bag,
                   tracks, hook, pending, applied, missed, relations, accidents,
                   elections>>

Elect(u) ==
    /\ u # leader /\ hook[leader] = "idle"
    /\ Accident("election")
    /\ elections' = elections + 1
    /\ leader' = u
    /\ UNCHANGED <<kind, up, exists, related, sideVars, ours, wanted, bag, tracks,
                   hookVars, applied, missed, relations, changes>>

\* The operator changes an option of the route.
Reconfigure ==
    /\ kind = "traefik-route"
    /\ changes < MaxChanges
    /\ changes' = changes + 1
    /\ wanted' = wanted + 1
    /\ Tell(Units, "config")
    /\ UNCHANGED <<kind, leader, up, exists, related, sideVars, ours, bag, tracks,
                   hook, pending, applied, missed, relations, accidents, elections>>

\* Pebble answers in the containers of a pod.
Start(u) ==
    /\ u \notin up
    /\ up' = up \union {u}
    /\ Tell({u}, "ready")
    /\ UNCHANGED <<kind, leader, exists, related, sideVars, ours, wanted, bag, tracks,
                   hook, pending, applied, missed, bounds>>

\* A pod is replaced between two hooks, and its containers are as the image has them.
Replace(u) ==
    /\ u \in up /\ hook[u] = "idle"
    /\ Accident("replacement")
    /\ up' = up \ {u}
    /\ applied' = [applied EXCEPT ![u] = Blank]
    /\ UNCHANGED <<kind, leader, exists, related, sideVars, ours, wanted, bag, tracks, hookVars,
                   missed, relations, changes, elections>>

Handle(u) == End(u) \/ \E event \in due[u] : Begin(u, event)
Provide ==
    \/ Announce \/ Answer \/ ChangeCredentials \/ ChangeEndpoints \/ Transfer
    \/ \E r \in RemoteUnits : RemoteJoins(r) \/ RemotePublishes(r) \/ RemoteDeparts(r)
Next ==
    \/ \E u \in Units : Handle(u) \/ Fail(u) \/ Elect(u) \/ Start(u) \/ Replace(u)
    \/ Provide \/ Relate \/ Break \/ Reconfigure

Spec == Init /\ [][Next]_vars

----------------------------------------------------------------------------
(* Properties.                                                             *)

Quiet(u) == u \in up /\ hook[u] = "idle" /\ due[u] = {}

\* What the containers of a unit are configured with is what the other application means.
Follows(u) ==
    CASE u \notin related ->
            IF kind = "logging" THEN Forwarding(applied[u]) = {} ELSE applied[u] = Blank
      [] u \in related /\ kind = "logging" ->
            /\ Forwarding(applied[u]) \subseteq DOMAIN remote
            /\ (\A r \in DOMAIN remote : remote[r] # 0) => Forwarding(applied[u]) = DOMAIN remote
      [] OTHER -> meant # NONE => applied[u] = meant

\* No change of a relation is lost: a unit with no event left to handle, whose last
\* reconciliation came to this relation, is configured with what the other application means it
\* to have, whatever failed and was repeated on the way.  (A unit reads a relation only when an
\* event makes it; the libraries decide which do.  A reconciliation that ends early with a
\* status leaves the unit as it was until something else makes it reconcile.)
InputsAreFollowed ==
    kind \in InputKinds => \A u \in Units : Quiet(u) /\ u \notin missed => Follows(u)

\* What the leader asks of other applications is current when it has no event left to handle,
\* as long as leadership does not move: it is never waiting for an answer that it has not
\* asked for, whatever its reconciliations came to, nor is the proxy left with the route of an
\* earlier configuration, if the last of them came to the route.
PublicationsAreCurrent ==
    /\ kind \in Publishers /\ exists /\ Quiet(leader) /\ elections = 0
    /\ kind = "traefik-route" => leader \notin missed
    => ours = Wanted

=============================================================================
