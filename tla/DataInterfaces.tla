---------------------------- MODULE DataInterfaces ----------------------------
(***************************************************************************)
(* The charm library data_interfaces: what a unit makes of a change in the *)
(* remote application's databag, and what a provider may write to its own. *)
(*                                                                         *)
(* A databag is a function from fields to numbers that stand for values; a *)
(* field that holds a secret's URI has the index of that secret.           *)
(***************************************************************************)
EXTENDS Naturals, Sequences

EmptyDatabag == << >>
Without(bag, fields) == [k \in DOMAIN bag \ fields |-> bag[k]]
With(bag, new) ==
    [k \in DOMAIN bag \union DOMAIN new |-> IF k \in DOMAIN new THEN new[k] ELSE bag[k]]

\* Mutant: a field that was there before is not looked at again.
DiffOfFields(old, new) ==
    [added |-> DOMAIN new \ DOMAIN old, deleted |-> DOMAIN old \ DOMAIN new, changed |-> {}]

\* diff: the databag against the copy that the unit kept when it last looked.
Diff(old, new) ==
    [added   |-> DOMAIN new \ DOMAIN old,
     deleted |-> DOMAIN old \ DOMAIN new,
     changed |-> {k \in DOMAIN old \intersect DOMAIN new : old[k] # new[k]}]

\* _main_credentials_shared.
CredentialsShared(diff) ==
    "secret-user" \in diff.added \/ {"username", "password"} \subseteq diff.added

\* The first event only: a new secret hides what else has changed.
DatabaseEvent(diff) ==
    IF CredentialsShared(diff) THEN "database_created"
    ELSE IF "endpoints" \in diff.added \union diff.changed THEN "endpoints_changed"
    ELSE "none"

\* _register_secrets_to_relation: the secrets whose URIs are new are read, and so tracked.
Registered(diff, bag) == {bag[k] : k \in diff.added \intersect {"secret-user"}}

\* What a provider may write before its requirer has named a database.
EarlyFields == {"endpoints", "read-only-endpoints", "replset", "encryption-secret"}
MayProvide(requested, fields) == requested \/ fields \subseteq EarlyFields

\* _add_or_update_relation_secrets: the secret of the relation is given new content, or is added
\* and its URI written to the databag.
SecretsAfter(bag, secrets, field, content) ==
    IF field \in DOMAIN bag THEN [secrets EXCEPT ![bag[field]] = content]
    ELSE Append(secrets, content)
BagAfter(bag, secrets, field) ==
    IF field \in DOMAIN bag THEN bag ELSE With(bag, [k \in {field} |-> Len(secrets) + 1])

=============================================================================
