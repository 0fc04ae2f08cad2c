---------------------------- MODULE RelationFields ----------------------------
(***************************************************************************)
(* The fields of a relation in data_interfaces.py: what a provider writes, *)
(* into its databag or into secrets for groups of fields, in hooks that    *)
(* may fail, and what the requirer, this charm for its database, finds.    *)
(*                                                                         *)
(* A relation is the provider's databag, the secrets that it refers to,    *)
(* the contents that the running hook has in its cache, the fields that    *)
(* the requirer wants in secrets, and whether the provider's Juju has      *)
(* secrets.  A field that is unknown is not in the domain of a function.   *)
(***************************************************************************)
EXTENDS DataInterfaces, Integers, SequencesExt

NoFields == << >>
OtherThan(f, names) == Restrict(f, DOMAIN f \ names)
Only(name, value) == [x \in {name} |-> value]

SECRET_LABEL_MAP ==
    [f \in {"username", "password", "uris", "read-only-uris", "tls", "tls-ca", "mtls-cert",
            "entity-name", "entity-password"} |->
        CASE f \in {"tls", "tls-ca"} -> "tls"
          [] f = "mtls-cert" -> "mtls"
          [] f \in {"entity-name", "entity-password"} -> "entity"
          [] OTHER -> "user"]

\* What a requirer asks to have in secrets.
SECRET_FIELDS == DOMAIN SECRET_LABEL_MAP \ {"mtls-cert"}

GroupOf(field) == IF field \in DOMAIN SECRET_LABEL_MAP THEN SECRET_LABEL_MAP[field] ELSE "extra"
Groups(fields) == {GroupOf(f) : f \in fields}
OfGroup(data, group) == Restrict(data, {f \in DOMAIN data : GroupOf(f) = group})

\* A relation as its provider first sees it.
NewRelation(enabled) ==
    [bag |-> NoFields, uris |-> NoFields, secrets |-> << >>, cache |-> NoFields,
     requested |-> {}, named |-> FALSE, enabled |-> enabled]

\* _on_relation_created_event of the requirer: it names the database, and the secret fields if its
\* Juju has secrets.
Requested(r, asks) == [r EXCEPT !.named = TRUE, !.requested = IF asks THEN SECRET_FIELDS ELSE {}]

----------------------------------------------------------------------------
(* Secrets.                                                                *)

\* The provider finds a secret by the label that it gave it; 0 where there is none.
SecretOf(r, group) ==
    LET found == {i \in DOMAIN r.secrets : r.secrets[i].group = group /\ r.secrets[i].content # NoFields}
    IN IF found = {} THEN 0 ELSE CHOOSE i \in found : TRUE

\* CachedSecret.get_content.
ContentOf(r, group) ==
    IF group \in DOMAIN r.cache THEN r.cache[group] ELSE r.secrets[SecretOf(r, group)].content

\* CachedSecret.set_content.
WithContent(r, group, content) ==
    [r EXCEPT !.secrets[SecretOf(r, group)].content = content, !.cache = With(@, Only(group, content))]

\* CachedSecret.add_secret: granted to the requirer, so that it can be read there at once.
NewSecret(r, group, content) ==
    [r EXCEPT !.secrets = Append(@, [group |-> group, content |-> content])]

\* _add_relation_secret, and the URI to the databag, where there must be none.
Added(r, group, content) ==
    IF group \in DOMAIN r.uris THEN r
    ELSE [NewSecret(r, group, content) EXCEPT !.uris = With(@, Only(group, Len(r.secrets) + 1))]

\* SecretCache.remove, and the URI from the databag.
Removed(r, group) ==
    [r EXCEPT !.secrets[SecretOf(r, group)].content = NoFields,
              !.uris = OtherThan(@, {group}), !.cache = OtherThan(@, {group})]

\* local_secret_fields, as _load_secrets_from_databag finds them on the requirer's side.
LocalSecretFields(r) == IF r.enabled THEN r.requested ELSE {}

\* A relation that began with these fields in the databag stays on the databag.
FallsBack(r) == r.requested \intersect DOMAIN r.bag # {}

\* Mutant: a relation that began without secrets goes on with them.
SecretsFromNowOn(r, fields) == IF r.enabled THEN fields \intersect r.requested ELSE {}

\* _process_secret_fields: the fields that are looked for in secrets.
SecretFields(r, fields) ==
    IF FallsBack(r) THEN {} ELSE fields \intersect LocalSecretFields(r)

----------------------------------------------------------------------------
(* The databag.                                                            *)

\* _fetch_relation_data_without_secrets, _update_... and _delete_...: fields that are not there are
\* passed over.  What another model's requirer must have encrypted is no field of a database.
PlainFields(r, fields) == Restrict(r.bag, DOMAIN r.bag \intersect fields)
PlainWritten(r, data) == [r EXCEPT !.bag = With(@, data)]
PlainDeleted(r, fields) == [r EXCEPT !.bag = OtherThan(@, fields)]

----------------------------------------------------------------------------
(* The provider's operations.                                              *)

\* _update_relation_secret: the other fields of the group stay.
Revised(r, group, new) == WithContent(r, group, With(ContentOf(r, group), new))

\* _add_or_update_relation_secrets.
GroupUpdated(r, group, new) ==
    IF SecretOf(r, group) = 0 THEN Added(r, group, new) ELSE Revised(r, group, new)

Updated(r, data) ==
    LET secret == SecretFields(r, DOMAIN data) IN
        PlainWritten(FoldSet(LAMBDA g, t : GroupUpdated(t, g, OfGroup(Restrict(data, secret), g)),
                             r, Groups(secret)),
                     OtherThan(data, secret))

\* _delete_relation_secret: nothing is taken out of a secret that has not all of the fields of the
\* call, those of other groups and of the databag among them.
GroupDeleted(r, group, fields) ==
    IF SecretOf(r, group) = 0 \/ ~(fields \subseteq DOMAIN ContentOf(r, group)) THEN r
    ELSE IF DOMAIN ContentOf(r, group) = fields THEN Removed(r, group)
    ELSE WithContent(r, group, OtherThan(ContentOf(r, group), fields))

Deleted(r, fields) ==
    PlainDeleted(FoldSet(LAMBDA g, t : GroupDeleted(t, g, fields), r,
                         Groups(SecretFields(r, fields))), fields)

\* leader_only: a unit that does not lead writes nothing.
LeaderOnly(op) == op.leads

\* A hook ends or fails, and the next one starts with nothing in its cache.
HookEnds(h) == LET r == [h.now EXCEPT !.cache = NoFields] IN [now |-> r, kept |-> r]
HookFails(h) == [h EXCEPT !.now = h.kept]

\* Operations of a provider, and what happens between two of its hooks.
Operate(h, op, asks) ==
    LET between == HookEnds(h).now
        begin(r) == [now |-> r, kept |-> r]
    IN CASE op.kind \in {"update", "delete"} /\ ~LeaderOnly(op) -> h
         [] op.kind = "update" /\ LeaderOnly(op) ->
                IF MayProvide(h.now.named, DOMAIN op.data)
                THEN [h EXCEPT !.now = Updated(@, op.data)] ELSE HookFails(h)
         [] op.kind = "delete" /\ LeaderOnly(op) -> [h EXCEPT !.now = Deleted(@, op.fields)]
         [] op.kind = "end"     -> HookEnds(h)
         [] op.kind = "request" -> begin(Requested(between, asks))
         [] op.kind = "enable"  -> begin([between EXCEPT !.enabled = TRUE])
         [] OTHER               -> HookFails(h)

----------------------------------------------------------------------------
(* The requirer.                                                           *)

\* remote_secret_fields.
RemoteSecretFields(reads) == IF reads THEN SECRET_FIELDS ELSE {}

\* get_secret_uri: in the provider's databag, 0 for none.
SecretUri(r, group) == IF group \in DOMAIN r.uris THEN r.uris[group] ELSE 0

\* _get_group_secret_contents.
GroupContents(r, group, fields) ==
    IF SecretUri(r, group) = 0 THEN NoFields
    ELSE LET content == r.secrets[SecretUri(r, group)].content IN
            Restrict(content, DOMAIN content \intersect fields)

\* fetch_relation_data of all fields: where a group is in no secret the databag is looked at.
Fetched(r, reads) ==
    LET secret == RemoteSecretFields(reads)
        contents == [g \in Groups(secret) |-> GroupContents(r, g, secret)]
        missing == {f \in secret : contents[GroupOf(f)] = NoFields}
    IN With(FoldSet(LAMBDA g, found : With(found, contents[g]), NoFields, Groups(secret)),
            PlainFields(r, (DOMAIN r.bag \ secret) \union missing))

=============================================================================
