--------------------------- MODULE ObservedContent ---------------------------
(***************************************************************************)
(* What applications make of the dashboards, scrape jobs, alert rules and  *)
(* credentials that others publish in a relation, and what the charm lets  *)
(* be seen of its credentials and does at an operator's request: a state   *)
(* for each input, and one for what becomes of it.                         *)
(***************************************************************************)
EXTENDS AlertRules, RelationFields, UnitActions

CONSTANTS
    Boards,         \* dashboards that are converted
    Collections,    \* what Grafana's charm stores, a sequence of relations with templates
    Applications,   \* sequences of relations with Prometheus
    RuleSets,       \* sequences of relations with alert rules, for each language
    Providers,      \* sequences of what a database's provider does
    Texts,          \* what is logged, in which model
    Sessions        \* families of sequences of actions on a unit

\* Who uses a name of ours means a data source of ours.
IsBoard(d) ==
    LET ours(name) == name \in Range(Replacements)
        means(name, type) == ours(name) => type \in DOMAIN Replacements /\ Replacements[type] = name
    IN /\ \A x \in Variables(d) \union Range(d.inputs) : means(x.name, x.of)
       /\ \A p \in PanelsOf(d) :
             p.ds # NONE /\ p.ds.form = "object" => means(p.ds.name, p.ds.type)

ASSUME BoardsAssumption == \A d \in Boards : IsBoard(d)

\* Files of a charm have names of their own, and versions are numbers where there are any.
IsTemplate(t) ==
    /\ t = [original_id |-> t.original_id, charm |-> t.charm, alt |-> t.alt, uid |-> t.uid,
            dropdowns |-> t.dropdowns, topology |-> t.topology, version |-> t.version,
            board |-> t.board]
    /\ t.version # NONE => t.version \in Int
    /\ "text" \in DOMAIN t.board /\ t.board.text \in Int

ASSUME CollectionsAssumption ==
    \A stored \in Collections :
        /\ IsSequence(stored)
        /\ \A k, l \in DOMAIN stored : k # l => stored[k].relation # stored[l].relation
        /\ \A k \in DOMAIN stored : LET templates == stored[k].dashboards IN
              /\ stored[k] = [relation |-> stored[k].relation, dashboards |-> templates]
              /\ stored[k].relation \in Seq(0 .. 9) /\ IsSequence(templates)
              /\ \A i \in DOMAIN templates : IsTemplate(templates[i])
              /\ \A i, j \in DOMAIN templates :
                    i # j => templates[i].original_id # templates[j].original_id

\* Relations have ids of their own, groups have rules, and who tells what it can read can read it.
IsRuleFile(rules) ==
    /\ IsSequence(rules)
    /\ \A g \in DOMAIN rules : LET group == rules[g] IN
          /\ group = [name |-> group.name, rules |-> group.rules]
          /\ IsSequence(group.rules) /\ 1 \in DOMAIN group.rules
          /\ \A i \in DOMAIN group.rules : LET rule == group.rules[i] IN
                rule = [labels |-> rule.labels, valid |-> rule.valid, injected |-> rule.injected]

ASSUME RuleSetsAssumption ==
    \A language \in Languages : \A relations \in RuleSets[language] :
        /\ IsSequence(relations)
        /\ \A k, l \in DOMAIN relations : k # l => relations[k].id # relations[l].id
        /\ \A k \in DOMAIN relations : LET r == relations[k] IN
              /\ IsRuleFile(r.rules)
              /\ r.reader = "ours" => Range(Encodings) \subseteq r.reads
              /\ r.advertised # NONE => r.advertised \subseteq r.reads

\* Applications have names, units are not NONE, and what is published is a sequence where it is there.
PublishesJobs(r) ==
    /\ IsFiniteSet(r.units) /\ NONE \notin r.units
    /\ r.known \in BOOLEAN /\ (r.known => r.app # NONE)
    /\ IsSequence(r.jobs)
    /\ \A job \in Range(r.jobs) :
          /\ job = [name |-> job.name, path |-> job.path, statics |-> job.statics, valid |-> job.valid]
          /\ job.valid \in BOOLEAN
          /\ job.statics # NONE =>
                IsSequence(job.statics) /\ \A s \in Range(job.statics) : IsSequence(s)

ASSUME ApplicationsAssumption ==
    \A relations \in Applications :
        /\ IsSequence(relations)
        /\ \A k, l \in DOMAIN relations : k # l => relations[k].id # relations[l].id
        /\ \A k \in DOMAIN relations : PublishesJobs(relations[k])

ASSUME ProvidersAssumption ==
    \A ops \in Providers :
        /\ IsSequence(ops)
        /\ \A i \in DOMAIN ops : LET op == ops[i] IN
              op.kind = "update" => op.data = [f \in DOMAIN op.data |-> op.data[f]]

\* What is called a credential is one where REDACTION has its name, and a secret that the unit can
\* read is one that an application has told of.
CredentialNames ==
    {"password", "entity-password", "client_secret", "secret", "access-key", "secret-key", "key",
     "session", "saml-salt", "authentication-token-version", "mediawiki", "git-sync"}
Named(content) == DOMAIN content \intersect CredentialNames
NamedIn(secret) == Named(secret.tracked) \union Named(secret.latest)
Bags(relation) == {relation.bag} \union (IF relation.parses THEN Range(relation.requests) ELSE {})
References(relation, data) ==
    {data[f] : f \in REDACTION[relation.endpoint].references \intersect DOMAIN data}
IsModel(model) ==
    /\ NamedIn(model.replica) \subseteq ReplicaFields
    /\ NamedIn(model.sshKey) \subseteq SshKeyFields
    /\ \A r \in model.relations :
          /\ r.endpoint \in DOMAIN REDACTION
          /\ \A data \in Bags(r) : /\ Named(data) \subseteq REDACTION[r.endpoint].fields
                                  /\ References(r, data) \subseteq DOMAIN model.secrets
    /\ \A i \in DOMAIN model.secrets : LET secret == model.secrets[i] IN
          secret.readable => \E r \in model.relations : \E data \in Bags(r) :
              i \in References(r, data) /\ NamedIn(secret) \subseteq REDACTION[r.endpoint].fields

ASSUME TextsAssumption ==
    \A text \in Texts :
        /\ IsModel(text.model)
        /\ IsSequence(text.pieces)
        /\ \A i \in DOMAIN text.pieces :
              IsSequence(text.pieces[i].value) /\ text.pieces[i].form \in Forms

ASSUME SessionsAssumption ==
    \A k \in DOMAIN Sessions : \A session \in Sessions[k] :
        /\ IsModel(session.model)
        /\ IsState(session.state)
        /\ IsSequence(session.ops)
        /\ \A i \in DOMAIN session.ops : IsOperation(session.ops[i])

VARIABLES
    subject,        \* what is converted
    given,
    made            \* NONE before the conversion

contentVars == <<subject, given, made>>

ContentTypeOK == subject \in {"dashboard", "collection", "targets", "rules", "fields", "text", "actions"}

ContentInit ==
    /\ made = NONE
    /\ \/ subject = "dashboard" /\ given \in [board : Boards, injects : BOOLEAN]
       \/ subject = "collection" /\ given \in Collections
       \/ subject = "targets" /\ given \in Applications
       \/ subject = "rules" /\ \E language \in Languages :
            given \in [language : {language}, relations : RuleSets[language], leads : BOOLEAN,
                       reported : SUBSET {1}]
       \/ subject = "fields" /\ \E asks, reads \in BOOLEAN :
            /\ asks => reads
            /\ given \in [enabled : BOOLEAN, asks : {asks}, reads : {reads}, ops : Providers]
       \/ subject = "text" /\ given \in Texts
       \/ subject = "actions" /\ \E k \in DOMAIN Sessions : given \in Sessions[k]

\* What Grafana's charm puts into its workload for one dashboard.
ShowBoard ==
    /\ subject = "dashboard"
    /\ made' = LET converted == Converted(given.board, given.injects) IN
                    IF given.injects THEN Injected(converted) ELSE converted

\* What it lists of all that it renders and stores.
ListDashboards ==
    /\ subject = "collection"
    /\ made' = Dashboards([k \in DOMAIN given |->
                    [given[k] EXCEPT !.dashboards = [i \in DOMAIN @ |-> Rendered(@[i])]]])

Scrape ==
    /\ subject = "targets"
    /\ made' = Jobs(given)

\* The rules as their applications write them; those of another library come in a form of its own,
\* and a reader with another library tells of itself what it tells.
Publication(relation) ==
    LET advertised == IF relation.reader = "ours" THEN Advertised(relation.advertised, given.leads)
                      ELSE relation.advertised
    IN [id |-> relation.id, inhabited |-> relation.inhabited, metadata |-> relation.metadata,
        raw |-> IF relation.form = "ours" THEN Written(given.language, relation.rules, advertised)
                ELSE [format |-> relation.form, rules |-> relation.rules]]
Publications == [k \in DOMAIN given.relations |-> Publication(given.relations[k])]

LoadRules ==
    /\ subject = "rules"
    /\ made' = LET loaded == Alerts(given.language, Publications, given.reported) IN
                 [alerts |-> loaded.alerts,
                  errors |-> IF given.leads THEN loaded.errors ELSE given.reported,
                  blocked |-> HasInvalidAlertRules(given.leads, loaded.errors)]

\* What a requirer fetches of a relation after all that the provider did in its hooks.
FetchFields ==
    /\ subject = "fields"
    /\ made' = LET fresh == NewRelation(given.enabled)
                   hook == FoldLeft(LAMBDA h, op : Operate(h, op, given.asks),
                                    [now |-> fresh, kept |-> fresh], given.ops)
               IN [relation |-> hook.kept, fields |-> Fetched(hook.kept, given.reads)]

\* The formatter of the root logger masks a line after it was put together; each piece of one is
\* a value in some form.
Line(pieces) == FlattenSeq([i \in DOMAIN pieces |-> InForm(pieces[i].value, pieces[i].form)])
Log ==
    /\ subject = "text"
    /\ made' = Redacted(Line(given.pieces), SeededValues(given.model))

\* Each action is an invocation of its own.
RunActions ==
    /\ subject = "actions"
    /\ made' = FoldLeft(LAMBDA done, op :
                            Append(done, Act(IF done = << >> THEN given.state ELSE Last(done).state,
                                             op, SeededValues(given.model))),
                        << >>, given.ops)

ContentNext ==
    /\ made = NONE
    /\ ShowBoard \/ ListDashboards \/ Scrape \/ LoadRules \/ FetchFields \/ Log \/ RunActions
    /\ UNCHANGED <<subject, given>>

ContentSpec == ContentInit /\ [][ContentNext]_contentVars

----------------------------------------------------------------------------
(* Properties.                                                             *)

Done(what) == subject = what /\ made # NONE

\* The type of the data source that a panel shows: as the dashboard defines it, or as Grafana does.
TypeByItself(ds) ==
    CASE ds.form = "other"  -> "unknown"
      [] ds.form = "object" -> ds.type
      [] ds.form = "string" -> IF ds.name \in LokiNames THEN "loki"
                               ELSE IF ds.name \in GrafanaNames THEN "grafana" ELSE "prometheus"
IsNamed(d, ds) == ds.form # "other" /\ ds.name \in DOMAIN Datasources(d)
Meaning(d, ds) ==
    IF IsNamed(d, ds) THEN Datasources(d)[ds.name]
    ELSE IF ds.form # "other" /\ ds.name \in Range(Replacements)
         THEN CHOOSE t \in DOMAIN Replacements : Replacements[t] = ds.name
    ELSE IF d.templated /\ ds.form = "string" /\ ds.name \notin GrafanaNames THEN "builtin"
    ELSE TypeByItself(ds)

IsDefined(d, ds) ==
    ds.written = "plain" \/ ds.name \in {x.name : x \in Range(d.list) \union Range(d.inputs)}

\* What conversion does change, each in a dashboard that an author may well write.  Without
\* variables, an input's type does not count, but the name that it has or the type beside it
\* (grafana_dashboard.py:712).
Misread(d, ds) == ~d.templated /\ IsNamed(d, ds) /\ Datasources(d)[ds.name] # TypeByItself(ds)

\* Inputs are deleted, and who names one of another type than ours keeps the name
\* (grafana_dashboard.py:591, 746, 766).
Orphaned(d, ds) ==
    /\ IsNamed(d, ds) /\ \A v \in Variables(d) : v.name # ds.name
    /\ (IF d.templated THEN Datasources(d)[ds.name] ELSE TypeByItself(ds)) \notin DOMAIN Replacements

\* An author's variable with a name of ours is in place of ours, and is removed if a panel names
\* it in another way than we do (grafana_dashboard.py:619, 677).
Displaced(d, name) ==
    /\ d.templated /\ name \in {v.name : v \in Variables(d)} \intersect Range(Replacements)
    /\ \E q \in PanelsOf(d) : /\ q.ds # NONE /\ q.ds.form # "other"
                              /\ q.ds.name = name /\ ~IsOurs(q.ds)

KeepsItsData(before, after) ==
    \/ before.ds = NONE /\ after.ds = NONE
    \/ LET d == given.board ds == before.ds IN
        /\ Misread(d, ds) \/ Orphaned(d, ds) \/ Meaning(made, after.ds) = Meaning(d, ds)
        /\ IsDefined(d, ds) => Orphaned(d, ds) \/ Displaced(d, after.ds.name) \/ IsDefined(made, after.ds)

\* Labels are in the expressions that can be parsed and are for a data source of ours, the ranges
\* and offsets are those that the author wrote, unless one is written like the placeholder
\* (grafana_dashboard.py:942, 955).
KeepsItsExpression(before, after, isPanel) ==
    \/ before.expr = NONE /\ after.expr = NONE
    \/ LET old == before.expr new == after.expr
           stays(values, now) == Placeholder \notin Range(values) => now = values IN
        /\ new.labelled = (/\ given.injects /\ isPanel /\ before.ds # NONE /\ old.parses
                           /\ after.ds.form # "other" /\ IsOurs(after.ds))
        /\ new.parses = old.parses
        /\ stays(old.ranges, new.ranges) /\ stays(old.offsets, new.offsets)

\* Conversion keeps what a panel shows, but for what is listed above: its own data source is of
\* the type that the dashboard gave it and is defined if it was, and its expression is the author's
\* (grafana_dashboard.py:568, 775).  No variable is there twice.
PanelsKeepTheirMeaning ==
    Done("dashboard") =>
        /\ \A i \in DOMAIN made.panels :
              /\ KeepsItsData(given.board.panels[i], made.panels[i])
              /\ KeepsItsExpression(given.board.panels[i], made.panels[i], TRUE)
        /\ \A i \in DOMAIN made.nested :
              /\ KeepsItsData(given.board.nested[i], made.nested[i])
              /\ KeepsItsExpression(given.board.nested[i], made.nested[i], FALSE)
        /\ \A v, w \in DOMAIN made.list : v # w => made.list[v].name # made.list[w].name

Offered ==
    UNION {{<<given[k].relation, given[k].dashboards[i]>> : i \in DOMAIN given[k].dashboards} :
            k \in DOMAIN given}

\* Every dashboard that has a uid is shown or gives way to one of the same uid that does not come
\* before it, and no uid is shown twice: a version is never hidden by a lower one, and of equal
\* versions the relation decides whose id is the last string, "9" and not "10", whatever order
\* they are stored in (grafana_dashboard.py:1868).
DashboardsAreShownOnce ==
    Done("collection") =>
        /\ \A o, p \in made : o # p => o.dashboard_uid # p.dashboard_uid
        /\ \A o \in made : \E x \in Offered :
              o.relation_id = x[1] /\ o.id = x[2].original_id /\ o.charm = x[2].charm
        /\ \A x \in Offered : LET uid == ManagedUid(x[2]) o == External(x[1], x[2]) IN
              IF uid = NoUid THEN \A p \in made : p.id # o.id \/ p.relation_id # x[1]
              ELSE \E p \in made : p.dashboard_uid = uid /\ ~Before(p, o)

\* What a job of a relation asks to be scraped: a target, the path, and the unit that it is.
AskedFor(target, path, hosts) ==
    IF target[1] = "*"
    THEN {<<hosts[u].address, target[2], hosts[u].path \o path, u>> : u \in DOMAIN hosts}
    ELSE LET u == UnitAt(hosts, target[1]) IN
        {<<target[1], target[2], IF u = NONE THEN path ELSE hosts[u].path \o path, u>>}
TargetsOf(job) == UNION {Range(targets) : targets \in Range(job.statics)}
AskedBy(job, hosts) == UNION {AskedFor(t, job.path, hosts) : t \in TargetsOf(job)}
Asked(r) == UNION {AskedBy(Sanitized(r.jobs[i]), Hosts(r)) : i \in DOMAIN r.jobs}

\* Jobs of relations without metadata are taken as they are.
AllScraped ==
    LET renamed == {job \in Range(made.jobs) : job.name.app # NONE} IN
        UNION {{<<t[1], t[2], job.path, job.unit>> : t \in TargetsOf(job)} : job \in renamed}

\* Everything that a relation with valid jobs asks for is scraped and nothing else, at each unit's
\* own path and under its name, by jobs with a name of their own (prometheus_scrape.py:1029).  A
\* job that is not valid does no harm while no unit has an address for it.
TargetsAreScrapedOnce ==
    Done("targets") =>
        LET harmless(r, job) == job.valid \/ AskedBy(Sanitized(job), Hosts(r)) = {}
            taken == {k \in DOMAIN given : given[k].units # {} /\ given[k].known
                                           /\ \A job \in Range(given[k].jobs) : harmless(given[k], job)}
        IN /\ AllScraped = UNION {Asked(given[k]) : k \in taken}
           /\ \A i, j \in DOMAIN made.jobs : i # j => made.jobs[i].name # made.jobs[j].name
           /\ \A k \in taken : given[k].id \notin made.refused

\* What is written can be read at the other end.  Prometheus loads the valid rules of every
\* relation, whatever the others publish.  Loki names files after applications only, and of the
\* relations with one name the last that publishes rules decides: its rules are loaded if they are
\* valid, and none of that name if they are not.  The leader reports a relation's invalid rules
\* and takes the report back when it finds valid ones; a report stays where there are no rules any
\* more, no units, or none that can be read (prometheus_scrape.py:1075, 1121, loki_push_api.py:1294,
\* 1367).
RulesAreLoaded ==
    Done("rules") =>
        LET relations == Publications
            rules(k) == relations[k].raw.rules
            id(k) == Identifier(rules(k), relations[k].metadata)
            files == {k \in DOMAIN relations :
                        /\ relations[k].inhabited /\ rules(k) # Empty
                        /\ Readable(given.language, relations[k].raw)}
            valid == {k \in files : IsValidFile(rules(k))}
            replaces(l, k) == given.language = "logql" /\ l > k /\ id(l) = id(k)
            lasting == {k \in valid : \A l \in files : ~replaces(l, k)}
        IN /\ \A k \in DOMAIN given.relations :
                given.relations[k].form = "ours" =>
                    relations[k].raw.format \in {"json"} \union given.relations[k].reads
           /\ Cardinality(DOMAIN made.alerts) = Cardinality(lasting)
           /\ \A k \in lasting : \E f \in DOMAIN made.alerts :
                 f.identifier = id(k) /\ made.alerts[f] = WithLabels(rules(k))
           /\ made.errors = IF given.leads
                            THEN {relations[k].id : k \in files \ valid} \union
                                 (given.reported \ {relations[k].id : k \in valid})
                            ELSE given.reported

\* What a provider's operations come to: the value of each field, in the hooks that did not fail.
\* A deletion of fields that are not of one kind, or not all there, is loose: it may delete some.
OneKind(fields) == fields \intersect SECRET_FIELDS = {} \/ Cardinality(Groups(fields)) = 1
Intended(h, op) ==
    CASE op.kind \in {"update", "delete"} /\ ~op.leads -> h
      [] op.kind = "update" /\ op.leads /\ (h.named \/ DOMAIN op.data \subseteq EarlyFields) ->
            [h EXCEPT !.now = [f \in DOMAIN op.data \union DOMAIN @ |->
                                   IF f \in DOMAIN op.data THEN op.data[f] ELSE @[f]]]
      [] op.kind = "delete" /\ op.leads ->
            [h EXCEPT !.now = OtherThan(@, op.fields),
                      !.loose = @ \/ ~OneKind(op.fields) \/ ~(op.fields \subseteq DOMAIN h.now)]
      [] op.kind \in {"end", "request", "enable"} ->
            [h EXCEPT !.kept = h.now, !.named = @ \/ op.kind = "request"]
      [] OTHER -> [h EXCEPT !.now = h.kept]

\* A requirer finds every field as the provider last wrote it and none that it deleted, whichever
\* of them has secrets since when, and between applications that have them from the start no
\* requested field is in the databag (data_interfaces.py:1554, 1650).
FieldsAreFound ==
    Done("fields") =>
        LET hook == FoldLeft(Intended, [now |-> NoFields, kept |-> NoFields, named |-> FALSE,
                                        loose |-> FALSE], given.ops)
        IN /\ ~hook.loose => made.fields = hook.kept
           /\ given.enabled => DOMAIN made.relation.bag \intersect made.relation.requested = {}
           /\ \A g \in DOMAIN made.relation.uris :
                 made.relation.secrets[made.relation.uris[g]].content # NoFields

\* The credentials that the unit could read: whatever stands under the name of one.
CredentialsIn(model) ==
    LET readable == {s \in {model.replica, model.sshKey} \union Range(model.secrets) : s.readable}
        revisions == UNION {{s.tracked, s.latest} : s \in readable}
        contents == revisions \union UNION {Bags(r) : r \in model.relations}
    IN UNION {{c[f] : f \in Named(c)} : c \in contents}

\* What is not to be seen: what is not blank, and of a key also each line that does not begin with a
\* delimiter, in every form.
Secret(credentials) ==
    LET values == {c \in credentials : Stripped(c) # << >>}
        keys == {c \in values : Range(c) \intersect DELIMITERS # {}}
        lines == {l \in UNION {Lines(c) : c \in keys} : Stripped(l) # << >> /\ l[1] \notin DELIMITERS}
    IN values \union {Stripped(l) : l \in lines}
SecretForms(credentials) == {InForm(v, f) : v \in Secret(credentials), f \in Forms}

Shows(text, value) ==
    /\ Len(value) \in 1 .. Len(text)
    /\ \E a \in 1 .. Len(text) - Len(value) + 1 : SubSeq(text, a, a + Len(value) - 1) = value
Hides(text, credentials) ==
    \A value \in SecretForms(credentials) : MASK \notin Range(value) => ~Shows(text, value)

\* No credential shows up in a line by accident: each begins where one was put, and with that it ends.
Separate(pieces, credentials) ==
    LET text == Line(pieces)
        secrets == SecretForms(credentials)
        Beginning(j) == {n \in 1 .. Len(text) - j + 1 : SubSeq(text, j, j + n - 1) \in secrets}
        Offset(i) == Len(Line(SubSeq(pieces, 1, i - 1)))
        Size(i) == Len(InForm(pieces[i].value, pieces[i].form))
    IN \A i \in DOMAIN pieces :
          IF pieces[i].value \in Secret(credentials) THEN Beginning(Offset(i) + 1) \subseteq 1 .. Size(i)
          ELSE \A j \in 1 .. Size(i) : Beginning(Offset(i) + j) = {}

Generated(op) == IF op.action = "create-and-promote" /\ op.generate THEN {op.fresh} ELSE {}

\* A credential that can be read, from a databag or a secret, old or about to be, is seen in no form
\* that a log line or a file of settings gives it, nor in an action's output, which does not show
\* the password of the user that it creates either; it is masked as a whole, and nothing else is,
\* unless a part of a line is a credential by accident (log_redaction.py:48, 82, charm.py:257,
\* container.py:38).
SecretsAreMasked ==
    /\ Done("text") =>
        /\ Hides(made, CredentialsIn(given.model))
        /\ Separate(given.pieces, CredentialsIn(given.model)) =>
            made = FlattenSeq([i \in DOMAIN given.pieces |->
                        LET piece == given.pieces[i] IN
                            IF piece.value \in Secret(CredentialsIn(given.model)) THEN <<MASK>>
                            ELSE InForm(piece.value, piece.form)])
    /\ Done("actions") =>
        \A k \in DOMAIN made : Runs(given.ops[k]) =>
            Hides(made[k].outcome.output, CredentialsIn(given.model) \union Generated(given.ops[k]))

StateBefore(k) == IF k = 1 THEN given.state ELSE made[k - 1].state
Creates(op, username) == op.action = "create-and-promote" /\ op.username = username

\* What an action that reports success has done.  The reconciliation of one unit is the exception:
\* it has not raised, and that is all that its success says, whatever the log line says that it
\* is completed (charm.py:631); it may have ended with a status that nothing of it was done.
Fulfilled(op, state, outcome) ==
    CASE op.action = "create-and-promote" ->
            /\ op.username \in DOMAIN state.users
            /\ LET user == state.users[op.username] IN
                  /\ user.password # NoPassword /\ op.groups \subseteq user.groups
                  /\ op.generate => outcome.password = user.password
      [] op.action = "run-maintenance-script" -> op.answer = "in time" /\ op.code = 0
      [] op.action = "update-database"        -> state.mode = DATABASE_UPDATE
      [] op.action = "force-reconciliation"   -> IF op.all THEN state.mode = FORCE_RECONCILIATION
                                                 ELSE op.ends \in {"complete", "status"}
      [] op.action = "set-maintenance-mode"   -> outcome.output # << >> <=> state.mode = MAINTENANCE

\* What may have been done by an action that failed.
Interrupted(op) == IF Runs(op) THEN op.answer = "late" ELSE IsAlone(op) /\ op.ends = "raises"

\* An action that reports success has done what it was asked, but for the reconciliation of one
\* unit, of which only the unit's status tells how it ended; the password that it shows is the
\* user's until another attempt; one that failed has done nothing, unless its command was not
\* answered or its reconciliation raised, and a user whose creation was not answered is brought
\* back under control by the same action with force (charm.py:453, 504, 598, 634).
ActionsTellWhatHappened ==
    Done("actions") =>
        /\ \A k \in DOMAIN made :
            LET op == given.ops[k] before == StateBefore(k)
                after == made[k].state outcome == made[k].outcome
            IN /\ outcome.failed /\ ~Interrupted(op) => after = before
               /\ ~outcome.failed => Fulfilled(op, after, outcome)
               /\ after.ended = IF IsAlone(op) THEN op.ends ELSE before.ended
               /\ after.mode # before.mode => ~outcome.failed /\ before.mode = NORMAL
                                              /\ UnitsAreNormal(before)
               /\ op.action = "create-and-promote" /\ op.generate /\ op.force =>
                    (outcome.failed <=> op.answer # "in time")
               /\ outcome.password # NoPassword => ~outcome.failed
        /\ \A username \in UNION {DOMAIN made[k].state.users : k \in DOMAIN made} :
            LET sets == {k \in DOMAIN made : Creates(given.ops[k], username) /\ given.ops[k].generate}
                told == {k \in sets : made[k].outcome.password # NoPassword}
            IN told # {} /\ (\A k \in sets : k > Max(told) => given.ops[k].answer # "late") =>
                  Last(made).state.users[username].password = made[Max(told)].outcome.password

=============================================================================
