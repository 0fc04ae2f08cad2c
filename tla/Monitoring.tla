----------------------------- MODULE Monitoring -----------------------------
(***************************************************************************)
(* What the application lets Prometheus scrape, or Grafana show, from its  *)
(* units to the workload of the other application: the charm libraries     *)
(* prometheus_scrape and grafana_dashboard, both ends.                     *)
(*                                                                         *)
(* A hook of ours reads options, addresses and leadership when it begins   *)
(* and writes to the relations when it ends well.                          *)
(***************************************************************************)
EXTENDS Naturals, FiniteSets

CONSTANTS
    Units, Servers, Relations, NONE,
    Kinds,
    Serves,     \* for each kind, the relation that each server's application is in
    InvalidRevisions,
    MaxChanges, MaxAccidents,   \* bounds
    Faults

AllKinds == {"metrics-endpoint", "grafana-dashboard"}
FaultKinds == {"hook-failure", "election", "replacement"}

ASSUME UnitsAssumption == Units # {} /\ NONE \notin Units
ASSUME KindsAssumption == Kinds \subseteq AllKinds
ASSUME RelationsAssumption ==
    Relations \subseteq Nat /\ Serves \in [Kinds -> [Servers -> Relations]]
ASSUME BoundsAssumption ==
    {MaxChanges, MaxAccidents} \union InvalidRevisions \subseteq Nat
ASSUME FaultsAssumption == Faults \subseteq FaultKinds

VARIABLES
    kind,
    leader, present,   \* units of the application
    exists,            \* relations that there are
    option,            \* static_assets_git_repo: "unset", "set", or an invalid configuration
    released,          \* latest revision of the charm
    revision,          \* revision that each unit runs
    address,           \* of each unit's pod
    published,         \* what our application's databag says, by relation
    host,              \* address in each unit's databag, 0 for none
    due, hook, pending,
    head,              \* leader of the other application, the same throughout
    stored,            \* dashboards in its peer databag, NONE without
    report,            \* whether it reports errors in the relation
    notices,           \* events that each server has yet to handle
    shown,             \* what its workload is configured with
    changes, accidents

ourVars == <<leader, present, option, released, revision, address>>
relationVars == <<exists, published, host>>
hookVars == <<due, hook, pending>>
serverVars == <<head, stored, report, shown>>
bounds == <<changes, accidents>>
vars == <<kind, ourVars, relationVars, hookVars, serverVars, notices, bounds>>

RelationOf(s) == Serves[kind][s]
Served == {RelationOf(s) : s \in Servers}
Nothing == [jobs |-> << >>, revision |-> 0, unit |-> NONE]
NoTargets == << >>
Idle == [event |-> NONE, relations |-> {}, option |-> "unset", leads |-> FALSE]

Init ==
    /\ kind \in Kinds
    /\ leader \in Units /\ present = Units
    /\ exists = {} /\ option \in {"unset", "set"}
    /\ released \in {1} \union IF kind = "grafana-dashboard" THEN InvalidRevisions ELSE {}
    /\ revision = [u \in Units |-> released] /\ address = [u \in Units |-> 1]
    /\ published = [r \in Relations |-> Nothing]
    /\ host = [r \in Relations |-> [u \in Units |-> 0]]
    /\ due = [u \in Units |-> {}] /\ hook = [u \in Units |-> "idle"]
    /\ pending = [u \in Units |-> Idle]
    /\ head \in {h \in [Served -> Servers] : \A r \in Served : RelationOf(h[r]) = r}
    /\ stored = [r \in Relations |-> NONE] /\ report = [r \in Relations |-> FALSE]
    /\ notices = [s \in Servers |-> {}]
    /\ shown = [s \in Servers |-> IF kind = "metrics-endpoint" THEN NoTargets ELSE NONE]
    /\ changes = 0 /\ accidents = 0

----------------------------------------------------------------------------
(* Our end.                                                                *)

\* metrics_scrape_jobs of git-sync: an invalid configuration counts as one with a repository.
GitSyncJobs(opt) == IF opt = "unset" THEN 0 ELSE 1

\* _scrape_jobs: the jobs of git-sync are appended to the same list once for each relation.
ScrapeJobs(opt, relations, r) ==
    LET before == Cardinality({q \in relations : q <= r}) IN
        [k \in 1 .. 1 + before * GitSyncJobs(opt) |-> IF k = 1 THEN "units" ELSE "git_sync"]

Publication(u, r, opt, relations) ==
    IF kind = "metrics-endpoint"
    THEN [jobs |-> ScrapeJobs(opt, relations, r), revision |-> revision[u], unit |-> NONE]
    ELSE [jobs |-> << >>, revision |-> revision[u], unit |-> u]

\* The events upon which the leader publishes, and any unit its address.
MetricsEvents == {"joined", "ready", "config", "elected"}
AddressEvents == MetricsEvents \union {"changed", "status"}
DashboardEvents == {"created", "upgrade", "config", "elected"}
PublicationEvents == IF kind = "metrics-endpoint" THEN MetricsEvents ELSE DashboardEvents
Observed == IF kind = "metrics-endpoint" THEN AddressEvents ELSE DashboardEvents

TellUnits(units, events) ==
    due' = [u \in Units |-> IF u \in units THEN due[u] \union (events \intersect Observed)
                            ELSE due[u]]
TellServers(relations, event) ==
    notices' = [s \in Servers |-> IF RelationOf(s) \in relations THEN notices[s] \union {event}
                                  ELSE notices[s]]

Begin(u, event) ==
    /\ hook[u] = "idle" /\ event \in due[u]
    /\ event # "created" => "created" \notin due[u]
    /\ event = "changed" => "joined" \notin due[u]
    /\ hook' = [hook EXCEPT ![u] = event]
    /\ due' = [due EXCEPT ![u] = @ \ {event}]
    /\ pending' = [pending EXCEPT ![u] =
                     [event |-> event, relations |-> exists, option |-> option,
                      leads |-> u = leader]]
    /\ UNCHANGED <<kind, ourVars, relationVars, serverVars, notices, bounds>>

\* What the hook leaves in the relation r.
PublishedBy(u, r) ==
    LET p == pending[u] IN
        IF r \in p.relations \intersect exists /\ p.leads /\ p.event \in PublicationEvents
        THEN Publication(u, r, p.option, p.relations) ELSE published[r]
HostBy(u, r) ==
    LET p == pending[u] IN
        IF /\ kind = "metrics-endpoint"
           /\ r \in p.relations \intersect exists /\ p.event \in AddressEvents
        THEN [host[r] EXCEPT ![u] = address[u]] ELSE host[r]

End(u) ==
    /\ hook[u] # "idle"
    /\ published' = [r \in Relations |-> PublishedBy(u, r)]
    /\ host' = [r \in Relations |-> HostBy(u, r)]
    /\ TellServers({r \in Relations : PublishedBy(u, r) # published[r] \/ HostBy(u, r) # host[r]},
                   "changed")
    /\ hook' = [hook EXCEPT ![u] = "idle"]
    /\ pending' = [pending EXCEPT ![u] = Idle]
    /\ UNCHANGED <<kind, ourVars, exists, due, serverVars, bounds>>

Accident(fault) ==
    /\ fault \in Faults
    /\ accidents < MaxAccidents
    /\ accidents' = accidents + 1

Fail(u) ==
    /\ hook[u] # "idle"
    /\ Accident("hook-failure")
    /\ due' = [due EXCEPT ![u] = @ \union {hook[u]}]
    /\ hook' = [hook EXCEPT ![u] = "idle"]
    /\ pending' = [pending EXCEPT ![u] = Idle]
    /\ UNCHANGED <<kind, ourVars, relationVars, serverVars, notices, changes>>

----------------------------------------------------------------------------
(* The other end.                                                          *)

\* The targets of a job, one for each unit whose address is known; how often each is listed.
Expanded(r) ==
    LET jobs == published[r].jobs
        hosts == {u \in present : host[r][u] # 0}
        targets == {<<jobs[k], u, host[r][u]>> : k \in DOMAIN jobs, u \in hosts}
    IN [t \in targets |-> Cardinality({k \in DOMAIN jobs : jobs[k] = t[1]})]

\* Mutant: jobs of one name are all kept.
AsListed(targets) == targets

\* _dedupe_job_names: equal jobs are kept once.
Deduplicated(targets) == [t \in DOMAIN targets |-> 1]

Scrape(s, event) ==
    /\ kind = "metrics-endpoint"
    /\ shown' = [shown EXCEPT ![s] = IF event = "broken" THEN NoTargets
                                     ELSE Deduplicated(Expanded(RelationOf(s)))]
    /\ UNCHANGED <<head, stored, report>>
    /\ notices' = [notices EXCEPT ![s] = @ \ {event}]

\* Units of Grafana that do not lead are told of the change in their peer databag.
TellPeers(s, event, changed) ==
    notices' = [q \in Servers |->
                  IF q = s THEN notices[s] \ {event}
                  ELSE IF RelationOf(q) = RelationOf(s) /\ changed THEN notices[q] \union {"peer"}
                  ELSE notices[q]]

Store(s, event, dashboards) ==
    LET r == RelationOf(s) IN
        /\ stored' = [stored EXCEPT ![r] = dashboards]
        /\ shown' = [shown EXCEPT ![s] = IF stored[r] # dashboards THEN dashboards ELSE @]
        /\ TellPeers(s, event, stored[r] # dashboards)

\* Mutant: errors of an earlier publication are never cleared.
RenderKeepingErrors(s) ==
    LET r == RelationOf(s) IN
        /\ IF published[r].revision \in InvalidRevisions
           THEN /\ report' = [report EXCEPT ![r] = TRUE]
                /\ Store(s, "changed", NONE)
           ELSE /\ UNCHANGED report
                /\ Store(s, "changed", published[r])
        /\ UNCHANGED head

\* _render_dashboards_and_signal_changed.
Render(s) ==
    LET r == RelationOf(s) invalid == published[r].revision \in InvalidRevisions IN
        /\ report' = [report EXCEPT ![r] = invalid]
        /\ Store(s, "changed", IF invalid THEN NONE ELSE published[r])
        /\ UNCHANGED head

Show(s, event) ==
    LET r == RelationOf(s) IN
        /\ kind = "grafana-dashboard"
        /\ \/ event = "changed" /\ s = head[r] /\ published[r] # Nothing /\ Render(s)
           \/ event = "broken" /\ s = head[r] /\ Store(s, event, NONE) /\ UNCHANGED <<head, report>>
           \/ /\ event = "peer" /\ s # head[r]
              /\ shown' = [shown EXCEPT ![s] = stored[r]]
              /\ TellPeers(s, event, FALSE)
              /\ UNCHANGED <<head, stored, report>>
           \/ /\ \/ event = "changed" /\ (s # head[r] \/ published[r] = Nothing)
                 \/ event = "departed"
                 \/ event = "broken" /\ s # head[r]
                 \/ event = "peer" /\ s = head[r]
              /\ TellPeers(s, event, FALSE)
              /\ UNCHANGED serverVars

Serve(s, event) ==
    /\ event \in notices[s]
    /\ event = "broken" => notices[s] \intersect {"changed", "departed"} = {}
    /\ event # "peer" => RelationOf(s) \in exists \/ event = "broken"
    /\ Scrape(s, event) \/ Show(s, event)
    /\ UNCHANGED <<kind, ourVars, relationVars, hookVars, bounds>>

----------------------------------------------------------------------------
(* What Juju, Kubernetes and the operators do.                             *)

Changes == changes < MaxChanges /\ changes' = changes + 1

Relate(r) ==
    /\ Changes /\ r \in Served \ exists
    /\ \A s \in Servers : RelationOf(s) = r => "broken" \notin notices[s]
    /\ exists' = exists \union {r}
    /\ TellUnits(present, {"created", "joined", "changed"})
    /\ UNCHANGED <<kind, ourVars, published, host, hook, pending, serverVars, notices, accidents>>

Break(r) ==
    /\ r \in exists
    /\ exists' = exists \ {r}
    /\ published' = [published EXCEPT ![r] = Nothing]
    /\ host' = [host EXCEPT ![r] = [u \in Units |-> 0]]
    /\ report' = [report EXCEPT ![r] = FALSE]
    /\ notices' = [s \in Servers |-> IF RelationOf(s) = r
                                     THEN (notices[s] \intersect {"peer"}) \union {"broken"}
                                     ELSE notices[s]]
    /\ UNCHANGED <<kind, ourVars, hookVars, head, stored, shown, bounds>>

Configure(opt) ==
    /\ Changes /\ kind = "metrics-endpoint"
    /\ opt # option
    /\ option' = opt
    /\ TellUnits(present, {"config"})
    /\ UNCHANGED <<kind, leader, present, released, revision, address, relationVars, hook,
                   pending, serverVars, notices, accidents>>

Release ==
    /\ Changes
    /\ released' = released + 1
    /\ UNCHANGED <<kind, leader, present, option, revision, address, relationVars, hookVars,
                   serverVars, notices, accidents>>

\* A pod of the new revision.
Upgrade(u) ==
    /\ u \in present /\ hook[u] = "idle" /\ revision[u] # released
    /\ revision' = [revision EXCEPT ![u] = released]
    /\ address' = [address EXCEPT ![u] = @ + 1]
    /\ TellUnits({u}, {"upgrade", "config", "ready"})
    /\ UNCHANGED <<kind, leader, present, option, released, relationVars, hook, pending,
                   serverVars, notices, bounds>>

\* A pod is scheduled again, and the unit may be told nothing but that time passes.
Reschedule(u) ==
    /\ u \in present /\ hook[u] = "idle"
    /\ Accident("replacement")
    /\ address' = [address EXCEPT ![u] = @ + 1]
    /\ TellUnits({u}, {"status"})
    /\ UNCHANGED <<kind, leader, present, option, released, revision, relationVars, hook,
                   pending, serverVars, notices, changes>>

Elect(u) ==
    /\ u \in present \ {leader} /\ hook[leader] = "idle"
    /\ Accident("election")
    /\ leader' = u
    /\ TellUnits({u}, {"elected"})
    /\ UNCHANGED <<kind, present, option, released, revision, address, relationVars, hook,
                   pending, serverVars, notices, changes>>

Leave(u) ==
    /\ Changes /\ u \in present \ {leader} /\ hook[u] = "idle"
    /\ present' = present \ {u}
    /\ host' = [r \in Relations |-> [host[r] EXCEPT ![u] = 0]]
    /\ due' = [due EXCEPT ![u] = {}]
    /\ TellServers(exists, "departed")
    /\ UNCHANGED <<kind, leader, option, released, revision, address, exists, published, hook,
                   pending, serverVars, accidents>>

Join(u) ==
    /\ u \notin present
    /\ present' = present \union {u}
    /\ revision' = [revision EXCEPT ![u] = released]
    /\ TellUnits({u}, {"config", "ready"} \union
                      IF exists # {} THEN {"created", "joined", "changed"} ELSE {})
    /\ UNCHANGED <<kind, leader, option, released, address, relationVars, hook, pending,
                   serverVars, notices, bounds>>

Next ==
    \/ \E u \in Units :
          \/ \E event \in due[u] : Begin(u, event)
          \/ End(u) \/ Fail(u)
          \/ Upgrade(u) \/ Reschedule(u) \/ Elect(u) \/ Leave(u) \/ Join(u)
    \/ \E s \in Servers : \E event \in notices[s] : Serve(s, event)
    \/ \E r \in Relations : Relate(r) \/ Break(r)
    \/ \E opt \in {"unset", "set", "invalid"} : Configure(opt)
    \/ Release

Spec == Init /\ [][Next]_vars

----------------------------------------------------------------------------
(* Properties.                                                             *)

Calm ==
    /\ \A u \in Units : due[u] = {} /\ hook[u] = "idle"
    /\ \A s \in Servers : notices[s] = {}

\* What the leader's revision of the charm and the options ask for.
Current(r) ==
    IF kind = "metrics-endpoint"
    THEN [t \in {<<j, u, address[u]>> : j \in {"units"} \union
                     (IF option = "unset" THEN {} ELSE {"git_sync"}), u \in present} |-> 1]
    ELSE IF revision[leader] \in InvalidRevisions THEN NONE
    ELSE [jobs |-> << >>, revision |-> revision[leader], unit |-> leader]

\* Prometheus scrapes every unit at the address of its pod, once for each job, and every unit of
\* Grafana shows the dashboards of the leader's charm, as soon as no event is left to handle;
\* of a relation that was removed nothing is left.
MonitoringIsCurrent ==
    Calm => \A s \in Servers :
        shown[s] = IF RelationOf(s) \in exists THEN Current(RelationOf(s))
                   ELSE IF kind = "metrics-endpoint" THEN NoTargets ELSE NONE

\* Grafana reports errors exactly as long as the dashboards that are published have some.
ReportsAreCurrent ==
    Calm /\ kind = "grafana-dashboard" =>
        \A r \in exists : report[r] <=> revision[leader] \in InvalidRevisions

=============================================================================
