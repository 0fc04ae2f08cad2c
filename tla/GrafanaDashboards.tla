-------------------------- MODULE GrafanaDashboards --------------------------
(***************************************************************************)
(* What grafana_dashboard.py makes of a dashboard: the uid it gets where   *)
(* it is loaded, the variables and data sources that Grafana's charm puts  *)
(* into it, the labels in its expressions, and which of the dashboards of  *)
(* all relations are shown.                                                *)
(*                                                                         *)
(* A dashboard has a list of variables ([name, type, of, ours]: of is the  *)
(* type of a data source variable), inputs ([name, of]), panels, panels    *)
(* nested in rows, and a place in the order of all texts.  A panel has a   *)
(* data source ([form, type, name, written]: a string, an object or some   *)
(* other value, the name or uid in it, and whether it is written plain, as *)
(* "variable" with $ and braces, or "bare" with only one of them) and an   *)
(* expression ([parses, ranges, offsets, labelled]), NONE without.  Data   *)
(* sources elsewhere are left as they are: those of a panel's queries, of  *)
(* variables that are queries, and of panels within panels.                *)
(***************************************************************************)
EXTENDS Integers, FiniteSets, SequencesExt

CONSTANTS
    NONE,
    LokiNames, GrafanaNames     \* names of data sources with "loki" or "grafana" in them

----------------------------------------------------------------------------
(* Variables and data sources.                                             *)

Dropdown(name, type, of) == [name |-> name, type |-> type, of |-> of, ours |-> TRUE]

TopologyDropdowns ==
    <<Dropdown("juju_model", "query", "prometheusds"),
      Dropdown("juju_model_uuid", "query", "prometheusds"),
      Dropdown("juju_application", "query", "prometheusds"),
      Dropdown("juju_unit", "query", "prometheusds")>>

DatasourceDropdowns ==
    <<Dropdown("prometheusds", "datasource", "prometheus"),
      Dropdown("lokids", "datasource", "loki")>>

Replacements == [prometheus |-> "prometheusds", loki |-> "lokids"]

\* Types of the data sources that inputs and variables name; a variable comes before an input.
Variables(d) == {v \in Range(d.list) : v.type = "datasource"}
Datasources(d) ==
    LET inputs == {i \in Range(d.inputs) : \A v \in Variables(d) : v.name # i.name}
        named == Variables(d) \union inputs
    IN [name \in {x.name : x \in named} |-> (CHOOSE x \in named : x.name = name).of]

Replaced(ds, type) == [ds EXCEPT !.name = Replacements[type], !.written = "variable"]
IsOurs(ds) == ds.name \in Range(Replacements) /\ ds.written = "variable"

\* _template_panels without variables in the dashboard: the name or the type tells.
Guessed(ds) ==
    IF ds.form = "string"
    THEN IF ds.name \in LokiNames THEN Replaced(ds, "loki")
         ELSE IF ds.name \in GrafanaNames THEN ds ELSE Replaced(ds, "prometheus")
    ELSE IF ds.form = "object" /\ ds.type \in DOMAIN Replacements THEN Replaced(ds, ds.type)
    ELSE ds

\* Mutant: an unknown name is taken for Prometheus.
LookedUpOrPrometheus(ds, sources) ==
    IF ds.form = "other" \/ IsOurs(ds) THEN ds
    ELSE IF ds.name \in DOMAIN sources /\ sources[ds.name] \in DOMAIN Replacements
    THEN Replaced(ds, sources[ds.name]) ELSE Replaced(ds, "prometheus")

\* _template_panels with variables: the variable or input of that name tells.
LookedUp(ds, sources) ==
    IF /\ ds.form # "other" /\ ~IsOurs(ds)
       /\ ds.name \in DOMAIN sources /\ sources[ds.name] \in DOMAIN Replacements
    THEN Replaced(ds, sources[ds.name]) ELSE ds

Templated(d, panel) ==
    IF panel.ds = NONE THEN panel
    ELSE [panel EXCEPT !.ds = IF d.templated THEN LookedUp(@, Datasources(d)) ELSE Guessed(@)]

\* _convert_dashboard_fields: ours are put before those that there are, the last one first.
WithDropdowns(d, injects) ==
    LET ours == IF injects THEN TopologyDropdowns \o DatasourceDropdowns ELSE DatasourceDropdowns
        names == {v.name : v \in Range(d.list)}
    IN IF d.templated THEN Reverse(SelectSeq(ours, LAMBDA v : v.name \notin names)) \o d.list
       ELSE ours

PanelsOf(d) == Range(d.panels) \union Range(d.nested)

\* _replace_template_fields: variables that no panel needs any more are dropped.
Converted(d, injects) ==
    LET dropped == {p.ds.name : p \in {q \in PanelsOf(d) : d.templated /\ Templated(d, q) # q}}
        kept(v) == v.name \notin dropped \/ v \in Range(DatasourceDropdowns)
        convert(panels) == [i \in DOMAIN panels |-> Templated(d, panels[i])]
    IN [d EXCEPT !.inputs = << >>, !.templated = TRUE,
                 !.list = SelectSeq(WithDropdowns(d, injects), kept),
                 !.panels = convert(@), !.nested = convert(@)]

----------------------------------------------------------------------------
(* Labels.                                                                 *)

Placeholder == "5y"

\* The values that placeholders stand for, put back one by one from the left.
Restored(places, values) ==
    FoldLeft(LAMBDA seq, v :
                 LET free == {i \in DOMAIN seq : seq[i] = Placeholder} IN
                     [seq EXCEPT ![CHOOSE i \in free : \A j \in free : i <= j] = v],
             places, values)

\* _modify_panel: cos-tool adds labels to an expression that it can parse.
Labelled(panel) ==
    IF NONE \in {panel.ds, panel.expr} \/ ~IsOurs(panel.ds) THEN panel
    ELSE LET expr == panel.expr
             places(values) == [i \in DOMAIN values |-> Placeholder]
         IN [panel EXCEPT !.expr =
               [expr EXCEPT !.labelled = @ \/ expr.parses,
                            !.ranges = Restored(places(@), @),
                            !.offsets = Restored(places(@), @)]]

\* _inject_labels: not in the panels of rows.
Injected(d) == [d EXCEPT !.panels = [i \in DOMAIN @ |-> Labelled(@[i])]]

----------------------------------------------------------------------------
(* From the files of a charm to the dashboards that Grafana shows.         *)

\* Uids: none, one that an author wrote, one made from the path, or from the charm's and file's name.
NoUid == [made |-> "no", charm |-> NONE, file |-> NONE]
AuthorsUid(name) == [made |-> "author", charm |-> NONE, file |-> name]
PathUid(charm, file) == [made |-> "path", charm |-> charm, file |-> file]
AltUid(charm, file) == [made |-> "alt", charm |-> charm, file |-> file]

\* _replace_uid: only a uid made from a path stays.
WithPathUid(charm, file, uid) == IF uid.made = "path" THEN uid ELSE PathUid(charm, file)

\* load_dashboards_from_dir, _content_to_dashboard_object: files that hold no dashboard are skipped.
Templates(charm, files, injects) ==
    {[original_id |-> f.name, charm |-> charm, alt |-> AltUid(charm, f.name),
      dropdowns |-> injects, topology |-> injects, version |-> f.version,
      uid |-> WithPathUid(charm, f.name, f.uid), board |-> f.board] :
        f \in {g \in files : g.board # NONE}}

\* _manage_dashboard_uid.
ManagedUid(template) ==
    IF template.uid = NoUid /\ template.alt # NONE THEN template.alt ELSE template.uid

\* One template as _render_dashboards_and_signal_changed makes a dashboard of it.
Rendered(template) ==
    LET converted == Converted(template.board, template.dropdowns) IN
        [template EXCEPT !.uid = ManagedUid(template),
                         !.board = IF template.topology THEN Injected(converted) ELSE converted]

\* _to_external_object: a version that is no integer counts as 0.
External(relation, dashboard) ==
    [id |-> dashboard.original_id, relation_id |-> relation, charm |-> dashboard.charm,
     content |-> dashboard.board, dashboard_uid |-> dashboard.uid,
     dashboard_version |-> IF dashboard.version = NONE THEN 0 ELSE dashboard.version]

\* Ids of relations are keys of the peer databag, strings of digits: "10" comes before "9".
StringBefore(s, t) ==
    \E i \in 1 .. Len(t) :
        /\ \A j \in 1 .. i - 1 : j <= Len(s) /\ s[j] = t[j]
        /\ i <= Len(s) => s[i] < t[i]

\* The order of what the dashboards are compared by: version, relation id and content.
Before(o, p) ==
    \/ o.dashboard_version < p.dashboard_version
    \/ /\ o.dashboard_version = p.dashboard_version
       /\ \/ StringBefore(o.relation_id, p.relation_id)
          \/ o.relation_id = p.relation_id /\ o.content.text < p.content.text

\* Mutant: of dashboards with one uid the last one that is met stays.
LastMet(kept, o) == {p \in kept : p.dashboard_uid # o.dashboard_uid} \union {o}

\* Of dashboards with one uid the last one in this order stays.
Newest(kept, o) ==
    LET same == {p \in kept : p.dashboard_uid = o.dashboard_uid} IN
        IF o.dashboard_uid = NoUid \/ \E p \in same : ~Before(p, o) THEN kept
        ELSE (kept \ same) \union {o}

\* get_dashboards_from_relation and dashboards: stored says what is stored of each relation.
Dashboards(stored) ==
    LET found == FlattenSeq([k \in DOMAIN stored |->
                    [i \in DOMAIN stored[k].dashboards |->
                        External(stored[k].relation, stored[k].dashboards[i])]])
    IN FoldLeft(Newest, {}, found)

=============================================================================
