----------------------------- MODULE AlertRules -----------------------------
(***************************************************************************)
(* The alert rules that applications publish for Prometheus and Loki: how  *)
(* they are written into a relation, read from it, and put under the name  *)
(* of the file that they are loaded from (prometheus_scrape.py and         *)
(* loki_push_api.py).                                                      *)
(*                                                                         *)
(* Rules are a sequence of groups, each a name and rules [labels, valid,   *)
(* injected]: labels names the application of a complete topology, NONE    *)
(* without.  What is written is [format, rules].                           *)
(***************************************************************************)
EXTENDS ScrapeTargets

Languages == {"promql", "logql"}
Encodings == <<"lzma", "json">>     \* SUPPORTED_ALERT_RULES_ENCODINGS, the best one first

Empty == << >>
Nowhere == [format |-> "nothing", rules |-> Empty]

----------------------------------------------------------------------------
(* Writing.                                                                *)

\* _publish_alert_rules_encodings: only the leader tells what its Loki can read.
Advertised(advertised, leads) == IF leads THEN Range(Encodings) ELSE advertised

\* _best_alert_rules_encoding: advertised is NONE where there is nothing, or nothing readable.
BestEncoding(advertised) ==
    LET known == IF advertised = NONE THEN {}
                 ELSE {i \in DOMAIN Encodings : Encodings[i] \in advertised}
    IN IF known = {} THEN "json" ELSE Encodings[CHOOSE i \in known : \A j \in known : i <= j]

\* _encode_alert_rules and _handle_alert_rules; Prometheus knows no encodings.
Written(language, rules, advertised) ==
    [format |-> IF language = "promql" THEN "json" ELSE BestEncoding(advertised),
     rules |-> rules]

----------------------------------------------------------------------------
(* Reading.                                                                *)

\* _decode_alert_rules takes both formats, and a compressed text inside of JSON.
Readable(language, raw) ==
    raw.format \in {"nothing", "json"} \union
                   (IF language = "logql" THEN {"lzma", "wrapped"} ELSE {})

\* _inject_alert_expr_labels.
WithMatchers(rule) == [rule EXCEPT !.injected = rule.injected \/ rule.labels # NONE]
WithLabels(rules) ==
    [g \in DOMAIN rules |->
        [rules[g] EXCEPT !.rules = [i \in DOMAIN @ |-> WithMatchers(@[i])]]]

\* _get_identifier_by_alert_rules: the first group whose first rule has a topology, or the name of
\* the first group.
Topology(group) == group.rules[1].labels

Identifier(rules, metadata) ==
    LET found == {g \in DOMAIN rules : Topology(rules[g]) # NONE} IN
        CASE found # {} -> Topology(rules[CHOOSE g \in found : \A h \in found : g <= h])
          [] found = {} /\ metadata # NONE -> metadata
          [] found = {} /\ metadata = NONE /\ rules # Empty -> rules[1].name
          [] OTHER -> NONE

IsValidFile(rules) ==
    \A g \in DOMAIN rules : \A i \in DOMAIN rules[g].rules : rules[g].rules[i].valid

\* Mutant: rules of two relations may get one name.
FileByIdentifier(language, relation, identifier) == [identifier |-> identifier, relation |-> NONE]

\* Prometheus names a file after the relation too.
File(language, relation, identifier) ==
    [identifier |-> identifier,
     relation |-> IF language = "promql" THEN relation ELSE NONE]

WithoutFile(alerts, file) == [f \in DOMAIN alerts \ {file} |-> alerts[f]]
WithFile(alerts, file, rules) ==
    [f \in DOMAIN alerts \union {file} |-> IF f = file THEN rules ELSE alerts[f]]

\* One relation's turn in alerts; invalid rules are reported in the relation, and take away what
\* another relation had put under the same name.
Load(language, loaded, relation) ==
    LET raw == relation.raw rules == WithLabels(raw.rules)
        identifier == Identifier(rules, relation.metadata)
        file == File(language, relation.id, identifier)
    IN IF ~relation.inhabited \/ ~Readable(language, raw) \/ rules = Empty THEN loaded
       ELSE IF IsValidFile(rules)
       THEN [alerts |-> WithFile(loaded.alerts, file, rules), errors |-> loaded.errors \ {relation.id}]
       ELSE [alerts |-> WithoutFile(loaded.alerts, file), errors |-> loaded.errors \union {relation.id}]

\* alerts, by the leader; reported are the relations that errors were written to before.
Alerts(language, relations, reported) ==
    FoldLeft(LAMBDA loaded, relation : Load(language, loaded, relation),
             [alerts |-> << >>, errors |-> reported], relations)

\* has_invalid_alert_rules.
HasInvalidAlertRules(leads, errors) == leads /\ errors # {}

=============================================================================
