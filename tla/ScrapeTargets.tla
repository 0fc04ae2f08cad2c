---------------------------- MODULE ScrapeTargets ----------------------------
(***************************************************************************)
(* The scrape configuration that prometheus_scrape.py makes in Prometheus  *)
(* of the jobs that applications publish: one job for each unit where a    *)
(* target stands for all units or is the address of one, and a name of its *)
(* own for every job.                                                      *)
(*                                                                         *)
(* A published job is [name, path, statics, valid] with static             *)
(* configurations that are sequences of targets <<host, port>>; the host   *)
(* "*" stands for every unit.  A relation is [id, app, units, hosts, jobs, *)
(* known]: what the units' databags say, and whether there is metadata.    *)
(***************************************************************************)
EXTENDS GrafanaDashboards

DefaultJob == [name |-> "", path |-> "/metrics", statics |-> <<<< <<"*", 80>> >>>>, valid |-> TRUE]

\* sanitize_scrape_config: what a job leaves out is the default job's.
Sanitized(job) ==
    [job EXCEPT !.path = IF @ = NONE THEN DefaultJob.path ELSE @,
                !.statics = IF @ = NONE THEN DefaultJob.statics ELSE @]

\* prefix_job_names: names are the application's, the job's, the unit's, and a hash.
Prefixed(job, app) ==
    [name |-> [app |-> app, job |-> job.name, unit |-> NONE, hash |-> << >>],
     path |-> job.path, statics |-> job.statics, unit |-> NONE, valid |-> job.valid]

\* _relation_hosts: units that published no address, or none yet, are left out.
Hosts(relation) ==
    [u \in {v \in relation.units : relation.hosts[v].address # NONE} |-> relation.hosts[u]]

\* _build_host_to_unit, _match_non_wildcard_targets: the unit that a host is an address of.
UnitAt(hosts, host) ==
    LET at == {u \in DOMAIN hosts : host \in {hosts[u].address, hosts[u].fqdn}} IN
        IF at = {} THEN NONE ELSE CHOOSE u \in at : TRUE

IsWildcard(target) == target[1] = "*"

\* _classify_targets, _match_non_wildcard_targets: the targets that stand for all units, and those
\* at the address of a unit, or of none.
Those(targets, wanted) ==
    FlattenSeq([k \in DOMAIN targets |->
                    IF targets[k] \in wanted THEN <<targets[k]>> ELSE << >>])
Wildcards(targets) == Those(targets, {t \in Range(targets) : IsWildcard(t)})
ListedAt(targets, u, hosts) ==
    Those(targets, {t \in Range(targets) : ~IsWildcard(t) /\ UnitAt(hosts, t[1]) = u})

\* _build_per_unit_job.
PerUnit(job, targets, u, hosts) ==
    [job EXCEPT !.name.unit = u, !.path = hosts[u].path \o @, !.statics = <<targets>>, !.unit = u]

\* A job for each unit that targets are given for.
ForUnits(job, hosts, targets) ==
    LET units == SetToSeq(DOMAIN targets)
    IN [k \in DOMAIN units |-> PerUnit(job, targets[units[k]], units[k], hosts)]

\* The jobs for one static configuration: those of the units whose addresses are listed, then
\* those of all units.
ExpandedStatic(job, targets, hosts) ==
    LET all == Wildcards(targets)
        resolved(u) == [k \in DOMAIN all |-> <<hosts[u].address, all[k][2]>>]
        matched == {u \in DOMAIN hosts : ListedAt(targets, u, hosts) # << >>}
    IN ForUnits(job, hosts, [u \in matched |-> ListedAt(targets, u, hosts)])
       \o (IF all = << >> THEN << >>
           ELSE ForUnits(job, hosts, [u \in DOMAIN hosts |-> resolved(u)]))

\* What is left of a job: the targets that are nobody's address.
Unmatched(job, hosts) ==
    LET others(k) == ListedAt(job.statics[k], NONE, hosts)
        statics == FlattenSeq([k \in DOMAIN job.statics |->
                        IF others(k) = << >> THEN << >> ELSE <<others(k)>>])
    IN IF statics = << >> THEN << >> ELSE <<[job EXCEPT !.statics = statics]>>

\* expand_wildcard_targets_into_individual_jobs.
Expanded(jobs, hosts) ==
    FlattenSeq([k \in DOMAIN jobs |->
        FlattenSeq([i \in DOMAIN jobs[k].statics |->
                        ExpandedStatic(jobs[k], jobs[k].statics[i], hosts)])
        \o Unmatched(jobs[k], hosts)])

\* _static_scrape_config: jobs without metadata are taken as they are.
StaticConfig(relation) ==
    LET jobs == relation.jobs IN
        IF relation.units = {} THEN << >>
        ELSE IF ~relation.known THEN [k \in DOMAIN jobs |-> Prefixed(jobs[k], NONE)]
        ELSE Expanded([k \in DOMAIN jobs |-> Prefixed(Sanitized(jobs[k]), relation.app)],
                      Hosts(relation))

\* The first of each of the elements.
FirstOf(seq) == FoldLeft(LAMBDA s, x : IF x \in Range(s) THEN s ELSE Append(s, x), << >>, seq)

\* Mutant: jobs of one name are taken for one job.
KeepingFirstOfName(jobs) ==
    FoldLeft(LAMBDA s, j : IF \E i \in DOMAIN s : s[i].name = j.name THEN s ELSE Append(s, j),
             << >>, jobs)

\* _dedupe_job_names: a name that several jobs have gets a hash of the job; equal jobs are kept once.
Deduped(jobs) ==
    LET several(j) ==
            \E k, l \in DOMAIN jobs :
                k # l /\ jobs[k].name = j.name /\ jobs[l].name = j.name
        named(j) == IF several(j) THEN [j EXCEPT !.name.hash = <<j.name.hash, j.path, j.statics>>]
                    ELSE j
    IN FirstOf([k \in DOMAIN jobs |-> named(jobs[k])])

\* _validate_scrape_jobs: cos-tool takes no two jobs of one name.
IsValid(jobs) ==
    /\ \A k \in DOMAIN jobs : jobs[k].valid
    /\ \A i, j \in DOMAIN jobs : i # j => jobs[i].name # jobs[j].name

\* jobs: the relations whose jobs are refused are told so.
Jobs(relations) ==
    LET configs == [k \in DOMAIN relations |-> Deduped(StaticConfig(relations[k]))]
        taken == [k \in DOMAIN configs |-> IF IsValid(configs[k]) THEN configs[k] ELSE << >>] IN
        [jobs |-> Deduped(FlattenSeq(taken)),
         refused |-> {relations[k].id : k \in {i \in DOMAIN relations : ~IsValid(configs[i])}}]

=============================================================================
