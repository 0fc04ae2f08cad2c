-------------------------- MODULE MonitoringProofs --------------------------
(***************************************************************************)
(* Theorems about Monitoring for any units, servers and relations, and any *)
(* bounds.                                                                 *)
(***************************************************************************)
EXTENDS Monitoring, FiniteSetTheorems, TLAPS

Events == AddressEvents \union DashboardEvents
Notices == {"changed", "departed", "broken", "peer"}

TypeOK ==
    /\ kind \in Kinds
    /\ present \subseteq Units /\ leader \in present
    /\ exists \subseteq Served
    /\ released \in Nat /\ revision \in [Units -> Nat] /\ address \in [Units -> Nat \ {0}]
    /\ DOMAIN published = Relations
    /\ host \in [Relations -> [Units -> Nat]]
    /\ due \in [Units -> SUBSET Events]
    /\ hook \in [Units -> Events \union {"idle"}]
    /\ DOMAIN pending = Units
    /\ head \in [Served -> Servers] /\ \A r \in Served : RelationOf(head[r]) = r
    /\ DOMAIN stored = Relations /\ report \in [Relations -> BOOLEAN]
    /\ notices \in [Servers -> SUBSET Notices]
    /\ DOMAIN shown = Servers

\* What a hook has read when it began; no unit that is gone is in one or awaits one.
HookInv ==
    \A u \in Units :
        /\ hook[u] = "idle" => pending[u] = Idle
        /\ hook[u] # "idle" => pending[u].event = hook[u]
        /\ pending[u].leads => u = leader
        /\ pending[u].relations \subseteq Relations
        /\ u \notin present => due[u] = {} /\ hook[u] = "idle"

\* An option that changes during a hook is read by a later one.
OptionInv ==
    kind = "metrics-endpoint" =>
        \A u \in Units : hook[u] # "idle" => pending[u].option = option \/ "config" \in due[u]

\* Nothing is left in a relation that was removed, nor of a unit that is gone.
GoneInv ==
    /\ \A r \in Relations : r \notin exists => published[r] = Nothing
    /\ \A r \in Relations, u \in Units : r \notin exists \/ u \notin present => host[r][u] = 0
    /\ \A s \in Servers : RelationOf(s) \in exists => "broken" \notin notices[s]

JobNames(opt) == {"units"} \union IF opt = "unset" THEN {} ELSE {"git_sync"}

\* What is published is what the leader would publish, apart from jobs that are listed again.
IsPublished(r) ==
    IF kind = "metrics-endpoint"
    THEN {published[r].jobs[k] : k \in DOMAIN published[r].jobs} = JobNames(option)
    ELSE published[r] = [jobs |-> << >>, revision |-> revision[leader], unit |-> leader]

\* The leader's hook is about to publish it.
Publishing(r) ==
    /\ hook[leader] \in PublicationEvents
    /\ pending[leader].leads /\ r \in pending[leader].relations

WillBePublished(r) ==
    IsPublished(r) \/ Publishing(r) \/ due[leader] \intersect PublicationEvents # {}

PublishedInv == \A r \in exists : WillBePublished(r)

AddressInv ==
    kind = "metrics-endpoint" =>
        \A r \in exists, u \in present :
            \/ host[r][u] = address[u]
            \/ hook[u] \in AddressEvents /\ r \in pending[u].relations
            \/ due[u] \intersect AddressEvents # {}

ScrapedInv ==
    kind = "metrics-endpoint" =>
        \A s \in Servers :
            IF RelationOf(s) \in exists
            THEN \/ shown[s] = Deduplicated(Expanded(RelationOf(s)))
                 \/ notices[s] \intersect {"changed", "departed"} # {}
            ELSE shown[s] = NoTargets \/ "broken" \in notices[s]

IsRendered(r) ==
    IF published[r].revision \in InvalidRevisions THEN report[r] /\ stored[r] = NONE
    ELSE ~report[r] /\ stored[r] = published[r]

RenderedInv ==
    kind = "grafana-dashboard" =>
        \A r \in Served :
            IF r \in exists
            THEN published[r] = Nothing \/ IsRendered(r) \/ "changed" \in notices[head[r]]
            ELSE stored[r] = NONE \/ "broken" \in notices[head[r]]

ShownInv ==
    kind = "grafana-dashboard" =>
        \A s \in Servers :
            \/ shown[s] = stored[RelationOf(s)]
            \/ s # head[RelationOf(s)] /\ "peer" \in notices[s]

IInv ==
    /\ TypeOK /\ HookInv /\ OptionInv /\ GoneInv /\ PublishedInv
    /\ AddressInv /\ ScrapedInv /\ RenderedInv /\ ShownInv

----------------------------------------------------------------------------
(* What the actions have in common.                                        *)

LEMMA ServedFacts ==
    ASSUME TypeOK
    PROVE  /\ kind \in AllKinds
           /\ Served \subseteq Relations /\ Relations \subseteq Nat
           /\ \A s \in Servers : RelationOf(s) \in Served
           /\ Observed \subseteq Events /\ PublicationEvents \subseteq Observed
           /\ "idle" \notin Events
BY KindsAssumption, RelationsAssumption
   DEF TypeOK, Served, RelationOf, Observed, PublicationEvents, Events, AddressEvents,
       MetricsEvents, DashboardEvents, AllKinds

\* The kind of relation does not change, nor what depends on it only.
LEMMA KindKept ==
    ASSUME [Next]_vars
    PROVE  /\ kind' = kind /\ Served' = Served /\ Observed' = Observed
           /\ PublicationEvents' = PublicationEvents
           /\ \A s : RelationOf(s)' = RelationOf(s)
<1>1. kind' = kind
  BY DEF Next, vars, Begin, End, Fail, Upgrade, Reschedule, Elect, Leave, Join, Serve, Relate,
         Break, Configure, Release
<1>2. QED
  BY <1>1 DEF Served, Observed, PublicationEvents, RelationOf

LEMMA TellUnitsFacts ==
    ASSUME TypeOK, NEW units, NEW events, TellUnits(units, events)
    PROVE  /\ due' \in [Units -> SUBSET Events]
           /\ \A u \in Units :
                /\ due[u] \subseteq due'[u]
                /\ u \in units => events \intersect Observed \subseteq due'[u]
                /\ u \notin units => due'[u] = due[u]
<1>1. due' = [u \in Units |-> IF u \in units THEN due[u] \union (events \intersect Observed)
                              ELSE due[u]]
  BY DEF TellUnits
<1>2. events \intersect Observed \subseteq Events
  BY ServedFacts
<1>3. QED
  BY <1>1, <1>2 DEF TypeOK

LEMMA TellServersFacts ==
    ASSUME TypeOK, NEW relations, NEW event \in Notices, TellServers(relations, event)
    PROVE  /\ notices' \in [Servers -> SUBSET Notices]
           /\ \A s \in Servers :
                /\ notices[s] \subseteq notices'[s] /\ notices'[s] \subseteq notices[s] \union {event}
                /\ RelationOf(s) \in relations => event \in notices'[s]
BY DEF TellServers, TypeOK

LEMMA BeginFacts ==
    ASSUME TypeOK, NEW u \in Units, NEW event, Begin(u, event)
    PROVE  /\ UNCHANGED <<kind, ourVars, relationVars, serverVars, notices>>
           /\ u \in Units /\ event \in due[u] /\ event \in Events /\ hook[u] = "idle"
           /\ hook' \in [Units -> Events \union {"idle"}] /\ hook'[u] = event
           /\ due' \in [Units -> SUBSET Events] /\ due'[u] = due[u] \ {event}
           /\ DOMAIN pending' = Units
           /\ pending'[u] = [event |-> event, relations |-> exists, option |-> option,
                             leads |-> u = leader]
           /\ \A v \in Units \ {u} :
                hook'[v] = hook[v] /\ due'[v] = due[v] /\ pending'[v] = pending[v]
<1>1. UNCHANGED <<kind, ourVars, relationVars, serverVars, notices>>
  BY DEF Begin
<1>2. event \in due[u] /\ event \in Events /\ hook[u] = "idle"
  BY DEF Begin, TypeOK
<1>3. /\ hook' = [hook EXCEPT ![u] = event]
      /\ due' = [due EXCEPT ![u] = @ \ {event}]
  BY DEF Begin
<1>4. pending' = [pending EXCEPT ![u] =
                     [event |-> event, relations |-> exists, option |-> option,
                      leads |-> u = leader]]
  BY DEF Begin
<1>5. /\ hook' \in [Units -> Events \union {"idle"}] /\ hook'[u] = event
      /\ due' \in [Units -> SUBSET Events] /\ due'[u] = due[u] \ {event}
      /\ \A v \in Units \ {u} : hook'[v] = hook[v] /\ due'[v] = due[v]
  BY <1>2, <1>3 DEF TypeOK
<1>6. /\ DOMAIN pending' = Units
      /\ pending'[u] = [event |-> event, relations |-> exists, option |-> option,
                        leads |-> u = leader]
      /\ \A v \in Units \ {u} : pending'[v] = pending[v]
  BY <1>4 DEF TypeOK
<1>7. QED
  BY <1>1, <1>2, <1>5, <1>6

\* A hook that is over, whether it ended or failed.
LEMMA OverFacts ==
    ASSUME TypeOK, NEW u \in Units, End(u) \/ Fail(u)
    PROVE  /\ UNCHANGED <<kind, ourVars, exists, serverVars>>
           /\ hook[u] # "idle"
           /\ hook' \in [Units -> Events \union {"idle"}] /\ hook'[u] = "idle"
           /\ DOMAIN pending' = Units /\ pending'[u] = Idle
           /\ due' \in [Units -> SUBSET Events]
           /\ due[u] \subseteq due'[u] /\ due'[u] \subseteq due[u] \union {hook[u]}
           /\ \A v \in Units \ {u} :
                hook'[v] = hook[v] /\ due'[v] = due[v] /\ pending'[v] = pending[v]
<1>1. UNCHANGED <<kind, ourVars, exists, serverVars>> /\ hook[u] # "idle"
  BY DEF End, Fail, relationVars
<1>2. hook[u] \in Events
  BY <1>1 DEF TypeOK
<1>3. hook' = [hook EXCEPT ![u] = "idle"] /\ pending' = [pending EXCEPT ![u] = Idle]
  BY DEF End, Fail
<1>4. due' = due \/ due' = [due EXCEPT ![u] = @ \union {hook[u]}]
  BY DEF End, Fail
<1>5. /\ due' \in [Units -> SUBSET Events]
      /\ due[u] \subseteq due'[u] /\ due'[u] \subseteq due[u] \union {hook[u]}
      /\ \A v \in Units \ {u} : due'[v] = due[v]
  BY <1>2, <1>4 DEF TypeOK
<1>6. /\ hook' \in [Units -> Events \union {"idle"}] /\ hook'[u] = "idle"
      /\ DOMAIN pending' = Units /\ pending'[u] = Idle
      /\ \A v \in Units \ {u} : hook'[v] = hook[v] /\ pending'[v] = pending[v]
  BY <1>3 DEF TypeOK
<1>7. QED
  BY <1>1, <1>5, <1>6

\* What a server does changes nothing of ours.
LEMMA ServeFacts ==
    ASSUME TypeOK, NEW s \in Servers, NEW event, Serve(s, event)
    PROVE  /\ UNCHANGED <<kind, ourVars, relationVars, hookVars, head>>
           /\ event \in notices[s]
           /\ notices' \in [Servers -> SUBSET Notices]
           /\ notices'[s] = notices[s] \ {event}
           /\ \A q \in Servers \ {s} :
                notices[q] \subseteq notices'[q] /\ notices'[q] \subseteq notices[q] \union {"peer"}
<1>1. UNCHANGED <<kind, ourVars, relationVars, hookVars>> /\ event \in notices[s]
  BY DEF Serve
<1>2. ASSUME NEW changed, TellPeers(s, event, changed)
      PROVE  /\ notices' \in [Servers -> SUBSET Notices]
             /\ notices'[s] = notices[s] \ {event}
             /\ \A q \in Servers \ {s} :
                  notices[q] \subseteq notices'[q] /\ notices'[q] \subseteq notices[q] \union {"peer"}
  BY <1>2 DEF TellPeers, TypeOK, Notices
<1>3. CASE Scrape(s, event)
  BY <1>1, <1>3 DEF Scrape, TypeOK
<1>4. CASE Show(s, event)
  <2>1. head' = head
    BY <1>4 DEF Show, Render, serverVars
  <2>2. \E changed \in BOOLEAN : TellPeers(s, event, changed)
    BY <1>4 DEF Show, Render, Store
  <2>3. QED
    BY <1>1, <1>2, <2>1, <2>2
<1>5. QED
  BY <1>3, <1>4 DEF Serve

----------------------------------------------------------------------------
(* The invariant, part by part.                                            *)

LEMMA TypeStep == TypeOK /\ [Next]_vars => TypeOK'
<1> SUFFICES ASSUME TypeOK, [Next]_vars PROVE TypeOK'
  OBVIOUS
<1>1. /\ kind' = kind /\ Served' = Served /\ \A s : RelationOf(s)' = RelationOf(s)
      /\ kind \in Kinds /\ Served \subseteq Relations
  BY KindKept, ServedFacts DEF TypeOK
<1>2. CASE UNCHANGED vars
  BY <1>1, <1>2
     DEF vars, ourVars, relationVars, hookVars, serverVars, TypeOK
<1>3. ASSUME NEW u \in Units, NEW event \in due[u], Begin(u, event)
      PROVE  TypeOK'
  <2>1. /\ UNCHANGED <<leader, present, released, revision, address, exists, published, host,
                       head, stored, report, shown, notices>>
        /\ hook' \in [Units -> Events \union {"idle"}]
        /\ due' \in [Units -> SUBSET Events] /\ DOMAIN pending' = Units
    BY <1>3, BeginFacts DEF ourVars, relationVars, serverVars
  <2>2. QED
    BY <1>1, <2>1 DEF TypeOK
<1>4. ASSUME NEW u \in Units, End(u)
      PROVE  TypeOK'
  <2>1. DOMAIN published' = Relations
    BY <1>4 DEF End
  <2>2. host' \in [Relations -> [Units -> Nat]]
    <3>1. \A r \in Relations : HostBy(u, r) \in [Units -> Nat]
      BY DEF HostBy, TypeOK
    <3>2. QED
      BY <1>4, <3>1 DEF End
  <2>3. \E relations : TellServers(relations, "changed")
    BY <1>4 DEF End
  <2>4. notices' \in [Servers -> SUBSET Notices]
    BY <2>3, TellServersFacts DEF Notices
  <2>5. QED
    BY <1>1, <1>4, <2>1, <2>2, <2>4, OverFacts DEF TypeOK, ourVars, serverVars
<1>5. ASSUME NEW u \in Units, Fail(u)
      PROVE  TypeOK'
  <2>1. UNCHANGED <<published, host, notices>>
    BY <1>5 DEF Fail, relationVars
  <2>2. QED
    BY <1>1, <1>5, <2>1, OverFacts DEF TypeOK, ourVars, serverVars
<1>6. ASSUME NEW s \in Servers, NEW event \in notices[s], Serve(s, event)
      PROVE  TypeOK'
  <2>1. /\ UNCHANGED <<ourVars, relationVars, hookVars, head>>
        /\ notices' \in [Servers -> SUBSET Notices]
    BY <1>6, ServeFacts
  <2>2. /\ DOMAIN shown' = Servers /\ DOMAIN stored' = Relations
        /\ report' \in [Relations -> BOOLEAN]
    <3>1. CASE Scrape(s, event)
      BY <3>1 DEF Scrape, TypeOK
    <3>2. CASE Show(s, event)
      <4>1. /\ shown' = shown \/ \E value : shown' = [shown EXCEPT ![s] = value]
            /\ stored' = stored \/ \E value : stored' = [stored EXCEPT ![RelationOf(s)] = value]
        BY <3>2 DEF Show, Render, Store, serverVars
      <4>2. \/ report' = report
            \/ report' = [report EXCEPT ![RelationOf(s)] =
                            (published[RelationOf(s)].revision \in InvalidRevisions)]
        BY <3>2 DEF Show, Render, serverVars
      <4> DEFINE invalid == published[RelationOf(s)].revision \in InvalidRevisions
      <4>3. invalid \in BOOLEAN
        OBVIOUS
      <4> HIDE DEF invalid
      <4>4. report' \in [Relations -> BOOLEAN]
        <5>1. [report EXCEPT ![RelationOf(s)] = invalid] \in [Relations -> BOOLEAN]
          BY <4>3 DEF TypeOK
        <5>2. report' = report \/ report' = [report EXCEPT ![RelationOf(s)] = invalid]
          BY <4>2 DEF invalid
        <5>3. QED
          BY <5>1, <5>2 DEF TypeOK
      <4>5. QED
        BY <4>1, <4>4 DEF TypeOK
    <3>3. QED
      BY <1>6, <3>1, <3>2 DEF Serve
  <2>3. QED
    BY <1>1, <2>1, <2>2 DEF TypeOK, ourVars, relationVars, hookVars
<1>7. ASSUME NEW r \in Relations, Relate(r)
      PROVE  TypeOK'
  <2>1. /\ UNCHANGED <<ourVars, published, host, hook, pending, serverVars, notices>>
        /\ exists' = exists \union {r} /\ r \in Served
        /\ TellUnits(present, {"created", "joined", "changed"})
    BY <1>7 DEF Relate
  <2>2. QED
    BY <1>1, <2>1, TellUnitsFacts DEF TypeOK, ourVars, serverVars
<1>8. ASSUME NEW r \in Relations, Break(r)
      PROVE  TypeOK'
  <2>1. /\ UNCHANGED <<ourVars, hookVars, head, stored, shown>>
        /\ exists' = exists \ {r} /\ published' = [published EXCEPT ![r] = Nothing]
    BY <1>8 DEF Break
  <2>2. host' \in [Relations -> [Units -> Nat]] /\ report' \in [Relations -> BOOLEAN]
    BY <1>8 DEF Break, TypeOK
  <2>3. notices' \in [Servers -> SUBSET Notices]
    BY <1>8 DEF Break, TypeOK, Notices
  <2>4. QED
    BY <1>1, <2>1, <2>2, <2>3 DEF TypeOK, ourVars, hookVars
<1>9. ASSUME NEW opt, Configure(opt)
      PROVE  TypeOK'
  BY <1>1, <1>9, TellUnitsFacts DEF Configure, TypeOK, relationVars, serverVars
<1>10. CASE Release
  BY <1>1, <1>10 DEF Release, TypeOK, relationVars, hookVars, serverVars
<1>11. ASSUME NEW u \in Units, Upgrade(u)
       PROVE  TypeOK'
  <2>1. /\ UNCHANGED <<leader, present, released, relationVars, hook, pending, serverVars, notices>>
        /\ TellUnits({u}, {"upgrade", "config", "ready"})
        /\ revision' \in [Units -> Nat] /\ address' \in [Units -> Nat \ {0}]
    BY <1>11 DEF Upgrade, TypeOK
  <2>2. QED
    BY <1>1, <2>1, TellUnitsFacts DEF TypeOK, relationVars, serverVars
<1>12. ASSUME NEW u \in Units, Reschedule(u)
       PROVE  TypeOK'
  <2>1. /\ UNCHANGED <<leader, present, released, revision, relationVars, hook, pending,
                       serverVars, notices>>
        /\ TellUnits({u}, {"status"}) /\ address' \in [Units -> Nat \ {0}]
    BY <1>12 DEF Reschedule, TypeOK
  <2>2. QED
    BY <1>1, <2>1, TellUnitsFacts DEF TypeOK, relationVars, serverVars
<1>13. ASSUME NEW u \in Units, Elect(u)
       PROVE  TypeOK'
  <2>1. /\ UNCHANGED <<present, released, revision, address, relationVars, hook, pending,
                       serverVars, notices>>
        /\ TellUnits({u}, {"elected"}) /\ leader' = u /\ u \in present
    BY <1>13 DEF Elect
  <2>2. QED
    BY <1>1, <2>1, TellUnitsFacts DEF TypeOK, relationVars, serverVars
<1>14. ASSUME NEW u \in Units, Leave(u)
       PROVE  TypeOK'
  <2>1. /\ UNCHANGED <<leader, released, revision, address, exists, published, hook, pending,
                       serverVars>>
        /\ TellServers(exists, "departed") /\ leader # u /\ present' = present \ {u}
        /\ due' = [due EXCEPT ![u] = {}]
    BY <1>14 DEF Leave
  <2>2. host' \in [Relations -> [Units -> Nat]]
    <3>1. \A r \in Relations : [host[r] EXCEPT ![u] = 0] \in [Units -> Nat]
      BY DEF TypeOK
    <3>2. QED
      BY <1>14, <3>1 DEF Leave
  <2>3. due' \in [Units -> SUBSET Events] /\ notices' \in [Servers -> SUBSET Notices]
    BY <2>1, TellServersFacts DEF TypeOK, Notices
  <2>4. QED
    BY <1>1, <2>1, <2>2, <2>3 DEF TypeOK, serverVars
<1>15. ASSUME NEW u \in Units, Join(u)
       PROVE  TypeOK'
  <2>1. /\ UNCHANGED <<leader, released, address, relationVars, hook, pending, serverVars, notices>>
        /\ \E events : TellUnits({u}, events)
        /\ present' = present \union {u} /\ revision' \in [Units -> Nat]
    BY <1>15 DEF Join, TypeOK
  <2>2. QED
    BY <1>1, <2>1, TellUnitsFacts DEF TypeOK, relationVars, serverVars
<1>16. QED
  BY <1>2, <1>3, <1>4, <1>5, <1>6, <1>7, <1>8, <1>9, <1>10, <1>11, <1>12, <1>13, <1>14, <1>15
     DEF Next

LEMMA HookStep == TypeOK /\ HookInv /\ [Next]_vars => HookInv'
<1> SUFFICES ASSUME TypeOK, HookInv, [Next]_vars PROVE HookInv'
  OBVIOUS
<1>1. exists \subseteq Relations /\ leader \in Units
  BY ServedFacts DEF TypeOK
<1>2. Idle.leads = FALSE /\ Idle.relations = {}
  BY DEF Idle
<1>3. ASSUME hook' = hook, pending' = pending, present' = present, leader' = leader,
             \A u \in Units \ present : due'[u] = due[u]
      PROVE  HookInv'
  BY <1>3 DEF HookInv
<1>4. CASE UNCHANGED vars
  BY <1>3, <1>4 DEF vars, ourVars, hookVars
<1>5. ASSUME NEW u \in Units, NEW event \in due[u], Begin(u, event)
      PROVE  HookInv'
  <2>1. /\ present' = present /\ leader' = leader
        /\ event # "idle" /\ u \in present /\ hook'[u] = event
        /\ \A v \in Units \ {u} :
             hook'[v] = hook[v] /\ due'[v] = due[v] /\ pending'[v] = pending[v]
    <3>1. /\ UNCHANGED ourVars /\ event \in due[u] /\ event \in Events /\ hook'[u] = event
          /\ \A v \in Units \ {u} :
               hook'[v] = hook[v] /\ due'[v] = due[v] /\ pending'[v] = pending[v]
      BY <1>5, BeginFacts
    <3>2. event # "idle"
      BY <3>1, ServedFacts
    <3>3. u \in present
      BY <3>1 DEF HookInv
    <3>4. QED
      BY <3>1, <3>2, <3>3 DEF ourVars
  <2>2. pending'[u] = [event |-> event, relations |-> exists, option |-> option,
                       leads |-> u = leader]
    BY <1>5, BeginFacts
  <2>3. pending'[u].event = event /\ pending'[u].relations = exists
    BY <2>2
  <2>4. pending'[u].leads => u = leader
    <3>1. pending'[u].leads = (u = leader)
      BY <2>2
    <3>2. QED
      BY <3>1
  <2>5. QED
    BY <1>1, <2>1, <2>3, <2>4 DEF HookInv
<1>6. ASSUME NEW u \in Units, End(u) \/ Fail(u)
      PROVE  HookInv'
  <2>1. /\ present' = present /\ leader' = leader /\ u \in present
        /\ hook'[u] = "idle" /\ pending'[u] = Idle
        /\ \A v \in Units \ {u} :
             hook'[v] = hook[v] /\ due'[v] = due[v] /\ pending'[v] = pending[v]
    BY <1>6, OverFacts DEF ourVars, HookInv
  <2>2. QED
    BY <1>2, <2>1 DEF HookInv
<1>7. ASSUME NEW s \in Servers, NEW event \in notices[s], Serve(s, event)
      PROVE  HookInv'
  BY <1>3, <1>7, ServeFacts DEF ourVars, hookVars
<1>8. ASSUME NEW r \in Relations, Relate(r) \/ Break(r)
      PROVE  HookInv'
  BY <1>3, <1>8, TellUnitsFacts DEF Relate, Break, ourVars, hookVars
<1>9. ASSUME NEW opt, Configure(opt)
      PROVE  HookInv'
  BY <1>3, <1>9, TellUnitsFacts DEF Configure
<1>10. CASE Release
  BY <1>3, <1>10 DEF Release, hookVars
<1>11. ASSUME NEW u \in Units, Upgrade(u) \/ Reschedule(u)
       PROVE  HookInv'
  <2>1. /\ hook' = hook /\ pending' = pending /\ present' = present /\ leader' = leader
        /\ u \in present /\ \E events : TellUnits({u}, events)
    BY <1>11 DEF Upgrade, Reschedule
  <2>2. QED
    BY <1>3, <2>1, TellUnitsFacts
<1>12. ASSUME NEW u \in Units, Elect(u)
       PROVE  HookInv'
  <2>1. /\ hook' = hook /\ pending' = pending /\ present' = present
        /\ u \in present /\ TellUnits({u}, {"elected"})
        /\ hook[leader] = "idle"
    BY <1>12 DEF Elect
  <2>2. \A v \in Units : ~pending[v].leads
    BY <1>1, <1>2, <2>1 DEF HookInv
  <2>3. QED
    BY <2>1, <2>2, TellUnitsFacts DEF HookInv
<1>13. ASSUME NEW u \in Units, Leave(u)
       PROVE  HookInv'
  <2>1. /\ hook' = hook /\ pending' = pending /\ present' = present \ {u} /\ leader' = leader
        /\ hook[u] = "idle" /\ due' = [due EXCEPT ![u] = {}]
    BY <1>13 DEF Leave
  <2>2. due'[u] = {} /\ \A v \in Units \ {u} : due'[v] = due[v]
    BY <2>1 DEF TypeOK
  <2>3. QED
    BY <2>1, <2>2 DEF HookInv
<1>14. ASSUME NEW u \in Units, Join(u)
       PROVE  HookInv'
  <2>1. /\ hook' = hook /\ pending' = pending /\ present' = present \union {u}
        /\ leader' = leader /\ \E events : TellUnits({u}, events)
    BY <1>14 DEF Join
  <2>2. QED
    BY <2>1, TellUnitsFacts DEF HookInv
<1>15. QED
  BY <1>4, <1>5, <1>6, <1>7, <1>8, <1>9, <1>10, <1>11, <1>12, <1>13, <1>14 DEF Next

\* What a hook that ends leaves in the relations, by relation.
LEMMA EndFacts ==
    ASSUME TypeOK, NEW u \in Units, End(u)
    PROVE  /\ due' = due
           /\ \A r \in Relations : published'[r] = PublishedBy(u, r) /\ host'[r] = HostBy(u, r)
           /\ \A r \in Relations, v \in Units \ {u} : host'[r][v] = host[r][v]
           /\ \A r \in Relations : r \notin exists => published'[r] = published[r] /\ host'[r] = host[r]
           /\ \A s \in Servers :
                /\ notices[s] \subseteq notices'[s]
                /\ notices'[s] \subseteq notices[s] \union {"changed"}
                /\ \/ /\ published'[RelationOf(s)] = published[RelationOf(s)]
                      /\ host'[RelationOf(s)] = host[RelationOf(s)]
                   \/ "changed" \in notices'[s]
<1>1. /\ due' = due
      /\ published' = [r \in Relations |-> PublishedBy(u, r)]
      /\ host' = [r \in Relations |-> HostBy(u, r)]
  BY DEF End
<1> DEFINE told == {r \in Relations : PublishedBy(u, r) # published[r] \/ HostBy(u, r) # host[r]}
<1>2. TellServers(told, "changed")
  BY DEF End
<1>3. \A r \in Relations : published'[r] = PublishedBy(u, r) /\ host'[r] = HostBy(u, r)
  BY <1>1
<1>4. \A s \in Servers : RelationOf(s) \in Relations
  BY ServedFacts
<1>5. \A r \in Relations, v \in Units \ {u} : host'[r][v] = host[r][v]
  BY <1>3 DEF HostBy, TypeOK
<1>6. \A r \in Relations : r \notin exists => published'[r] = published[r] /\ host'[r] = host[r]
  BY <1>3 DEF PublishedBy, HostBy
<1>7. \A s \in Servers :
         /\ notices[s] \subseteq notices'[s] /\ notices'[s] \subseteq notices[s] \union {"changed"}
         /\ RelationOf(s) \in told => "changed" \in notices'[s]
  BY <1>2, TellServersFacts DEF Notices
<1>8. QED
  BY <1>1, <1>3, <1>4, <1>5, <1>6, <1>7

LEMMA OptionStep == TypeOK /\ HookInv /\ OptionInv /\ [Next]_vars => OptionInv'
<1> SUFFICES ASSUME TypeOK, HookInv, OptionInv, [Next]_vars,
                    kind = "metrics-endpoint", NEW u \in Units, hook'[u] # "idle"
             PROVE  pending'[u].option = option' \/ "config" \in due'[u]
  BY KindKept DEF OptionInv
<1>1. ASSUME UNCHANGED <<hook, pending, option>>, due[u] \subseteq due'[u] \/ hook[u] = "idle"
      PROVE  pending'[u].option = option' \/ "config" \in due'[u]
  BY <1>1 DEF OptionInv
<1>2. CASE UNCHANGED vars
  BY <1>1, <1>2 DEF vars, ourVars, hookVars
<1>3. ASSUME NEW v \in Units, NEW event \in due[v], Begin(v, event)
      PROVE  pending'[u].option = option' \/ "config" \in due'[u]
  <2>1. /\ option' = option
        /\ pending'[v] = [event |-> event, relations |-> exists, option |-> option,
                          leads |-> v = leader]
        /\ u # v => hook'[u] = hook[u] /\ due'[u] = due[u] /\ pending'[u] = pending[u]
    BY <1>3, BeginFacts DEF ourVars
  <2>2. pending'[v].option = option
    BY <2>1
  <2>3. QED
    BY <2>1, <2>2 DEF OptionInv
<1>4. ASSUME NEW v \in Units, End(v) \/ Fail(v)
      PROVE  pending'[u].option = option' \/ "config" \in due'[u]
  BY <1>4, OverFacts DEF ourVars, OptionInv
<1>5. ASSUME NEW s \in Servers, NEW event \in notices[s], Serve(s, event)
      PROVE  pending'[u].option = option' \/ "config" \in due'[u]
  BY <1>1, <1>5, ServeFacts DEF ourVars, hookVars
<1>6. ASSUME NEW r \in Relations, Relate(r) \/ Break(r)
      PROVE  pending'[u].option = option' \/ "config" \in due'[u]
  BY <1>1, <1>6, TellUnitsFacts DEF Relate, Break, ourVars, hookVars
<1>7. ASSUME NEW opt, Configure(opt)
      PROVE  pending'[u].option = option' \/ "config" \in due'[u]
  <2>1. hook' = hook /\ TellUnits(present, {"config"})
    BY <1>7 DEF Configure
  <2>2. u \in present
    BY <2>1 DEF HookInv
  <2>3. "config" \in Observed
    BY DEF Observed, AddressEvents, MetricsEvents
  <2>4. QED
    BY <2>1, <2>2, <2>3, TellUnitsFacts
<1>8. CASE Release
  BY <1>1, <1>8 DEF Release, hookVars
<1>9. ASSUME NEW v \in Units, Upgrade(v) \/ Reschedule(v) \/ Elect(v) \/ Join(v)
      PROVE  pending'[u].option = option' \/ "config" \in due'[u]
  <2>1. UNCHANGED <<hook, pending, option>> /\ \E events : TellUnits({v}, events)
    BY <1>9 DEF Upgrade, Reschedule, Elect, Join
  <2>2. QED
    BY <1>1, <2>1, TellUnitsFacts
<1>10. ASSUME NEW v \in Units, Leave(v)
       PROVE  pending'[u].option = option' \/ "config" \in due'[u]
  <2>1. UNCHANGED <<hook, pending, option>> /\ hook[v] = "idle" /\ due' = [due EXCEPT ![v] = {}]
    BY <1>10 DEF Leave
  <2>2. QED
    BY <1>1, <2>1 DEF TypeOK
<1>11. QED
  BY <1>2, <1>3, <1>4, <1>5, <1>6, <1>7, <1>8, <1>9, <1>10 DEF Next

LEMMA GoneStep == TypeOK /\ HookInv /\ GoneInv /\ [Next]_vars => GoneInv'
<1> SUFFICES ASSUME TypeOK, HookInv, GoneInv, [Next]_vars PROVE GoneInv'
  OBVIOUS
<1>1. \A s : RelationOf(s)' = RelationOf(s)
  BY KindKept
<1>2. ASSUME exists' = exists, present' = present, published' = published, host' = host,
             \A s \in Servers : "broken" \in notices'[s] => "broken" \in notices[s]
      PROVE  GoneInv'
  BY <1>1, <1>2 DEF GoneInv
<1>3. CASE UNCHANGED vars
  BY <1>2, <1>3 DEF vars, ourVars, relationVars
<1>4. ASSUME NEW u \in Units, NEW event \in due[u], Begin(u, event)
      PROVE  GoneInv'
  BY <1>2, <1>4, BeginFacts DEF ourVars, relationVars
<1>5. ASSUME NEW u \in Units, End(u)
      PROVE  GoneInv'
  <2>1. exists' = exists /\ present' = present /\ u \in present
    BY <1>5, OverFacts DEF ourVars, HookInv
  <2>2. QED
    BY <1>1, <1>5, <2>1, EndFacts DEF GoneInv
<1>6. ASSUME NEW u \in Units, Fail(u)
      PROVE  GoneInv'
  BY <1>2, <1>6 DEF Fail, ourVars, relationVars
<1>7. ASSUME NEW s \in Servers, NEW event \in notices[s], Serve(s, event)
      PROVE  GoneInv'
  <2>1. UNCHANGED <<exists, present, published, host>>
    BY <1>7, ServeFacts DEF ourVars, relationVars
  <2>2. \A q \in Servers : "broken" \in notices'[q] => "broken" \in notices[q]
    BY <1>7, ServeFacts
  <2>3. QED
    BY <1>2, <2>1, <2>2
<1>8. ASSUME NEW r \in Relations, Relate(r)
      PROVE  GoneInv'
  <2>1. /\ UNCHANGED <<present, published, host, notices>> /\ exists' = exists \union {r}
        /\ \A s \in Servers : RelationOf(s) = r => "broken" \notin notices[s]
    BY <1>8 DEF Relate, ourVars
  <2>2. QED
    BY <1>1, <2>1 DEF GoneInv
<1>9. ASSUME NEW r \in Relations, Break(r)
      PROVE  GoneInv'
  <2>1. /\ present' = present /\ exists' = exists \ {r}
        /\ published' = [published EXCEPT ![r] = Nothing]
        /\ host' = [host EXCEPT ![r] = [u \in Units |-> 0]]
        /\ notices' = [s \in Servers |-> IF RelationOf(s) = r
                                         THEN (notices[s] \intersect {"peer"}) \union {"broken"}
                                         ELSE notices[s]]
    BY <1>9 DEF Break, ourVars
  <2>2. /\ published'[r] = Nothing /\ \A q \in Relations \ {r} : published'[q] = published[q]
        /\ \A u \in Units : host'[r][u] = 0
        /\ \A q \in Relations \ {r} : host'[q] = host[q]
    BY <2>1 DEF TypeOK
  <2>3. QED
    BY <1>1, <2>1, <2>2 DEF GoneInv
<1>10. ASSUME NEW opt, Configure(opt)
       PROVE  GoneInv'
  BY <1>2, <1>10 DEF Configure, relationVars
<1>11. CASE Release
  BY <1>2, <1>11 DEF Release, relationVars
<1>12. ASSUME NEW u \in Units, Upgrade(u) \/ Reschedule(u) \/ Elect(u)
       PROVE  GoneInv'
  BY <1>2, <1>12 DEF Upgrade, Reschedule, Elect, relationVars
<1>13. ASSUME NEW u \in Units, Leave(u)
       PROVE  GoneInv'
  <2>1. /\ UNCHANGED <<exists, published>> /\ present' = present \ {u}
        /\ host' = [r \in Relations |-> [host[r] EXCEPT ![u] = 0]]
        /\ TellServers(exists, "departed")
    BY <1>13 DEF Leave
  <2>2. \A r \in Relations : host'[r][u] = 0 /\ \A v \in Units \ {u} : host'[r][v] = host[r][v]
    BY <2>1 DEF TypeOK
  <2>3. \A s \in Servers : "broken" \in notices'[s] => "broken" \in notices[s]
    BY <2>1, TellServersFacts DEF Notices
  <2>4. QED
    BY <1>1, <2>1, <2>2, <2>3 DEF GoneInv
<1>14. ASSUME NEW u \in Units, Join(u)
       PROVE  GoneInv'
  <2>1. /\ UNCHANGED <<exists, published, host, notices>> /\ present' = present \union {u}
    BY <1>14 DEF Join, relationVars
  <2>2. QED
    BY <1>1, <2>1 DEF GoneInv
<1>15. QED
  BY <1>3, <1>4, <1>5, <1>6, <1>7, <1>8, <1>9, <1>10, <1>11, <1>12, <1>13, <1>14 DEF Next

\* The jobs of git-sync may be listed once or many times, but are listed if there are any.
LEMMA JobsFacts ==
    ASSUME NEW opt, NEW relations \in SUBSET Nat, NEW r \in relations
    PROVE  LET jobs == ScrapeJobs(opt, relations, r) IN
             {jobs[k] : k \in DOMAIN jobs} = JobNames(opt)
<1> DEFINE before == Cardinality({q \in relations : q <= r})
<1>1. before \in Nat \ {0}
  <2>1. r \in Nat /\ \A q \in relations : q \in Nat
    OBVIOUS
  <2>2. IsFiniteSet({q \in relations : q <= r})
    <3>1. \A q \in relations : q <= r => q \in 0..r
      BY <2>1
    <3>2. {q \in relations : q <= r} \subseteq 0..r
      BY <3>1
    <3>3. IsFiniteSet(0..r)
      BY <2>1, FS_Interval
    <3>4. QED
      BY <3>2, <3>3, FS_Subset
  <2>3. {q \in relations : q <= r} # {}
    OBVIOUS
  <2>4. QED
    BY <2>2, <2>3, FS_EmptySet, FS_CardinalityType
<1> HIDE DEF before
<1>2. CASE opt = "unset"
  <2>1. 1 + before * GitSyncJobs(opt) = 1
    BY <1>1, <1>2 DEF GitSyncJobs
  <2>2. ScrapeJobs(opt, relations, r) = [k \in 1..1 |-> IF k = 1 THEN "units" ELSE "git_sync"]
    BY <2>1 DEF ScrapeJobs, before
  <2>3. QED
    BY <1>2, <2>2 DEF JobNames
<1>3. CASE opt # "unset"
  <2>1. 1 + before * GitSyncJobs(opt) = 1 + before
    BY <1>1, <1>3 DEF GitSyncJobs
  <2>2. ScrapeJobs(opt, relations, r)
          = [k \in 1..(1 + before) |-> IF k = 1 THEN "units" ELSE "git_sync"]
    BY <2>1 DEF ScrapeJobs, before
  <2>3. 1 \in 1..(1 + before) /\ 2 \in 1..(1 + before)
    BY <1>1
  <2>4. QED
    BY <1>3, <2>2, <2>3 DEF JobNames
<1>4. QED
  BY <1>2, <1>3

LEMMA StillPublished ==
    ASSUME [Next]_vars, NEW r, WillBePublished(r),
           leader' = leader, option' = option, published'[r] = published[r],
           revision'[leader] = revision[leader], hook'[leader] = hook[leader],
           pending'[leader] = pending[leader], due[leader] \subseteq due'[leader]
    PROVE  WillBePublished(r)'
<1>1. IsPublished(r) => IsPublished(r)'
  BY KindKept DEF IsPublished
<1>2. Publishing(r) => Publishing(r)'
  BY KindKept DEF Publishing
<1>3. QED
  BY <1>1, <1>2, KindKept DEF WillBePublished

LEMMA PublishedStep ==
    TypeOK /\ HookInv /\ OptionInv /\ PublishedInv /\ [Next]_vars => PublishedInv'
<1> SUFFICES ASSUME TypeOK, HookInv, OptionInv, PublishedInv, [Next]_vars,
                    NEW r \in exists'
             PROVE  WillBePublished(r)'
  BY DEF PublishedInv
<1>1. leader \in Units /\ leader \in present /\ Relations \subseteq Nat /\ exists \subseteq Relations
  BY ServedFacts DEF TypeOK
<1>2. kind' = kind /\ PublicationEvents' = PublicationEvents /\ "idle" \notin PublicationEvents
      /\ PublicationEvents \subseteq Observed
  BY KindKept, ServedFacts
<1>3. ASSUME r \in exists, UNCHANGED <<leader, option, published, revision, hook, pending>>,
             due[leader] \subseteq due'[leader]
      PROVE  WillBePublished(r)'
  BY <1>3, StillPublished DEF PublishedInv
<1>4. ASSUME due'[leader'] \intersect PublicationEvents # {}
      PROVE  WillBePublished(r)'
  BY <1>2, <1>4 DEF WillBePublished
<1>5. CASE UNCHANGED vars
  BY <1>3, <1>5 DEF vars, ourVars, relationVars, hookVars
<1>6. ASSUME NEW u \in Units, NEW event \in due[u], Begin(u, event)
      PROVE  WillBePublished(r)'
  <2>1. /\ UNCHANGED <<leader, option, published, revision, exists>>
        /\ hook[u] = "idle" /\ hook'[u] = event /\ due'[u] = due[u] \ {event}
        /\ pending'[u] = [event |-> event, relations |-> exists, option |-> option,
                          leads |-> u = leader]
        /\ \A v \in Units \ {u} :
             hook'[v] = hook[v] /\ due'[v] = due[v] /\ pending'[v] = pending[v]
    BY <1>6, BeginFacts DEF ourVars, relationVars
  <2>2. r \in exists /\ WillBePublished(r)
    BY <2>1 DEF PublishedInv
  <2>3. CASE u # leader
    BY <1>1, <2>1, <2>2, <2>3, StillPublished
  <2>4. CASE u = leader /\ event \in PublicationEvents
    <3>1. pending'[u].leads /\ pending'[u].relations = exists
      <4>1. pending'[u].leads = (u = leader)
        BY <2>1
      <4>2. pending'[u].leads
        BY <2>4, <4>1
      <4>3. QED
        BY <2>1, <4>2
    <3>2. Publishing(r)'
      BY <1>2, <2>1, <2>2, <2>4, <3>1 DEF Publishing
    <3>3. QED
      BY <3>2 DEF WillBePublished
  <2>5. CASE u = leader /\ event \notin PublicationEvents
    <3>1. ~Publishing(r)
      BY <1>2, <2>1, <2>5 DEF Publishing
    <3>2. CASE IsPublished(r)
      BY <1>2, <2>1, <3>2 DEF WillBePublished, IsPublished
    <3>3. CASE due[leader] \intersect PublicationEvents # {}
      BY <1>4, <2>1, <2>5, <3>3
    <3>4. QED
      BY <2>2, <3>1, <3>2, <3>3 DEF WillBePublished
  <2>6. QED
    BY <2>3, <2>4, <2>5
<1>7. ASSUME NEW u \in Units, End(u)
      PROVE  WillBePublished(r)'
  <2>1. /\ UNCHANGED <<leader, option, revision, exists>> /\ due' = due /\ hook[u] # "idle"
        /\ \A v \in Units \ {u} : hook'[v] = hook[v] /\ pending'[v] = pending[v]
    BY <1>7, OverFacts, EndFacts DEF ourVars
  <2>2. /\ r \in exists /\ r \in Relations /\ WillBePublished(r)
        /\ published'[r] = PublishedBy(u, r)
    BY <1>1, <1>7, <2>1, EndFacts DEF PublishedInv
  <2>3. CASE u # leader
    <3>1. published'[r] = published[r]
      BY <2>2, <2>3 DEF PublishedBy, HookInv
    <3>2. QED
      BY <1>1, <2>1, <2>2, <2>3, <3>1, StillPublished
  <2>4. CASE u = leader /\ due[leader] \intersect PublicationEvents # {}
    BY <1>4, <2>1, <2>4
  <2>5. CASE u = leader /\ (Publishing(r) \/ IsPublished(r))
    <3>1. CASE published'[r] = published[r] /\ ~Publishing(r)
      BY <1>2, <2>1, <2>5, <3>1 DEF WillBePublished, IsPublished
    <3>2. CASE published'[r] # published[r] \/ Publishing(r)
      <4>1. /\ pending[u].relations \subseteq Nat /\ r \in pending[u].relations
            /\ published'[r] = Publication(u, r, pending[u].option, pending[u].relations)
        BY <1>1, <2>1, <2>2, <2>5, <3>2 DEF PublishedBy, Publishing, HookInv
      <4>2. CASE kind = "grafana-dashboard"
        <5>1. published'[r] = [jobs |-> << >>, revision |-> revision[leader], unit |-> leader]
          BY <2>5, <4>1, <4>2 DEF Publication
        <5>2. QED
          BY <1>2, <2>1, <4>2, <5>1 DEF WillBePublished, IsPublished
      <4>3. CASE kind = "metrics-endpoint"
        <5>1. {published'[r].jobs[k] : k \in DOMAIN published'[r].jobs} = JobNames(pending[u].option)
          BY <4>1, <4>3, JobsFacts DEF Publication
        <5>2. CASE pending[u].option = option
          BY <1>2, <2>1, <4>3, <5>1, <5>2 DEF WillBePublished, IsPublished
        <5>3. CASE "config" \in due[u]
          BY <1>4, <2>1, <2>5, <4>3, <5>3 DEF PublicationEvents, MetricsEvents
        <5>4. QED
          BY <2>1, <4>3, <5>2, <5>3 DEF OptionInv
      <4>4. QED
        BY <4>2, <4>3, ServedFacts DEF AllKinds
    <3>3. QED
      BY <3>1, <3>2
  <2>6. QED
    BY <2>2, <2>3, <2>4, <2>5 DEF WillBePublished
<1>8. ASSUME NEW u \in Units, Fail(u)
      PROVE  WillBePublished(r)'
  <2>1. /\ UNCHANGED <<leader, option, revision, exists, published>> /\ hook[u] # "idle"
        /\ due' = [due EXCEPT ![u] = @ \union {hook[u]}]
        /\ \A v \in Units \ {u} : hook'[v] = hook[v] /\ pending'[v] = pending[v]
    BY <1>8, OverFacts DEF Fail, ourVars, relationVars
  <2>2. /\ r \in exists /\ WillBePublished(r)
        /\ due'[u] = due[u] \union {hook[u]} /\ \A v \in Units \ {u} : due'[v] = due[v]
    BY <2>1 DEF PublishedInv, TypeOK
  <2>3. CASE u # leader
    BY <1>1, <2>1, <2>2, <2>3, StillPublished
  <2>4. CASE u = leader
    <3>1. CASE IsPublished(r)
      BY <1>2, <2>1, <3>1 DEF WillBePublished, IsPublished
    <3>2. CASE Publishing(r) \/ due[leader] \intersect PublicationEvents # {}
      BY <1>4, <2>1, <2>2, <2>4, <3>2 DEF Publishing
    <3>3. QED
      BY <2>2, <3>1, <3>2 DEF WillBePublished
  <2>5. QED
    BY <2>3, <2>4
<1>9. ASSUME NEW s \in Servers, NEW event \in notices[s], Serve(s, event)
      PROVE  WillBePublished(r)'
  BY <1>3, <1>9, ServeFacts DEF ourVars, relationVars, hookVars
<1>10. ASSUME NEW q \in Relations, Relate(q)
       PROVE  WillBePublished(r)'
  <2>1. UNCHANGED leader /\ TellUnits(present, {"created", "joined", "changed"})
    BY <1>10 DEF Relate, ourVars
  <2>2. {"created", "joined", "changed"} \intersect PublicationEvents # {}
    BY DEF PublicationEvents, MetricsEvents, DashboardEvents
  <2>3. QED
    BY <1>1, <1>2, <1>4, <2>1, <2>2, TellUnitsFacts
<1>11. ASSUME NEW q \in Relations, Break(q)
       PROVE  WillBePublished(r)'
  <2>1. /\ UNCHANGED <<leader, option, revision, hook, pending, due>> /\ exists' = exists \ {q}
        /\ published' = [published EXCEPT ![q] = Nothing]
    BY <1>11 DEF Break, ourVars, hookVars
  <2>2. r \in exists /\ published'[r] = published[r]
    BY <1>1, <2>1 DEF TypeOK
  <2>3. QED
    BY <2>1, <2>2, StillPublished DEF PublishedInv
<1>12. ASSUME NEW opt, Configure(opt)
       PROVE  WillBePublished(r)'
  <2>1. UNCHANGED leader /\ TellUnits(present, {"config"})
    BY <1>12 DEF Configure
  <2>2. "config" \in PublicationEvents
    BY DEF PublicationEvents, MetricsEvents, DashboardEvents
  <2>3. QED
    BY <1>1, <1>2, <1>4, <2>1, <2>2, TellUnitsFacts
<1>13. CASE Release
  BY <1>3, <1>13 DEF Release, relationVars, hookVars
<1>14. ASSUME NEW u \in Units, Upgrade(u) \/ Reschedule(u) \/ Join(u)
       PROVE  WillBePublished(r)'
  <2>1. /\ UNCHANGED <<leader, option, published, exists, hook, pending>>
        /\ revision'[leader] = revision[leader] \/ Upgrade(leader)
    BY <1>1, <1>14 DEF Upgrade, Reschedule, Join, relationVars, TypeOK
  <2>2. due[leader] \subseteq due'[leader]
    <3>1. \E events : TellUnits({u}, events)
      BY <1>14 DEF Upgrade, Reschedule, Join
    <3>2. QED
      BY <1>1, <3>1, TellUnitsFacts
  <2>3. CASE revision'[leader] = revision[leader]
    BY <2>1, <2>2, <2>3, StillPublished DEF PublishedInv
  <2>4. CASE Upgrade(leader)
    <3>1. TellUnits({leader}, {"upgrade", "config", "ready"})
      BY <2>4 DEF Upgrade
    <3>2. "config" \in PublicationEvents
      BY DEF PublicationEvents, MetricsEvents, DashboardEvents
    <3>3. QED
      BY <1>1, <1>2, <1>4, <2>1, <3>1, <3>2, TellUnitsFacts
  <2>5. QED
    BY <2>1, <2>3, <2>4
<1>15. ASSUME NEW u \in Units, Elect(u)
       PROVE  WillBePublished(r)'
  <2>1. leader' = u /\ TellUnits({u}, {"elected"})
    BY <1>15 DEF Elect
  <2>2. "elected" \in PublicationEvents
    BY DEF PublicationEvents, MetricsEvents, DashboardEvents
  <2>3. QED
    BY <1>2, <1>4, <2>1, <2>2, TellUnitsFacts
<1>16. ASSUME NEW u \in Units, Leave(u)
       PROVE  WillBePublished(r)'
  <2>1. /\ UNCHANGED <<leader, option, revision, exists, published, hook, pending>>
        /\ u # leader /\ due' = [due EXCEPT ![u] = {}]
    BY <1>16 DEF Leave
  <2>2. due'[leader] = due[leader]
    BY <1>1, <2>1 DEF TypeOK
  <2>3. QED
    BY <1>3, <2>1, <2>2
<1>17. QED
  BY <1>5, <1>6, <1>7, <1>8, <1>9, <1>10, <1>11, <1>12, <1>13, <1>14, <1>15, <1>16 DEF Next

LEMMA AddressStep ==
    TypeOK /\ HookInv /\ AddressInv /\ [Next]_vars => AddressInv'
<1> SUFFICES ASSUME TypeOK, HookInv, AddressInv, [Next]_vars, kind = "metrics-endpoint",
                    NEW r \in exists', NEW u \in present'
             PROVE  \/ host'[r][u] = address'[u]
                    \/ hook'[u] \in AddressEvents /\ r \in pending'[u].relations
                    \/ due'[u] \intersect AddressEvents # {}
  BY KindKept DEF AddressInv, AddressEvents, MetricsEvents
<1> DEFINE Goal == \/ host'[r][u] = address'[u]
                   \/ hook'[u] \in AddressEvents /\ r \in pending'[u].relations
                   \/ due'[u] \intersect AddressEvents # {}
<1>1. Observed = AddressEvents /\ "idle" \notin AddressEvents
  BY DEF Observed, AddressEvents, MetricsEvents
<1>2. ASSUME r \in exists, u \in present, host'[r][u] = host[r][u], address'[u] = address[u],
             hook'[u] = hook[u], pending'[u] = pending[u], due[u] \subseteq due'[u]
      PROVE  Goal
  BY <1>2 DEF AddressInv
<1>3. CASE UNCHANGED vars
  BY <1>2, <1>3 DEF vars, ourVars, relationVars, hookVars
<1>4. ASSUME NEW v \in Units, NEW event \in due[v], Begin(v, event)
      PROVE  Goal
  <2>1. /\ UNCHANGED <<present, exists, host, address>>
        /\ hook[v] = "idle" /\ hook'[v] = event /\ due'[v] = due[v] \ {event}
        /\ pending'[v] = [event |-> event, relations |-> exists, option |-> option,
                          leads |-> v = leader]
        /\ \A w \in Units \ {v} :
             hook'[w] = hook[w] /\ due'[w] = due[w] /\ pending'[w] = pending[w]
    BY <1>4, BeginFacts DEF ourVars, relationVars
  <2>2. u \in Units /\ pending'[v].relations = exists
    BY <2>1 DEF TypeOK
  <2>3. CASE u = v
    BY <1>1, <2>1, <2>2, <2>3 DEF AddressInv
  <2>4. CASE u # v
    <3>1. hook'[u] = hook[u] /\ due'[u] = due[u] /\ pending'[u] = pending[u]
      BY <2>1, <2>2, <2>4
    <3>2. QED
      BY <1>2, <2>1, <3>1
  <2>5. QED
    BY <2>3, <2>4
<1>5. ASSUME NEW v \in Units, End(v)
      PROVE  Goal
  <2>1. /\ UNCHANGED <<present, exists, address>> /\ due' = due
        /\ u # v => hook'[u] = hook[u] /\ pending'[u] = pending[u]
    BY <1>5, OverFacts, EndFacts DEF ourVars, TypeOK
  <2>2. r \in Relations /\ u \in Units
    BY <2>1, ServedFacts DEF TypeOK
  <2>3. host'[r] = HostBy(v, r) /\ (u # v => host'[r][u] = host[r][u])
    BY <1>5, <2>2, EndFacts
  <2>4. CASE u = v
    <3>1. CASE hook[u] \in AddressEvents /\ r \in pending[u].relations
      <4>1. pending[u].event \in AddressEvents
        BY <1>1, <2>2, <3>1 DEF HookInv
      <4>2. host'[r] = [host[r] EXCEPT ![u] = address[u]]
        BY <2>1, <2>3, <2>4, <3>1, <4>1 DEF HostBy
      <4>3. host'[r][u] = address[u]
        BY <2>2, <4>2 DEF TypeOK
      <4>4. QED
        BY <2>1, <4>3
    <3>2. CASE host[r][u] = address[u]
      <4>1. host'[r][u] = address[u]
        BY <2>2, <2>3, <2>4, <3>2 DEF HostBy, TypeOK
      <4>2. QED
        BY <2>1, <4>1
    <3>3. CASE due[u] \intersect AddressEvents # {}
      BY <2>1, <3>3
    <3>4. QED
      BY <2>1, <3>1, <3>2, <3>3 DEF AddressInv
  <2>5. CASE u # v
    BY <1>2, <2>1, <2>3, <2>5
  <2>6. QED
    BY <2>4, <2>5
<1>6. ASSUME NEW v \in Units, Fail(v)
      PROVE  Goal
  <2>1. /\ UNCHANGED <<present, exists, host, address>> /\ hook[v] # "idle"
        /\ due' = [due EXCEPT ![v] = @ \union {hook[v]}]
        /\ u # v => hook'[u] = hook[u] /\ pending'[u] = pending[u]
    BY <1>6, OverFacts DEF Fail, ourVars, relationVars, TypeOK
  <2>2. due'[v] = due[v] \union {hook[v]} /\ (u # v => due'[u] = due[u])
    BY <2>1 DEF TypeOK
  <2>3. CASE u = v
    BY <2>1, <2>2, <2>3 DEF AddressInv
  <2>4. CASE u # v
    BY <1>2, <2>1, <2>2, <2>4
  <2>5. QED
    BY <2>3, <2>4
<1>7. ASSUME NEW s \in Servers, NEW event \in notices[s], Serve(s, event)
      PROVE  Goal
  BY <1>2, <1>7, ServeFacts DEF ourVars, relationVars, hookVars
<1>8. ASSUME NEW q \in Relations, Relate(q)
      PROVE  Goal
  <2>1. UNCHANGED present /\ TellUnits(present, {"created", "joined", "changed"})
    BY <1>8 DEF Relate, ourVars
  <2>2. "changed" \in AddressEvents
    BY DEF AddressEvents
  <2>3. QED
    BY <1>1, <2>1, <2>2, TellUnitsFacts DEF TypeOK
<1>9. ASSUME NEW q \in Relations, Break(q)
      PROVE  Goal
  <2>1. /\ UNCHANGED <<present, address, hook, pending, due>> /\ exists' = exists \ {q}
        /\ host' = [host EXCEPT ![q] = [v \in Units |-> 0]]
    BY <1>9 DEF Break, ourVars, hookVars
  <2>2. r \in exists /\ host'[r] = host[r]
    BY <2>1 DEF TypeOK
  <2>3. QED
    BY <1>2, <2>1, <2>2
<1>10. ASSUME NEW opt, Configure(opt)
       PROVE  Goal
  <2>1. UNCHANGED <<present, exists, host, address, hook, pending>> /\ TellUnits(present, {"config"})
    BY <1>10 DEF Configure, relationVars
  <2>2. QED
    BY <1>2, <2>1, TellUnitsFacts DEF TypeOK
<1>11. CASE Release
  BY <1>2, <1>11 DEF Release, relationVars, hookVars
<1>12. ASSUME NEW v \in Units,
              Upgrade(v) \/ Reschedule(v) \/ Elect(v) \/ Join(v)
       PROVE  Goal
  <2>1. UNCHANGED <<exists, host, hook, pending>> /\ present' \subseteq present \union {v}
    BY <1>12 DEF Upgrade, Reschedule, Elect, Join, relationVars
  <2>2. PICK events : TellUnits({v}, events) /\ (~Elect(v) => events \intersect AddressEvents # {})
    <3>1. \A events : ({"config", "ready"} \union events) \intersect AddressEvents # {}
      BY DEF AddressEvents, MetricsEvents
    <3>2. CASE Upgrade(v)
      BY <3>2 DEF Upgrade, AddressEvents, MetricsEvents
    <3>3. CASE Reschedule(v)
      BY <3>3 DEF Reschedule, AddressEvents
    <3>4. CASE Elect(v)
      BY <3>4 DEF Elect
    <3>5. CASE Join(v)
      BY <3>5 DEF Join, AddressEvents, MetricsEvents
    <3>6. QED
      BY <1>12, <3>2, <3>3, <3>4, <3>5
  <2>3. u \in Units /\ due[u] \subseteq due'[u]
        /\ (u = v => events \intersect AddressEvents \subseteq due'[u])
    BY <1>1, <2>1, <2>2, TellUnitsFacts DEF TypeOK
  <2>4. CASE u = v /\ ~Elect(v)
    BY <2>2, <2>3, <2>4
  <2>5. CASE u # v \/ Elect(v)
    <3>1. u \in present /\ address'[u] = address[u]
      BY <1>12, <2>1, <2>3, <2>5 DEF Upgrade, Reschedule, Elect, Join, TypeOK
    <3>2. QED
      BY <1>2, <2>1, <2>3, <3>1
  <2>6. QED
    BY <2>4, <2>5
<1>13. ASSUME NEW v \in Units, Leave(v)
       PROVE  Goal
  <2>1. /\ UNCHANGED <<exists, address, hook, pending>> /\ present' = present \ {v}
        /\ due' = [due EXCEPT ![v] = {}]
        /\ host' = [q \in Relations |-> [host[q] EXCEPT ![v] = 0]]
    BY <1>13 DEF Leave
  <2>2. r \in Relations /\ u \in Units /\ u # v
    BY <2>1, ServedFacts DEF TypeOK
  <2>3. host'[r][u] = host[r][u] /\ due'[u] = due[u]
    BY <2>1, <2>2 DEF TypeOK
  <2>4. QED
    BY <1>2, <2>1, <2>2, <2>3
<1>14. QED
  BY <1>3, <1>4, <1>5, <1>6, <1>7, <1>8, <1>9, <1>10, <1>11, <1>12, <1>13 DEF Next

\* Nothing is expanded of a relation without jobs.
LEMMA NothingExpanded ==
    ASSUME NEW r, published[r] = Nothing
    PROVE  Deduplicated(Expanded(r)) = NoTargets
<1>1. DOMAIN published[r].jobs = {}
  BY DEF Nothing
<1>2. {<<published[r].jobs[k], u, host[r][u]>> :
          k \in DOMAIN published[r].jobs, u \in {v \in present : host[r][v] # 0}} = {}
  BY <1>1
<1>3. DOMAIN Expanded(r) = {}
  BY <1>2 DEF Expanded
<1>4. QED
  BY <1>3 DEF Deduplicated, NoTargets

\* What Prometheus has of a relation is what was published in it, or it has yet to look.
LEMMA ScrapedStep ==
    TypeOK /\ GoneInv /\ ScrapedInv /\ [Next]_vars => ScrapedInv'
<1> SUFFICES ASSUME TypeOK, GoneInv, ScrapedInv, [Next]_vars, kind = "metrics-endpoint",
                    NEW s \in Servers, NEW r, r = RelationOf(s)
             PROVE  IF r \in exists'
                    THEN \/ shown'[s] = Deduplicated(Expanded(r)')
                         \/ notices'[s] \intersect {"changed", "departed"} # {}
                    ELSE shown'[s] = NoTargets \/ "broken" \in notices'[s]
  BY KindKept DEF ScrapedInv, Deduplicated
<1> DEFINE Goal == IF r \in exists'
                   THEN \/ shown'[s] = Deduplicated(Expanded(r)')
                        \/ notices'[s] \intersect {"changed", "departed"} # {}
                   ELSE shown'[s] = NoTargets \/ "broken" \in notices'[s]
<1>1. /\ r \in Served /\ r \in Relations
      /\ IF r \in exists
         THEN \/ shown[s] = Deduplicated(Expanded(r))
              \/ notices[s] \intersect {"changed", "departed"} # {}
         ELSE shown[s] = NoTargets \/ "broken" \in notices[s]
  BY ServedFacts DEF ScrapedInv
<1>2. ASSUME r \in exists' <=> r \in exists, shown'[s] = shown[s], notices[s] \subseteq notices'[s],
             r \in exists => \/ Expanded(r)' = Expanded(r)
                             \/ notices'[s] \intersect {"changed", "departed"} # {}
      PROVE  Goal
  BY <1>1, <1>2
<1>3. published'[r] = published[r] /\ host'[r] = host[r] /\ present' = present
        => Expanded(r)' = Expanded(r)
  BY DEF Expanded
<1>4. CASE UNCHANGED vars
  BY <1>2, <1>3, <1>4 DEF vars, ourVars, relationVars, serverVars
<1>5. ASSUME NEW u \in Units, NEW event \in due[u], Begin(u, event)
      PROVE  Goal
  BY <1>2, <1>3, <1>5, BeginFacts DEF ourVars, relationVars, serverVars
<1>6. ASSUME NEW u \in Units, End(u)
      PROVE  Goal
  <2>1. UNCHANGED <<exists, present, shown>>
    BY <1>6, OverFacts DEF ourVars, serverVars
  <2>2. /\ notices[s] \subseteq notices'[s]
        /\ (published'[r] = published[r] /\ host'[r] = host[r]) \/ "changed" \in notices'[s]
    BY <1>6, EndFacts
  <2>3. QED
    BY <1>2, <1>3, <2>1, <2>2
<1>7. ASSUME NEW u \in Units, Fail(u)
      PROVE  Goal
  BY <1>2, <1>3, <1>7 DEF Fail, ourVars, relationVars, serverVars
<1>8. ASSUME NEW q \in Servers, NEW event \in notices[q], Serve(q, event)
      PROVE  Goal
  <2>1. /\ UNCHANGED <<exists, published, host, present>>
        /\ shown' = [shown EXCEPT ![q] = IF event = "broken" THEN NoTargets
                                         ELSE Deduplicated(Expanded(RelationOf(q)))]
        /\ notices' = [notices EXCEPT ![q] = @ \ {event}]
    BY <1>8 DEF Serve, Scrape, Show, ourVars, relationVars
  <2>2. CASE q # s
    BY <1>2, <1>3, <2>1, <2>2
  <2>3. CASE q = s
    <3>1. shown'[s] = IF event = "broken" THEN NoTargets ELSE Deduplicated(Expanded(r))
      BY <2>1, <2>3 DEF TypeOK
    <3>2. CASE r \in exists
      <4>1. event # "broken"
        BY <1>8, <2>3, <3>2 DEF GoneInv
      <4>2. QED
        BY <1>3, <2>1, <3>1, <3>2, <4>1
    <3>3. CASE r \notin exists
      <4>1. Deduplicated(Expanded(r)) = NoTargets
        BY <1>1, <3>3, NothingExpanded DEF GoneInv
      <4>2. QED
        BY <2>1, <3>1, <3>3, <4>1
    <3>4. QED
      BY <3>2, <3>3
  <2>4. QED
    BY <2>2, <2>3
<1>9. ASSUME NEW q \in Relations, Relate(q)
      PROVE  Goal
  <2>1. /\ UNCHANGED <<published, host, present, shown, notices>>
        /\ exists' = exists \union {q} /\ q \notin exists
        /\ \A p \in Servers : RelationOf(p) = q => "broken" \notin notices[p]
    BY <1>9 DEF Relate, ourVars, serverVars
  <2>2. CASE q # r
    BY <1>2, <1>3, <2>1, <2>2
  <2>3. CASE q = r
    <3>1. shown[s] = NoTargets
      BY <1>1, <2>1, <2>3
    <3>2. Deduplicated(Expanded(r)) = NoTargets
      BY <1>1, <2>1, <2>3, NothingExpanded DEF GoneInv
    <3>3. QED
      BY <1>3, <2>1, <2>3, <3>1, <3>2
  <2>4. QED
    BY <2>2, <2>3
<1>10. ASSUME NEW q \in Relations, Break(q)
       PROVE  Goal
  <2>1. /\ UNCHANGED <<present, shown>> /\ exists' = exists \ {q}
        /\ published' = [published EXCEPT ![q] = Nothing]
        /\ host' = [host EXCEPT ![q] = [v \in Units |-> 0]]
        /\ notices' = [p \in Servers |-> IF RelationOf(p) = q
                                         THEN (notices[p] \intersect {"peer"}) \union {"broken"}
                                         ELSE notices[p]]
    BY <1>10 DEF Break, ourVars
  <2>2. CASE q = r
    BY <2>1, <2>2
  <2>3. CASE q # r
    <3>1. published'[r] = published[r] /\ host'[r] = host[r] /\ notices'[s] = notices[s]
      BY <2>1, <2>3
    <3>2. QED
      BY <1>2, <1>3, <2>1, <2>3, <3>1
  <2>4. QED
    BY <2>2, <2>3
<1>11. ASSUME NEW opt, Configure(opt)
       PROVE  Goal
  BY <1>2, <1>3, <1>11 DEF Configure, relationVars, serverVars
<1>12. CASE Release
  BY <1>2, <1>3, <1>12 DEF Release, relationVars, serverVars
<1>13. ASSUME NEW u \in Units, Upgrade(u) \/ Reschedule(u) \/ Elect(u)
       PROVE  Goal
  BY <1>2, <1>3, <1>13 DEF Upgrade, Reschedule, Elect, relationVars, serverVars
<1>14. ASSUME NEW u \in Units, Leave(u)
       PROVE  Goal
  <2>1. UNCHANGED <<exists, shown>> /\ TellServers(exists, "departed")
    BY <1>14 DEF Leave, serverVars
  <2>2. notices[s] \subseteq notices'[s] /\ (r \in exists => "departed" \in notices'[s])
    BY <2>1, TellServersFacts DEF Notices
  <2>3. QED
    BY <1>2, <2>1, <2>2
<1>15. ASSUME NEW u \in Units, Join(u)
       PROVE  Goal
  <2>1. /\ UNCHANGED <<exists, published, host, shown, notices>>
        /\ present' = present \union {u} /\ u \notin present
    BY <1>15 DEF Join, relationVars, serverVars
  <2>2. {v \in present' : host[r][v] # 0} = {v \in present : host[r][v] # 0}
    BY <1>1, <2>1 DEF GoneInv
  <2>3. Expanded(r)' = Expanded(r)
    BY <2>1, <2>2 DEF Expanded
  <2>4. QED
    BY <1>2, <2>1, <2>3
<1>16. QED
  BY <1>4, <1>5, <1>6, <1>7, <1>8, <1>9, <1>10, <1>11, <1>12, <1>13, <1>14, <1>15 DEF Next

\* What a unit of Grafana that handles an event leaves of its databags and of its workload.
LEMMA ShowFacts ==
    ASSUME TypeOK, kind = "grafana-dashboard",
           NEW s \in Servers, NEW event, Serve(s, event), NEW r, r = RelationOf(s)
    PROVE  /\ UNCHANGED <<kind, exists, published, head>>
           /\ \A q \in Relations \ {r} : stored'[q] = stored[q] /\ report'[q] = report[q]
           /\ s # head[r] => stored' = stored /\ report' = report
           /\ \A q \in Servers \ {s} : shown'[q] = shown[q]
           /\ \A q \in Servers \ {s} :
                RelationOf(q) = r => stored'[r] = stored[r] \/ "peer" \in notices'[q]
           /\ s = head[r] /\ shown[s] = stored[r] => shown'[s] = stored'[r]
           /\ s # head[r] => IF event = "peer" THEN shown'[s] = stored[r] ELSE shown'[s] = shown[s]
           /\ s = head[r] /\ event = "changed" =>
                IF published[r] = Nothing THEN UNCHANGED <<stored, report>>
                ELSE IF published[r].revision \in InvalidRevisions
                THEN report'[r] /\ stored'[r] = NONE
                ELSE ~report'[r] /\ stored'[r] = published[r]
           /\ s = head[r] /\ event = "broken" => stored'[r] = NONE
           /\ event \notin {"changed", "broken"} => UNCHANGED <<stored, report>>
           /\ event = "broken" => UNCHANGED report
<1> DEFINE invalid == published[r].revision \in InvalidRevisions
<1>1. r \in Relations /\ r \in Served
  BY ServedFacts
<1>2. UNCHANGED <<kind, exists, published, head>> /\ Show(s, event)
  BY ServeFacts DEF Serve, Scrape, relationVars
<1>3. ASSUME NEW dashboards, Store(s, event, dashboards)
      PROVE  /\ \A q \in Relations \ {r} : stored'[q] = stored[q]
             /\ stored'[r] = dashboards
             /\ \A q \in Servers \ {s} : shown'[q] = shown[q]
             /\ shown'[s] = IF stored[r] # dashboards THEN dashboards ELSE shown[s]
             /\ \A q \in Servers \ {s} :
                  RelationOf(q) = r => stored'[r] = stored[r] \/ "peer" \in notices'[q]
  <2>1. /\ stored' = [stored EXCEPT ![r] = dashboards]
        /\ shown' = [shown EXCEPT ![s] = IF stored[r] # dashboards THEN dashboards ELSE @]
    BY <1>3 DEF Store
  <2>2. stored'[r] = dashboards /\ \A q \in Relations \ {r} : stored'[q] = stored[q]
    BY <1>1, <2>1 DEF TypeOK
  <2>3. /\ \A q \in Servers \ {s} : shown'[q] = shown[q]
        /\ shown'[s] = IF stored[r] # dashboards THEN dashboards ELSE shown[s]
    BY <2>1 DEF TypeOK
  <2>4. TellPeers(s, event, stored[r] # dashboards)
    BY <1>3 DEF Store
  <2>5. ASSUME NEW q \in Servers \ {s}, RelationOf(q) = r, stored'[r] # stored[r]
        PROVE  "peer" \in notices'[q]
    BY <2>2, <2>4, <2>5 DEF TellPeers
  <2>6. QED
    BY <2>2, <2>3, <2>5
<1>4. CASE event = "changed" /\ s = head[r] /\ published[r] # Nothing /\ Render(s)
  <2>1. Store(s, event, IF invalid THEN NONE ELSE published[r])
    BY <1>4 DEF Render
  <2>2. report' = [report EXCEPT ![r] = invalid]
    BY <1>4 DEF Render
  <2>3. invalid \in BOOLEAN
    OBVIOUS
  <2>4. (report'[r] <=> invalid) /\ \A q \in Relations \ {r} : report'[q] = report[q]
    <3> HIDE DEF invalid
    <3>1. report'[r] = invalid /\ \A q \in Relations \ {r} : report'[q] = report[q]
      BY <1>1, <2>2, <2>3 DEF TypeOK
    <3>2. QED
      BY <3>1
  <2>5. /\ \A q \in Relations \ {r} : stored'[q] = stored[q]
        /\ \A q \in Servers \ {s} : shown'[q] = shown[q]
        /\ \A q \in Servers \ {s} :
             RelationOf(q) = r => stored'[r] = stored[r] \/ "peer" \in notices'[q]
    BY <1>3, <2>1
  <2>6. stored'[r] = IF invalid THEN NONE ELSE published[r]
    BY <1>3, <2>1
  <2>7. shown[s] = stored[r] => shown'[s] = stored'[r]
    BY <1>3, <2>1
  <2>8. QED
    BY <1>2, <1>4, <2>4, <2>5, <2>6, <2>7
<1>5. CASE event = "broken" /\ s = head[r] /\ Store(s, event, NONE) /\ UNCHANGED <<head, report>>
  BY <1>2, <1>3, <1>5
<1>6. CASE /\ event = "peer" /\ s # head[r]
           /\ shown' = [shown EXCEPT ![s] = stored[r]]
           /\ UNCHANGED <<head, stored, report>>
  <2>1. shown'[s] = stored[r] /\ \A q \in Servers \ {s} : shown'[q] = shown[q]
    BY <1>6 DEF TypeOK
  <2>2. QED
    BY <1>2, <1>6, <2>1
<1>7. CASE /\ \/ event = "changed" /\ (s # head[r] \/ published[r] = Nothing)
              \/ event = "departed"
              \/ event = "broken" /\ s # head[r]
              \/ event = "peer" /\ s = head[r]
           /\ UNCHANGED serverVars
  BY <1>2, <1>7 DEF serverVars
<1>8. QED
  BY <1>2, <1>4, <1>5, <1>6, <1>7 DEF Show

\* What Grafana's leader has stored is what was published, or it has yet to be told.
LEMMA RenderedStep ==
    TypeOK /\ GoneInv /\ RenderedInv /\ [Next]_vars => RenderedInv'
<1> SUFFICES ASSUME TypeOK, GoneInv, RenderedInv, [Next]_vars, kind = "grafana-dashboard",
                    NEW r \in Served
             PROVE  IF r \in exists'
                    THEN published'[r] = Nothing \/ IsRendered(r)' \/ "changed" \in notices'[head'[r]]
                    ELSE stored'[r] = NONE \/ "broken" \in notices'[head'[r]]
  BY KindKept DEF RenderedInv, Nothing
<1> DEFINE Goal ==
      IF r \in exists'
      THEN published'[r] = Nothing \/ IsRendered(r)' \/ "changed" \in notices'[head'[r]]
      ELSE stored'[r] = NONE \/ "broken" \in notices'[head'[r]]
<1>1. r \in Relations /\ head[r] \in Servers /\ RelationOf(head[r]) = r
  BY ServedFacts DEF TypeOK
<1>2. IF r \in exists
      THEN published[r] = Nothing \/ IsRendered(r) \/ "changed" \in notices[head[r]]
      ELSE stored[r] = NONE \/ "broken" \in notices[head[r]]
  BY DEF RenderedInv
<1>3. published'[r] = published[r] /\ report'[r] = report[r] /\ stored'[r] = stored[r]
        => (IsRendered(r) => IsRendered(r)')
  BY DEF IsRendered
<1>4. ASSUME r \in exists' <=> r \in exists, head' = head,
             published'[r] = published[r] \/ (r \in exists /\ "changed" \in notices'[head[r]]),
             report'[r] = report[r], stored'[r] = stored[r],
             notices[head[r]] \subseteq notices'[head[r]]
      PROVE  Goal
  BY <1>2, <1>3, <1>4
<1>5. CASE UNCHANGED vars
  BY <1>4, <1>5 DEF vars, relationVars, serverVars
<1>6. ASSUME NEW u \in Units, NEW event \in due[u], Begin(u, event)
      PROVE  Goal
  BY <1>4, <1>6, BeginFacts DEF relationVars, serverVars
<1>7. ASSUME NEW u \in Units, End(u)
      PROVE  Goal
  <2>1. UNCHANGED <<exists, head, report, stored>>
    BY <1>7, OverFacts DEF serverVars
  <2>2. /\ notices[head[r]] \subseteq notices'[head[r]]
        /\ published'[r] = published[r] \/ "changed" \in notices'[head[r]]
        /\ r \notin exists => published'[r] = published[r]
    BY <1>1, <1>7, EndFacts
  <2>3. QED
    BY <1>4, <2>1, <2>2
<1>8. ASSUME NEW u \in Units, Fail(u)
      PROVE  Goal
  BY <1>4, <1>8 DEF Fail, relationVars, serverVars
<1>9. ASSUME NEW s \in Servers, NEW event \in notices[s], Serve(s, event)
      PROVE  Goal
  <2>1. UNCHANGED <<kind, exists, published, head>>
    BY <1>9, ShowFacts
  <2>2. CASE s # head[r]
    <3>1. notices[head[r]] \subseteq notices'[head[r]]
      BY <1>1, <1>9, <2>2, ServeFacts
    <3>2. stored'[r] = stored[r] /\ report'[r] = report[r]
      <4>1. CASE RelationOf(s) = r
        BY <1>9, <2>2, <4>1, ShowFacts
      <4>2. CASE RelationOf(s) # r
        BY <1>1, <1>9, <4>2, ShowFacts
      <4>3. QED
        BY <4>1, <4>2
    <3>3. QED
      BY <1>4, <2>1, <3>1, <3>2
  <2>3. CASE s = head[r]
    <3>1. notices'[s] = notices[s] \ {event} /\ r = RelationOf(s)
      BY <1>1, <1>9, <2>3, ServeFacts
    <3>2. CASE event = "changed"
      <4>1. IF published[r] = Nothing THEN UNCHANGED <<stored, report>>
            ELSE IF published[r].revision \in InvalidRevisions
            THEN report'[r] /\ stored'[r] = NONE
            ELSE ~report'[r] /\ stored'[r] = published[r]
        BY <1>9, <2>3, <3>1, <3>2, ShowFacts
      <4>2. published[r] = Nothing \/ IsRendered(r)'
        BY <2>1, <4>1 DEF IsRendered
      <4>3. r \in exists
        BY <1>9, <3>1, <3>2 DEF Serve
      <4>4. QED
        BY <2>1, <4>2, <4>3
    <3>3. CASE event = "broken"
      <4>1. r \notin exists
        BY <1>9, <3>1, <3>3 DEF GoneInv
      <4>2. stored'[r] = NONE
        BY <1>9, <2>3, <3>1, <3>3, ShowFacts
      <4>3. QED
        BY <2>1, <4>1, <4>2
    <3>4. CASE event \notin {"changed", "broken"}
      <4>1. UNCHANGED <<stored, report>>
        BY <1>9, <3>1, <3>4, ShowFacts
      <4>2. /\ "changed" \in notices[head[r]] => "changed" \in notices'[head[r]]
            /\ "broken" \in notices[head[r]] => "broken" \in notices'[head[r]]
        BY <2>3, <3>1, <3>4
      <4>3. QED
        BY <1>2, <1>3, <2>1, <4>1, <4>2
    <3>5. QED
      BY <3>2, <3>3, <3>4
  <2>4. QED
    BY <2>2, <2>3
<1>10. ASSUME NEW q \in Relations, Relate(q)
       PROVE  Goal
  <2>1. /\ UNCHANGED <<published, notices, head, stored, report>>
        /\ exists' = exists \union {q} /\ q \notin exists
    BY <1>10 DEF Relate, serverVars
  <2>2. CASE q # r
    BY <1>4, <2>1, <2>2
  <2>3. CASE q = r
    BY <1>1, <2>1, <2>3 DEF GoneInv
  <2>4. QED
    BY <2>2, <2>3
<1>11. ASSUME NEW q \in Relations, Break(q)
       PROVE  Goal
  <2>1. /\ UNCHANGED <<head, stored>> /\ exists' = exists \ {q}
        /\ published' = [published EXCEPT ![q] = Nothing]
        /\ report' = [report EXCEPT ![q] = FALSE]
        /\ notices' = [p \in Servers |-> IF RelationOf(p) = q
                                         THEN (notices[p] \intersect {"peer"}) \union {"broken"}
                                         ELSE notices[p]]
    BY <1>11 DEF Break
  <2>2. CASE q = r
    BY <1>1, <2>1, <2>2
  <2>3. CASE q # r
    <3>1. published'[r] = published[r] /\ notices'[head[r]] = notices[head[r]]
      BY <1>1, <2>1, <2>3
    <3>2. report'[r] = report[r]
      BY <1>1, <2>1, <2>3 DEF TypeOK
    <3>3. QED
      BY <1>4, <2>1, <2>3, <3>1, <3>2
  <2>4. QED
    BY <2>2, <2>3
<1>12. ASSUME NEW opt, Configure(opt)
       PROVE  Goal
  BY <1>12 DEF Configure
<1>13. CASE Release
  BY <1>4, <1>13 DEF Release, relationVars, serverVars
<1>14. ASSUME NEW u \in Units, Upgrade(u) \/ Reschedule(u) \/ Elect(u) \/ Join(u)
       PROVE  Goal
  BY <1>4, <1>14 DEF Upgrade, Reschedule, Elect, Join, relationVars, serverVars
<1>15. ASSUME NEW u \in Units, Leave(u)
       PROVE  Goal
  <2>1. UNCHANGED <<exists, published, serverVars>> /\ TellServers(exists, "departed")
    BY <1>15 DEF Leave
  <2>2. notices[head[r]] \subseteq notices'[head[r]]
    BY <1>1, <2>1, TellServersFacts DEF Notices
  <2>3. QED
    BY <1>4, <2>1, <2>2 DEF serverVars
<1>16. QED
  BY <1>5, <1>6, <1>7, <1>8, <1>9, <1>10, <1>11, <1>12, <1>13, <1>14, <1>15 DEF Next

\* A unit of Grafana shows what is stored, or has yet to be told.
LEMMA ShownStep ==
    TypeOK /\ ShownInv /\ [Next]_vars => ShownInv'
<1> SUFFICES ASSUME TypeOK, ShownInv, [Next]_vars, kind = "grafana-dashboard",
                    NEW s \in Servers, NEW r, r = RelationOf(s)
             PROVE  \/ shown'[s] = stored'[r]
                    \/ s # head'[r] /\ "peer" \in notices'[s]
  BY KindKept DEF ShownInv
<1> DEFINE Goal == \/ shown'[s] = stored'[r]
                   \/ s # head'[r] /\ "peer" \in notices'[s]
<1>1. shown[s] = stored[r] \/ (s # head[r] /\ "peer" \in notices[s])
  BY DEF ShownInv
<1>2. ASSUME UNCHANGED <<head, stored, shown>>,
             "peer" \in notices[s] => "peer" \in notices'[s]
      PROVE  Goal
  BY <1>1, <1>2
<1>3. CASE UNCHANGED vars
  BY <1>2, <1>3 DEF vars, serverVars
<1>4. ASSUME NEW u \in Units, NEW event \in due[u], Begin(u, event)
      PROVE  Goal
  BY <1>2, <1>4, BeginFacts DEF serverVars
<1>5. ASSUME NEW u \in Units, End(u)
      PROVE  Goal
  <2>1. UNCHANGED serverVars
    BY <1>5, OverFacts
  <2>2. notices[s] \subseteq notices'[s]
    BY <1>5, EndFacts
  <2>3. QED
    BY <1>2, <2>1, <2>2 DEF serverVars
<1>6. ASSUME NEW u \in Units, Fail(u)
      PROVE  Goal
  BY <1>2, <1>6 DEF Fail, serverVars
<1>7. ASSUME NEW q \in Servers, NEW event \in notices[q], Serve(q, event)
      PROVE  Goal
  <2>1. head' = head
    BY <1>7, ShowFacts
  <2>2. CASE q # s
    <3>1. shown'[s] = shown[s] /\ notices[s] \subseteq notices'[s]
      BY <1>7, <2>2, ShowFacts, ServeFacts
    <3>2. CASE stored'[r] = stored[r]
      BY <1>1, <2>1, <3>1, <3>2
    <3>3. CASE stored'[r] # stored[r]
      <4>1. RelationOf(q) = r
        BY <1>7, <3>3, ServedFacts, ShowFacts
      <4>2. q = head[r] /\ "peer" \in notices'[s]
        BY <1>7, <2>2, <3>3, <4>1, ShowFacts
      <4>3. QED
        BY <2>1, <2>2, <4>2
    <3>4. QED
      BY <3>2, <3>3
  <2>3. CASE q = s
    <3>1. notices'[s] = notices[s] \ {event}
      BY <1>7, <2>3, ServeFacts
    <3>2. CASE s = head[r]
      <4>1. shown'[s] = stored'[r]
        BY <1>1, <1>7, <2>3, <3>2, ShowFacts
      <4>2. QED
        BY <4>1
    <3>3. CASE s # head[r]
      <4>1. /\ stored' = stored
            /\ IF event = "peer" THEN shown'[s] = stored[r] ELSE shown'[s] = shown[s]
        BY <1>7, <2>3, <3>3, ShowFacts
      <4>2. QED
        BY <1>1, <2>1, <3>1, <4>1
    <3>4. QED
      BY <3>2, <3>3
  <2>4. QED
    BY <2>2, <2>3
<1>8. ASSUME NEW q \in Relations, Relate(q)
      PROVE  Goal
  BY <1>2, <1>8 DEF Relate, serverVars
<1>9. ASSUME NEW q \in Relations, Break(q)
      PROVE  Goal
  <2>1. UNCHANGED <<head, stored, shown>>
    BY <1>9 DEF Break
  <2>2. "peer" \in notices[s] => "peer" \in notices'[s]
    BY <1>9 DEF Break
  <2>3. QED
    BY <1>2, <2>1, <2>2
<1>10. ASSUME NEW opt, Configure(opt)
       PROVE  Goal
  BY <1>10 DEF Configure
<1>11. CASE Release
  BY <1>2, <1>11 DEF Release, serverVars
<1>12. ASSUME NEW u \in Units, Upgrade(u) \/ Reschedule(u) \/ Elect(u) \/ Join(u)
       PROVE  Goal
  BY <1>2, <1>12 DEF Upgrade, Reschedule, Elect, Join, serverVars
<1>13. ASSUME NEW u \in Units, Leave(u)
       PROVE  Goal
  <2>1. UNCHANGED serverVars /\ TellServers(exists, "departed")
    BY <1>13 DEF Leave
  <2>2. notices[s] \subseteq notices'[s]
    BY <2>1, TellServersFacts DEF Notices
  <2>3. QED
    BY <1>2, <2>1, <2>2 DEF serverVars
<1>14. QED
  BY <1>3, <1>4, <1>5, <1>6, <1>7, <1>8, <1>9, <1>10, <1>11, <1>12, <1>13 DEF Next

----------------------------------------------------------------------------
(* The theorems.                                                           *)

LEMMA InitIInv == Init => IInv
<1> SUFFICES ASSUME Init PROVE IInv
  OBVIOUS
<1>1. kind \in Kinds /\ Served \subseteq Relations /\ \A s \in Servers : RelationOf(s) \in Served
  BY KindsAssumption, RelationsAssumption DEF Init, Served, RelationOf
<1>2. TypeOK
  <2>1. released \in Nat
    BY BoundsAssumption DEF Init
  <2>2. present \subseteq Units /\ leader \in present /\ exists \subseteq Served
    BY DEF Init
  <2>3. /\ revision \in [Units -> Nat] /\ address \in [Units -> Nat \ {0}]
        /\ host \in [Relations -> [Units -> Nat]]
    BY <2>1 DEF Init
  <2>4. due \in [Units -> SUBSET Events] /\ hook \in [Units -> Events \union {"idle"}]
    BY DEF Init
  <2>5. head \in [Served -> Servers] /\ \A r \in Served : RelationOf(head[r]) = r
    BY DEF Init
  <2>6. report \in [Relations -> BOOLEAN] /\ notices \in [Servers -> SUBSET Notices]
    BY DEF Init
  <2>7. /\ DOMAIN published = Relations /\ DOMAIN stored = Relations
        /\ DOMAIN pending = Units /\ DOMAIN shown = Servers
    BY DEF Init
  <2>8. QED
    BY <1>1, <2>1, <2>2, <2>3, <2>4, <2>5, <2>6, <2>7 DEF TypeOK
<1>3. HookInv /\ OptionInv
  <2>1. Idle.leads = FALSE /\ Idle.relations = {}
    BY DEF Idle
  <2>2. QED
    BY <2>1 DEF Init, HookInv, OptionInv
<1>4. GoneInv
  BY DEF Init, GoneInv
<1>5. PublishedInv /\ AddressInv
  BY DEF Init, PublishedInv, AddressInv
<1>6. ScrapedInv
  BY DEF Init, ScrapedInv
<1>7. RenderedInv /\ ShownInv
  <2>1. \A r \in Served : r \notin exists /\ stored[r] = NONE
    BY <1>1 DEF Init
  <2>2. kind = "grafana-dashboard" => \A s \in Servers : shown[s] = NONE
    BY DEF Init
  <2>3. QED
    BY <1>1, <2>1, <2>2 DEF RenderedInv, ShownInv
<1>8. QED
  BY <1>2, <1>3, <1>4, <1>5, <1>6, <1>7 DEF IInv

LEMMA NextIInv == IInv /\ [Next]_vars => IInv'
BY TypeStep, HookStep, OptionStep, GoneStep, PublishedStep, AddressStep, ScrapedStep,
   RenderedStep, ShownStep
   DEF IInv

LEMMA Invariance == Spec => []IInv
BY InitIInv, NextIInv, PTL DEF Spec

\* Once no hook is left to run, what is published is up to date.
LEMMA CalmIsPublished ==
    ASSUME IInv, Calm, NEW r \in exists
    PROVE  IsPublished(r)
<1>1. leader \in Units /\ "idle" \notin PublicationEvents
  BY ServedFacts DEF IInv, TypeOK
<1>2. QED
  BY <1>1 DEF IInv, PublishedInv, WillBePublished, Publishing, Calm

\* Prometheus is told of every job and every address.
LEMMA CalmIsExpanded ==
    ASSUME IInv, Calm, kind = "metrics-endpoint", NEW r \in exists
    PROVE  Deduplicated(Expanded(r)) = Current(r)
<1> DEFINE jobs == published[r].jobs
           hosts == {u \in present : host[r][u] # 0}
<1>1. {jobs[k] : k \in DOMAIN jobs} = JobNames(option)
  BY CalmIsPublished DEF IsPublished
<1>2. \A u \in present : host[r][u] = address[u] /\ address[u] # 0
  <2>1. present \subseteq Units /\ "idle" \notin AddressEvents
    BY DEF IInv, TypeOK, AddressEvents, MetricsEvents
  <2>2. QED
    BY <2>1 DEF IInv, AddressInv, TypeOK, Calm
<1>3. hosts = present
  BY <1>2
<1>4. {<<jobs[k], u, host[r][u]>> : k \in DOMAIN jobs, u \in hosts}
        = {<<j, u, address[u]>> : j \in JobNames(option), u \in present}
  BY <1>1, <1>2, <1>3
<1>5. DOMAIN Expanded(r) = {<<j, u, address[u]>> : j \in JobNames(option), u \in present}
  BY <1>4 DEF Expanded
<1>6. QED
  BY <1>5 DEF Deduplicated, Current, JobNames

\* Grafana's leader has stored what our leader publishes.
LEMMA CalmIsRendered ==
    ASSUME IInv, Calm, kind = "grafana-dashboard", NEW r \in exists
    PROVE  /\ stored[r] = Current(r)
           /\ report[r] <=> revision[leader] \in InvalidRevisions
<1>1. r \in Served /\ head[r] \in Servers /\ leader \in Units
  BY DEF IInv, TypeOK
<1>2. published[r] = [jobs |-> << >>, revision |-> revision[leader], unit |-> leader]
  BY CalmIsPublished DEF IsPublished
<1>3. published[r].revision = revision[leader] /\ published[r].unit # NONE
  BY <1>1, <1>2, UnitsAssumption
<1>4. published[r] # Nothing
  BY <1>3 DEF Nothing
<1>5. IsRendered(r)
  BY <1>1, <1>4 DEF IInv, RenderedInv, Calm
<1>6. QED
  BY <1>2, <1>3, <1>5 DEF IsRendered, Current

\* Prometheus scrapes every unit, once for each job, and every unit of Grafana shows what the
\* leader's charm has, whatever hooks failed, pods moved or leaders changed, once no event is left.
THEOREM MonitoringCurrent == Spec => []MonitoringIsCurrent
<1>1. IInv => MonitoringIsCurrent
  <2> SUFFICES ASSUME IInv, Calm, NEW s \in Servers
               PROVE  shown[s] = IF RelationOf(s) \in exists THEN Current(RelationOf(s))
                                 ELSE IF kind = "metrics-endpoint" THEN NoTargets ELSE NONE
    BY DEF MonitoringIsCurrent
  <2>1. notices[s] = {} /\ kind \in AllKinds /\ RelationOf(s) \in Served
    BY ServedFacts DEF Calm, IInv
  <2>2. CASE kind = "metrics-endpoint"
    <3>1. IF RelationOf(s) \in exists
          THEN shown[s] = Deduplicated(Expanded(RelationOf(s))) ELSE shown[s] = NoTargets
      BY <2>1, <2>2 DEF IInv, ScrapedInv
    <3>2. QED
      BY <2>2, <3>1, CalmIsExpanded
  <2>3. CASE kind = "grafana-dashboard"
    <3>1. shown[s] = stored[RelationOf(s)]
      BY <2>1, <2>3 DEF IInv, ShownInv
    <3>2. RelationOf(s) \notin exists => stored[RelationOf(s)] = NONE
      BY <2>1, <2>3 DEF IInv, RenderedInv, TypeOK, Calm
    <3>3. QED
      BY <2>3, <3>1, <3>2, CalmIsRendered
  <2>4. QED
    BY <2>1, <2>2, <2>3 DEF AllKinds
<1>2. QED
  BY <1>1, Invariance, PTL

\* Grafana reports errors in a relation if and only if the dashboards of the leader's charm have
\* some, once no event is left.
THEOREM ReportsCurrent == Spec => []ReportsAreCurrent
<1>1. IInv => ReportsAreCurrent
  BY CalmIsRendered DEF ReportsAreCurrent
<1>2. QED
  BY <1>1, Invariance, PTL
=============================================================================
