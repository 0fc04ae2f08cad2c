------------------------- MODULE IntegrationsProofs -------------------------
(***************************************************************************)
(* Theorems about Integrations for any units on both sides, any            *)
(* certificates, every kind of relation and any bounds.                    *)
(***************************************************************************)
EXTENDS Integrations, TLAPS

(***************************************************************************)
(* The life of a relation: all units see it from its beginning to their    *)
(* hook for its end, and a unit that does not see it writes nothing to it. *)
(***************************************************************************)
Events == RelationEvents \union {"broken", "secret", "ready", "config"}

NothingWritten == [bag |-> EmptyDatabag, ours |-> 0]

TypeOK ==
    /\ kind \in AllKinds
    /\ leader \in Units
    /\ up \subseteq Units
    /\ related \subseteq Units
    /\ exists \in BOOLEAN
    /\ secrets \in Seq(Nat)
    /\ ours \in Nat
    /\ wanted \in Nat \ {0}
    /\ DOMAIN bag = Units /\ DOMAIN tracks = Units /\ DOMAIN applied = Units
    /\ due \in [Units -> SUBSET Events]
    /\ hook \in [Units -> Events \union {"idle"}]
    /\ DOMAIN pending = Units /\ \A u \in Units : pending[u].ours \in Nat
    /\ changes \in Nat /\ elections \in Nat

LifeInv ==
    /\ exists => related = Units
    /\ \A u \in related : hook[u] # "broken" /\ ("broken" \in due[u] <=> ~exists)
    /\ \A u \in Units : hook[u] = "idle" \/ u \notin related => pending[u] = NothingWritten

Base == TypeOK /\ LifeInv

LEMMA ObservedEvents == kind \in AllKinds => Observed \subseteq Events
BY DEF AllKinds, InputKinds, CredentialKinds, Observed, Events, RelationEvents

\* What units are told of is added to what they have yet to handle.
LEMMA TellFacts ==
    ASSUME TypeOK, NEW units, NEW event, Tell(units, event)
    PROVE  /\ due' \in [Units -> SUBSET Events]
           /\ \A u \in Units :
                /\ due[u] \subseteq due'[u]
                /\ due'[u] \subseteq due[u] \union {event}
                /\ u \in units /\ event \in Observed => event \in due'[u]
<1>1. due' = [u \in Units |-> IF u \in units THEN due[u] \union ({event} \intersect Observed)
                              ELSE due[u]]
  BY DEF Tell
<1>2. {event} \intersect Observed \subseteq Events
  BY ObservedEvents DEF TypeOK
<1>3. QED
  BY <1>1, <1>2 DEF TypeOK

\* A hook that begins comes to what it does for the relation, or ends its reconciliation before.
Arrives(u, event) ==
    /\ applied'[u] \in Outcomes(u, event)
    /\ tracks'[u] = tracks[u] \union SecretsRead(u, event, TRUE)
    /\ pending'[u].ours = IF Publishes(u, event) THEN Wanted ELSE 0
    /\ u \in missed' <=> u \in missed /\ ~(u \in up /\ Reconciles(u, event))
Stops(u, event) ==
    /\ kind # "logging" /\ u \in up
    /\ applied'[u] = applied[u]
    /\ pending'[u].ours \in {0, IF Publishes(u, event) THEN Wanted ELSE 0}
    /\ kind # "traefik-route" => pending'[u].ours = IF Publishes(u, event) THEN Wanted ELSE 0
    /\ u \in missed'

\* It changes its own unit only.
LEMMA BeginFacts ==
    ASSUME TypeOK, NEW u \in Units, NEW event, Begin(u, event)
    PROVE  /\ hook[u] = "idle" /\ event \in due[u] /\ event \in Events
           /\ hook' \in [Units -> Events \union {"idle"}] /\ hook'[u] = event
           /\ due' \in [Units -> SUBSET Events] /\ due'[u] = due[u] \ {event}
           /\ related' = IF event = "broken" THEN related \ {u} ELSE related
           /\ DOMAIN pending' = Units
           /\ pending'[u].bag = BagWritten(u, event)
           /\ ~InRelation(u, event) => pending'[u] = NothingWritten
           /\ DOMAIN applied' = Units /\ DOMAIN tracks' = Units
           /\ Arrives(u, event) \/ Stops(u, event)
           /\ \A v \in Units \ {u} :
                /\ hook'[v] = hook[v] /\ due'[v] = due[v] /\ pending'[v] = pending[v]
                /\ applied'[v] = applied[v] /\ tracks'[v] = tracks[v]
                /\ v \in missed' <=> v \in missed
<1>1. hook[u] = "idle" /\ event \in due[u]
  BY DEF Begin
<1>2. event \in Events
  BY <1>1 DEF TypeOK
<1>3. /\ hook' = [hook EXCEPT ![u] = event]
      /\ due' = [due EXCEPT ![u] = @ \ {event}]
      /\ related' = IF event = "broken" THEN related \ {u} ELSE related
  BY DEF Begin
<1>4. PICK arrives \in Arrivals(u, event) :
        /\ \E outcome \in IF arrives THEN Outcomes(u, event) ELSE {applied[u]} :
              applied' = [applied EXCEPT ![u] = outcome]
        /\ tracks' = [tracks EXCEPT ![u] = @ \union SecretsRead(u, event, arrives)]
        /\ pending' = [pending EXCEPT ![u] =
              [bag |-> BagWritten(u, event),
               ours |-> IF Publishes(u, event) /\ (kind = "traefik-route" => arrives)
                        THEN Wanted ELSE 0]]
        /\ missed' = IF ~arrives THEN missed \union {u}
                     ELSE IF u \in up /\ Reconciles(u, event) THEN missed \ {u}
                     ELSE missed
  BY DEF Begin
<1>5. PICK outcome \in IF arrives THEN Outcomes(u, event) ELSE {applied[u]} :
        applied' = [applied EXCEPT ![u] = outcome]
  BY <1>4
<1>6. /\ DOMAIN pending' = Units
      /\ pending'[u].ours = IF Publishes(u, event) /\ (kind = "traefik-route" => arrives)
                            THEN Wanted ELSE 0
      /\ pending'[u].bag = BagWritten(u, event)
      /\ \A v \in Units \ {u} : pending'[v] = pending[v]
  BY <1>4 DEF TypeOK
<1>7. ~InRelation(u, event) => pending'[u] = NothingWritten
  BY <1>4 DEF TypeOK, BagWritten, Publishes, NothingWritten
<1>8. /\ hook' \in [Units -> Events \union {"idle"}] /\ hook'[u] = event
      /\ due' \in [Units -> SUBSET Events] /\ due'[u] = due[u] \ {event}
      /\ \A v \in Units \ {u} : hook'[v] = hook[v] /\ due'[v] = due[v]
  BY <1>2, <1>3 DEF TypeOK
<1>9. /\ DOMAIN applied' = Units /\ applied'[u] = outcome
      /\ \A v \in Units \ {u} : applied'[v] = applied[v]
  BY <1>5 DEF TypeOK
<1>10. /\ DOMAIN tracks' = Units /\ tracks'[u] = tracks[u] \union SecretsRead(u, event, arrives)
       /\ \A v \in Units \ {u} : tracks'[v] = tracks[v]
  BY <1>4 DEF TypeOK
<1>11. \A v \in Units \ {u} : v \in missed' <=> v \in missed
  BY <1>4
<1>12. CASE arrives
  <2>1. arrives = TRUE
    BY <1>12 DEF Arrivals
  <2>2. Arrives(u, event)
    BY <1>4, <1>5, <1>6, <1>9, <1>10, <2>1 DEF Arrives
  <2>3. QED
    BY <1>1, <1>2, <1>3, <1>6, <1>7, <1>8, <1>9, <1>10, <1>11, <2>2
<1>13. CASE ~arrives
  <2>1. Stops(u, event)
    BY <1>4, <1>5, <1>6, <1>9, <1>13 DEF Stops, Arrivals
  <2>2. QED
    BY <1>1, <1>2, <1>3, <1>6, <1>7, <1>8, <1>9, <1>10, <1>11, <2>1
<1>14. QED
  BY <1>12, <1>13

\* So does one that ends or fails.
LEMMA LeaveFacts ==
    ASSUME TypeOK, NEW u \in Units, Leave(u)
    PROVE  /\ hook' \in [Units -> Events \union {"idle"}] /\ hook'[u] = "idle"
           /\ DOMAIN pending' = Units /\ pending'[u] = NothingWritten
           /\ \A v \in Units \ {u} : hook'[v] = hook[v] /\ pending'[v] = pending[v]
BY DEF Leave, TypeOK, NothingWritten

LEMMA FailFacts ==
    ASSUME TypeOK, NEW u \in Units, Fail(u)
    PROVE  /\ hook[u] \in Events
           /\ due' \in [Units -> SUBSET Events] /\ due'[u] = due[u] \union {hook[u]}
           /\ \A v \in Units \ {u} : due'[v] = due[v]
<1>1. hook[u] \in Events
  BY DEF Fail, TypeOK
<1>2. due' = [due EXCEPT ![u] = @ \union {hook[u]}]
  BY DEF Fail
<1>3. QED
  BY <1>1, <1>2 DEF TypeOK

\* A secret that is given keeps those before it.
LEMMA SecretsFacts ==
    ASSUME secrets \in Seq(Nat), NEW b, NEW field, NEW value \in Nat
    PROVE  /\ SecretsAfter(b, secrets, field, value) \in Seq(Nat)
           /\ DOMAIN secrets \subseteq DOMAIN SecretsAfter(b, secrets, field, value)
<1>1. CASE field \in DOMAIN b
  <2>1. SecretsAfter(b, secrets, field, value) = [secrets EXCEPT ![b[field]] = value]
    BY <1>1 DEF SecretsAfter
  <2>2. /\ DOMAIN secrets = 1..Len(secrets) /\ Len(secrets) \in Nat
        /\ secrets \in [1..Len(secrets) -> Nat]
    OBVIOUS
  <2>3. [secrets EXCEPT ![b[field]] = value] \in [1..Len(secrets) -> Nat]
    BY <2>2
  <2>4. [secrets EXCEPT ![b[field]] = value] \in Seq(Nat)
    BY <2>2, <2>3
  <2>5. QED
    BY <2>1, <2>2, <2>3, <2>4
<1>2. CASE field \notin DOMAIN b
  <2>1. SecretsAfter(b, secrets, field, value) = Append(secrets, value)
    BY <1>2 DEF SecretsAfter
  <2>2. QED
    BY <2>1
<1>3. QED
  BY <1>1, <1>2

\* The other application leaves our side alone, and tells us what it changes.
LEMMA ProvideFacts ==
    ASSUME TypeOK, Provide
    PROVE  /\ ourVars' = ourVars
           /\ exists
           /\ secrets' \in Seq(Nat) /\ changes' \in Nat /\ changes <= changes'
           /\ due' \in [Units -> SUBSET Events]
           /\ \A u \in Units :
                due[u] \subseteq due'[u] /\ ("broken" \in due'[u] => "broken" \in due[u])
<1>1. ASSUME NEW units, NEW event, Tell(units, event), event # "broken"
      PROVE  /\ due' \in [Units -> SUBSET Events]
             /\ \A u \in Units :
                  due[u] \subseteq due'[u] /\ ("broken" \in due'[u] => "broken" \in due[u])
  BY <1>1, TellFacts
<1>2. CASE Announce
  BY <1>1, <1>2 DEF Announce, TypeOK
<1>3. CASE Answer
  <2>1. ourVars' = ourVars /\ exists /\ changes' = changes /\ Tell(related, "changed")
    BY <1>3 DEF Answer
  <2>2. \A b, field : SecretsAfter(b, secrets, field, changes + 1) \in Seq(Nat)
    BY SecretsFacts DEF TypeOK
  <2>3. secrets' \in Seq(Nat)
    BY <1>3, <2>2 DEF Answer, TypeOK
  <2>4. QED
    BY <1>1, <2>1, <2>3 DEF TypeOK
<1>4. CASE ChangeCredentials
  <2>1. ourVars' = ourVars /\ exists /\ changes' = changes + 1
    BY <1>4 DEF ChangeCredentials, Changes
  <2>2. \A b, field : SecretsAfter(b, secrets, field, changes + 2) \in Seq(Nat)
    BY SecretsFacts DEF TypeOK
  <2>3. secrets' \in Seq(Nat)
    BY <1>4, <2>2 DEF ChangeCredentials, TypeOK
  <2>4. \E units : Tell(units, "secret") \/ Tell(units, "changed")
    BY <1>4 DEF ChangeCredentials
  <2>5. QED
    BY <1>1, <2>1, <2>3, <2>4 DEF TypeOK
<1>5. CASE ChangeEndpoints
  BY <1>1, <1>5 DEF ChangeEndpoints, Changes, TypeOK
<1>6. CASE Transfer
  BY <1>1, <1>6 DEF Transfer, Changes, TypeOK
<1>7. ASSUME NEW r, RemoteJoins(r) \/ RemotePublishes(r) \/ RemoteDeparts(r)
      PROVE  /\ ourVars' = ourVars
             /\ exists
             /\ secrets' = secrets /\ changes' \in {changes, changes + 1}
             /\ \E event \in {"joined", "changed", "departed"} : Tell(related, event)
  BY <1>7 DEF RemoteJoins, RemotePublishes, RemoteDeparts, Changes
<1>8. CASE \E r \in RemoteUnits : RemoteJoins(r) \/ RemotePublishes(r) \/ RemoteDeparts(r)
  BY <1>1, <1>7, <1>8 DEF TypeOK
<1>9. QED
  BY <1>2, <1>3, <1>4, <1>5, <1>6, <1>8 DEF Provide

\* Every action keeps the types and the life of the relation.
LEMMA BaseStep == Base /\ [Next]_vars => Base'
<1> SUFFICES ASSUME Base, [Next]_vars PROVE Base'
  OBVIOUS
<1> USE DEF Base
<1>1. CASE UNCHANGED vars
  BY <1>1 DEF vars, sideVars, hookVars, bounds, TypeOK, LifeInv
<1>2. ASSUME NEW u \in Units, NEW event \in due[u], Begin(u, event)
      PROVE  Base'
  <2>1. /\ kind' = kind /\ leader' = leader /\ up' = up /\ exists' = exists /\ secrets' = secrets
        /\ ours' = ours /\ wanted' = wanted /\ bag' = bag
        /\ changes' = changes /\ elections' = elections
    BY <1>2 DEF Begin, sideVars, bounds
  <2>2. Wanted \in Nat
    BY DEF Wanted, TypeOK
  <2>3. TypeOK'
    <3>1. Arrives(u, event) \/ Stops(u, event)
      BY <1>2, BeginFacts
    <3>2. pending'[u].ours \in {0, Wanted}
      BY <3>1 DEF Arrives, Stops
    <3>3. /\ hook' \in [Units -> Events \union {"idle"}] /\ due' \in [Units -> SUBSET Events]
          /\ related' \subseteq related
          /\ DOMAIN pending' = Units /\ DOMAIN applied' = Units /\ DOMAIN tracks' = Units
          /\ \A v \in Units \ {u} : pending'[v] = pending[v]
      BY <1>2, BeginFacts
    <3>4. QED
      BY <2>1, <2>2, <3>2, <3>3 DEF TypeOK
  <2>4. /\ related' = IF event = "broken" THEN related \ {u} ELSE related
        /\ hook'[u] = event /\ due'[u] = due[u] \ {event}
        /\ hook[u] = "idle" /\ event \in due[u]
        /\ event # "idle"
        /\ ~InRelation(u, event) => pending'[u] = NothingWritten
        /\ \A v \in Units \ {u} :
             hook'[v] = hook[v] /\ due'[v] = due[v] /\ pending'[v] = pending[v]
    BY <1>2, BeginFacts DEF Events, RelationEvents
  <2>5. exists' => related' = Units
    BY <2>1, <2>4 DEF LifeInv, TypeOK
  <2>6. \A v \in related' : hook'[v] # "broken" /\ ("broken" \in due'[v] <=> ~exists')
    BY <2>1, <2>4 DEF LifeInv, TypeOK
  <2>7. \A v \in Units : hook'[v] = "idle" \/ v \notin related' => pending'[v] = NothingWritten
    <3>1. hook'[u] = "idle" \/ u \notin related' => ~InRelation(u, event)
      BY <2>4 DEF InRelation
    <3>2. QED
      BY <2>4, <3>1 DEF LifeInv
  <2>8. QED
    BY <2>3, <2>5, <2>6, <2>7 DEF LifeInv
<1>3. ASSUME NEW u \in Units, End(u)
      PROVE  Base'
  <2>1. /\ kind' = kind /\ leader' = leader /\ up' = up /\ exists' = exists /\ secrets' = secrets
        /\ wanted' = wanted /\ related' = related /\ tracks' = tracks /\ applied' = applied
        /\ due' = due /\ changes' = changes /\ elections' = elections /\ Leave(u)
    BY <1>3 DEF End, sideVars, bounds
  <2>2. ours' \in Nat /\ DOMAIN bag' = Units
    BY <1>3 DEF End, TypeOK
  <2>3. TypeOK'
    BY <2>1, <2>2, LeaveFacts DEF TypeOK, NothingWritten
  <2>4. LifeInv'
    BY <2>1, LeaveFacts DEF LifeInv, TypeOK
  <2>5. QED
    BY <2>3, <2>4
<1>4. ASSUME NEW u \in Units, Fail(u)
      PROVE  Base'
  <2>1. /\ kind' = kind /\ leader' = leader /\ up' = up /\ exists' = exists /\ secrets' = secrets
        /\ ours' = ours /\ wanted' = wanted /\ related' = related /\ bag' = bag
        /\ tracks' = tracks /\ applied' = applied
        /\ changes' = changes /\ elections' = elections /\ Leave(u)
    BY <1>4 DEF Fail, sideVars
  <2>2. TypeOK'
    BY <1>4, <2>1, LeaveFacts, FailFacts DEF TypeOK, NothingWritten
  <2>3. LifeInv'
    BY <1>4, <2>1, LeaveFacts, FailFacts DEF LifeInv, TypeOK
  <2>4. QED
    BY <2>2, <2>3
<1>5. ASSUME NEW u \in Units, Elect(u)
      PROVE  Base'
  BY <1>5 DEF Elect, sideVars, hookVars, TypeOK, LifeInv
<1>6. ASSUME NEW u \in Units, Start(u)
      PROVE  Base'
  <2>1. /\ kind' = kind /\ leader' = leader /\ up' = up \union {u} /\ exists' = exists
        /\ secrets' = secrets /\ ours' = ours /\ wanted' = wanted /\ related' = related
        /\ bag' = bag /\ tracks' = tracks /\ applied' = applied /\ hook' = hook
        /\ pending' = pending /\ changes' = changes /\ elections' = elections
        /\ Tell({u}, "ready")
    BY <1>6 DEF Start, sideVars, bounds
  <2>2. QED
    BY <2>1, TellFacts DEF TypeOK, LifeInv
<1>7. ASSUME NEW u \in Units, Replace(u)
      PROVE  Base'
  BY <1>7 DEF Replace, sideVars, hookVars, TypeOK, LifeInv
<1>8. CASE Provide
  BY <1>8, ProvideFacts DEF ourVars, TypeOK, LifeInv
<1>9. CASE Relate
  <2>1. /\ kind' = kind /\ leader' = leader /\ up' = up /\ exists' = TRUE /\ related' = Units
        /\ secrets' = secrets /\ ours' = 0 /\ wanted' = wanted /\ applied' = applied
        /\ hook' = hook /\ pending' = pending /\ changes' = changes /\ elections' = elections
        /\ DOMAIN bag' = Units /\ DOMAIN tracks' = Units
        /\ related = {} /\ \A u \in Units : hook[u] # "broken" /\ "broken" \notin due[u]
    BY <1>9 DEF Relate
  <2>2. due' = [u \in Units |-> due[u] \union ({"created", "joined", "changed"} \intersect Observed)]
    BY <1>9 DEF Relate
  <2>3. due' \in [Units -> SUBSET Events] /\ \A u \in Units : "broken" \notin due'[u]
    BY <2>1, <2>2, ObservedEvents DEF TypeOK
  <2>4. QED
    BY <2>1, <2>3 DEF TypeOK, LifeInv
<1>10. CASE Break
  <2>1. /\ kind' = kind /\ leader' = leader /\ up' = up /\ exists' = FALSE /\ related' = related
        /\ secrets' = secrets /\ ours' = ours /\ wanted' = wanted /\ applied' = applied
        /\ hook' = hook /\ pending' = pending /\ changes' = changes + 1 /\ elections' = elections
        /\ bag' = bag /\ tracks' = tracks
    BY <1>10 DEF Break, Changes
  <2>2. due' = [u \in Units |-> (due[u] \ RelationEvents) \union {"broken"}]
    BY <1>10 DEF Break
  <2>3. due' \in [Units -> SUBSET Events] /\ \A u \in Units : "broken" \in due'[u]
    BY <2>2 DEF TypeOK, Events
  <2>4. TypeOK'
    <3>1. exists' \in BOOLEAN
      BY <2>1, Zenon
    <3>2. changes' \in Nat
      BY <2>1 DEF TypeOK
    <3>3. QED
      BY <2>1, <2>3, <3>1, <3>2 DEF TypeOK
  <2>5. \A u \in related' : hook'[u] # "broken" /\ ("broken" \in due'[u] <=> ~exists')
    BY <2>1, <2>3 DEF TypeOK, LifeInv
  <2>6. QED
    BY <2>1, <2>4, <2>5 DEF LifeInv
<1>11. CASE Reconfigure
  BY <1>11, TellFacts DEF Reconfigure, sideVars, TypeOK, LifeInv
<1>12. QED
  BY <1>1, <1>2, <1>3, <1>4, <1>5, <1>6, <1>7, <1>8, <1>9, <1>10, <1>11 DEF Next, Handle

LEMMA BaseInit == Init => Base
<1> SUFFICES ASSUME Init PROVE Base
  OBVIOUS
<1>1. /\ kind \in AllKinds /\ leader \in Units /\ up = {} /\ exists = FALSE /\ related = {}
      /\ secrets = << >> /\ ours = 0 /\ wanted = 1 /\ changes = 0 /\ elections = 0
  BY KindsAssumption DEF Init
<1>2. due \in [Units -> SUBSET Events] /\ hook \in [Units -> Events \union {"idle"}]
  BY DEF Init
<1>3. DOMAIN pending = Units /\ \A u \in Units : pending[u] = NothingWritten
  BY DEF Init, NothingWritten
<1>4. DOMAIN bag = Units /\ DOMAIN tracks = Units /\ DOMAIN applied = Units
  BY DEF Init
<1>5. exists \in BOOLEAN
  BY <1>1, Zenon
<1>6. TypeOK
  <2>1. secrets \in Seq(Nat) /\ up \subseteq Units /\ related \subseteq Units
    BY <1>1
  <2>2. \A u \in Units : pending[u].ours \in Nat
    BY <1>3 DEF NothingWritten
  <2>3. QED
    BY <1>1, <1>2, <1>3, <1>4, <1>5, <2>1, <2>2 DEF TypeOK
<1>7. QED
  BY <1>1, <1>3, <1>6 DEF Base, LifeInv

(***************************************************************************)
(* What the leader publishes.                                              *)
(***************************************************************************)
PublishingEvents ==
    IF kind = "traefik-route" THEN {"config", "ready", "secret", "joined", "changed"}
    ELSE PublicationEvents

\* As long as leadership does not move: only the leader's hook writes; what it writes is wanted,
\* or a newer configuration waits for its next hook; and what is wanted is there, in the hand of
\* the leader's hook, or published by an event that the leader has yet to handle.
OnlyLeaderWrites == \A u \in Units \ {leader} : pending[u].ours = 0
WritesInHand == \A u \in Units : pending[u].ours # 0 => hook[u] \in PublishingEvents
WritesAreWanted ==
    \/ pending[leader].ours \in {0, Wanted}
    \/ kind = "traefik-route" /\ "config" \in due[leader]
PublicationFollows ==
    kind \in Publishers /\ exists /\ (kind = "traefik-route" => leader \in up \ missed) =>
        \/ ours = Wanted
        \/ pending[leader].ours = Wanted
        \/ due[leader] \intersect PublishingEvents # {}

PublicationInv ==
    elections = 0 => OnlyLeaderWrites /\ WritesInHand /\ WritesAreWanted /\ PublicationFollows

LEMMA PublishingFacts ==
    ASSUME TypeOK
    PROVE  /\ Wanted \in Nat \ {0}
           /\ "idle" \notin PublishingEvents /\ "broken" \notin PublishingEvents
           /\ \A u, event : InRelation(u, event) =>
                (Publishes(u, event) <=> /\ u = leader /\ event \in PublishingEvents
                                         /\ kind = "traefik-route" => u \in up)
<1>1. Wanted \in Nat \ {0}
  BY DEF TypeOK, Wanted
<1>2. "idle" \notin PublishingEvents /\ "broken" \notin PublishingEvents
  BY DEF PublishingEvents, PublicationEvents
<1>3. ASSUME NEW u, NEW event, InRelation(u, event)
      PROVE  Publishes(u, event) <=> /\ u = leader /\ event \in PublishingEvents
                                     /\ kind = "traefik-route" => u \in up
  <2>1. CASE kind = "traefik-route"
    <3>1. Emits(u)
      BY <2>1 DEF Emits
    <3>2. Reconciles(u, event) <=> event \in PublishingEvents
      BY <1>3, <2>1, <3>1 DEF Reconciles, PublishingEvents, InRelation
    <3>3. QED
      BY <1>3, <2>1, <3>2 DEF Publishes
  <2>2. CASE kind # "traefik-route"
    BY <1>3, <2>2 DEF Publishes, PublishingEvents
  <2>3. QED
    BY <2>1, <2>2
<1>4. QED
  BY <1>1, <1>2, <1>3

LEMMA PublicationStep == Base /\ PublicationInv /\ [Next]_vars => PublicationInv'
<1> SUFFICES ASSUME Base, PublicationInv, [Next]_vars, elections' = 0
             PROVE  OnlyLeaderWrites' /\ WritesInHand' /\ WritesAreWanted' /\ PublicationFollows'
  BY DEF PublicationInv
<1> DEFINE Goal == OnlyLeaderWrites' /\ WritesInHand' /\ WritesAreWanted' /\ PublicationFollows'
<1> USE DEF Base
<1>0. elections \in Nat /\ leader \in Units
  BY DEF TypeOK
<1>a. /\ kind' = kind => PublishingEvents' = PublishingEvents
      /\ kind' = kind /\ wanted' = wanted => Wanted' = Wanted
      /\ Publishers' = Publishers
  BY DEF PublishingEvents, PublicationEvents, Wanted, Publishers
<1>1. CASE UNCHANGED vars
  BY <1>1, <1>a DEF vars, sideVars, hookVars, bounds, PublicationInv, OnlyLeaderWrites, WritesInHand,
       WritesAreWanted, PublicationFollows
<1>2. ASSUME NEW u \in Units, NEW event \in due[u], Begin(u, event)
      PROVE  Goal
  <2>1. /\ kind' = kind /\ leader' = leader /\ up' = up /\ exists' = exists
        /\ ours' = ours /\ wanted' = wanted /\ elections' = elections
    BY <1>2 DEF Begin, bounds
  <2>2. OnlyLeaderWrites /\ WritesInHand /\ WritesAreWanted /\ PublicationFollows
    BY <2>1 DEF PublicationInv
  <2>3. /\ hook[u] = "idle" /\ event \in due[u] /\ hook'[u] = event /\ due'[u] = due[u] \ {event}
        /\ pending'[u].ours \in {0, IF Publishes(u, event) THEN Wanted ELSE 0}
        /\ (kind = "traefik-route" => u \notin missed') =>
             pending'[u].ours = IF Publishes(u, event) THEN Wanted ELSE 0
        /\ u \in missed /\ u \notin missed' => u \in up /\ Reconciles(u, event)
        /\ ~InRelation(u, event) => pending'[u].ours = 0
        /\ \A v \in Units \ {u} :
             /\ hook'[v] = hook[v] /\ due'[v] = due[v] /\ pending'[v] = pending[v]
             /\ v \in missed' <=> v \in missed
    <3>1. Arrives(u, event) \/ Stops(u, event)
      BY <1>2, BeginFacts
    <3>2. /\ pending'[u].ours \in {0, IF Publishes(u, event) THEN Wanted ELSE 0}
          /\ (kind = "traefik-route" => u \notin missed') =>
               pending'[u].ours = IF Publishes(u, event) THEN Wanted ELSE 0
          /\ u \in missed /\ u \notin missed' => u \in up /\ Reconciles(u, event)
      BY <3>1 DEF Arrives, Stops
    <3>3. QED
      BY <1>2, <3>2, BeginFacts DEF NothingWritten
  <2>4. pending[u].ours = 0
    BY <2>3 DEF LifeInv, NothingWritten
  <2>5. OnlyLeaderWrites'
    BY <2>1, <2>2, <2>3 DEF OnlyLeaderWrites, Publishes
  <2>6. WritesInHand'
    <3>1. pending'[u].ours # 0 => event \in PublishingEvents
      BY <2>3, PublishingFacts
    <3>2. QED
      BY <1>a, <2>1, <2>2, <2>3, <3>1 DEF WritesInHand
  <2>7. WritesAreWanted'
    <3>1. CASE u = leader
      BY <1>a, <2>1, <2>3, <3>1 DEF WritesAreWanted
    <3>2. CASE u # leader
      BY <1>0, <1>a, <2>1, <2>2, <2>3, <3>2 DEF WritesAreWanted
    <3>3. QED
      BY <3>1, <3>2
  <2>8. PublicationFollows'
    <3>1. CASE u = leader
      <4> SUFFICES ASSUME kind \in Publishers, exists,
                          kind = "traefik-route" => leader \in up \ missed',
                          ours # Wanted
                   PROVE  \/ pending'[leader].ours = Wanted
                          \/ due'[leader] \intersect PublishingEvents # {}
        BY <1>a, <2>1 DEF PublicationFollows
      <4>1. pending'[u].ours = IF Publishes(u, event) THEN Wanted ELSE 0
        BY <2>3, <3>1
      <4>2. InRelation(u, event)
        BY <2>3 DEF InRelation, LifeInv
      <4>3. CASE Publishes(u, event)
        BY <3>1, <4>1, <4>3
      <4>4. CASE ~Publishes(u, event)
        <5>1. event \notin PublishingEvents
          BY <3>1, <4>2, <4>4, PublishingFacts
        <5>2. kind = "traefik-route" => leader \notin missed
          BY <2>3, <3>1, <4>2, <4>4 DEF Publishes
        <5>3. due[leader] \intersect PublishingEvents # {}
          BY <2>2, <2>4, <3>1, <5>2, PublishingFacts DEF PublicationFollows
        <5>4. QED
          BY <2>3, <3>1, <5>1, <5>3
      <4>5. QED
        BY <4>3, <4>4
    <3>2. CASE u # leader
      BY <1>0, <1>a, <2>1, <2>2, <2>3, <3>2 DEF PublicationFollows
    <3>3. QED
      BY <3>1, <3>2
  <2>9. QED
    BY <2>5, <2>6, <2>7, <2>8
<1>3. ASSUME NEW u \in Units, End(u)
      PROVE  Goal
  <2>1. /\ kind' = kind /\ leader' = leader /\ up' = up /\ exists' = exists /\ due' = due
        /\ ours' = (IF pending[u].ours # 0 THEN pending[u].ours ELSE ours)
        /\ wanted' = wanted /\ elections' = elections /\ missed' = missed /\ Leave(u)
    BY <1>3 DEF End, bounds
  <2>2. OnlyLeaderWrites /\ WritesInHand /\ WritesAreWanted /\ PublicationFollows
    BY <2>1 DEF PublicationInv
  <2>3. /\ pending'[u].ours = 0
        /\ \A v \in Units \ {u} : hook'[v] = hook[v] /\ pending'[v] = pending[v]
    BY <2>1, LeaveFacts DEF NothingWritten
  <2>4. OnlyLeaderWrites' /\ WritesInHand' /\ WritesAreWanted'
    BY <1>0, <1>a, <2>1, <2>2, <2>3 DEF OnlyLeaderWrites, WritesInHand, WritesAreWanted
  <2>5. PublicationFollows'
    <3>1. CASE u = leader
      <4>1. "config" \in due[leader] /\ kind = "traefik-route"
              => due[leader] \intersect PublishingEvents # {}
        BY DEF PublishingEvents
      <4>2. QED
        BY <1>a, <2>1, <2>2, <2>3, <3>1, <4>1, PublishingFacts
           DEF PublicationFollows, WritesAreWanted
    <3>2. CASE u # leader
      BY <1>0, <1>a, <2>1, <2>2, <2>3, <3>2 DEF PublicationFollows, OnlyLeaderWrites
    <3>3. QED
      BY <3>1, <3>2
  <2>6. QED
    BY <2>4, <2>5
<1>4. ASSUME NEW u \in Units, Fail(u)
      PROVE  Goal
  <2>1. /\ kind' = kind /\ leader' = leader /\ up' = up /\ exists' = exists
        /\ ours' = ours /\ wanted' = wanted /\ elections' = elections /\ missed' = missed
        /\ Leave(u)
    BY <1>4 DEF Fail
  <2>2. OnlyLeaderWrites /\ WritesInHand /\ WritesAreWanted /\ PublicationFollows
    BY <2>1 DEF PublicationInv
  <2>3. /\ pending'[u].ours = 0 /\ due'[u] = due[u] \union {hook[u]}
        /\ \A v \in Units \ {u} :
             hook'[v] = hook[v] /\ due'[v] = due[v] /\ pending'[v] = pending[v]
    BY <1>4, <2>1, LeaveFacts, FailFacts DEF NothingWritten
  <2>4. OnlyLeaderWrites' /\ WritesInHand' /\ WritesAreWanted'
    BY <1>0, <1>a, <2>1, <2>2, <2>3 DEF OnlyLeaderWrites, WritesInHand, WritesAreWanted
  <2>5. PublicationFollows'
    BY <1>0, <1>a, <2>1, <2>2, <2>3, PublishingFacts DEF PublicationFollows, WritesInHand
  <2>6. QED
    BY <2>4, <2>5
<1>5. ASSUME NEW u \in Units, Elect(u)
      PROVE  Goal
  BY <1>0, <1>5 DEF Elect
<1>b. ASSUME kind' = kind, leader' = leader, exists' => exists, ours' = ours,
             wanted' = wanted, elections' = elections, hook' = hook, pending' = pending,
             missed' = missed, due[leader] \subseteq due'[leader],
             leader \in up' => leader \in up \/ "ready" \in due'[leader]
      PROVE  Goal
  <2>1. OnlyLeaderWrites /\ WritesInHand /\ WritesAreWanted /\ PublicationFollows
    BY <1>b DEF PublicationInv
  <2>2. OnlyLeaderWrites' /\ WritesInHand' /\ WritesAreWanted'
    BY <1>a, <1>b, <2>1 DEF OnlyLeaderWrites, WritesInHand, WritesAreWanted
  <2>3. kind = "traefik-route" => "ready" \in PublishingEvents
    BY DEF PublishingEvents
  <2>4. PublicationFollows'
    BY <1>a, <1>b, <2>1, <2>3 DEF PublicationFollows
  <2>5. QED
    BY <2>2, <2>4
<1>6. ASSUME NEW u \in Units, Start(u)
      PROVE  Goal
  <2>1. /\ kind' = kind /\ leader' = leader /\ up' = up \union {u} /\ exists' = exists
        /\ ours' = ours /\ wanted' = wanted /\ hook' = hook
        /\ pending' = pending /\ elections' = elections /\ missed' = missed
        /\ Tell({u}, "ready")
    BY <1>6 DEF Start, bounds
  <2>2. "ready" \in Observed
    BY DEF Observed, TypeOK, AllKinds, InputKinds, CredentialKinds
  <2>3. due[leader] \subseteq due'[leader] /\ (u = leader => "ready" \in due'[leader])
    BY <1>0, <2>1, <2>2, TellFacts
  <2>4. QED
    BY <1>b, <2>1, <2>3
<1>7. ASSUME NEW u \in Units, Replace(u)
      PROVE  Goal
  BY <1>7, <1>b DEF Replace, hookVars
<1>8. CASE Provide
  BY <1>0, <1>8, <1>b, ProvideFacts DEF ourVars
<1>9. CASE Relate
  <2>1. /\ kind' = kind /\ leader' = leader /\ ours' = 0 /\ wanted' = wanted
        /\ hook' = hook /\ pending' = pending /\ elections' = elections
        /\ related = {}
        /\ due' = [u \in Units |-> due[u] \union ({"created", "joined", "changed"} \intersect Observed)]
    BY <1>9 DEF Relate
  <2>2. OnlyLeaderWrites /\ WritesInHand
    BY <2>1 DEF PublicationInv
  <2>3. pending[leader].ours = 0
    BY <1>0, <2>1 DEF LifeInv, NothingWritten
  <2>4. OnlyLeaderWrites' /\ WritesInHand' /\ WritesAreWanted'
    BY <1>a, <2>1, <2>2, <2>3 DEF OnlyLeaderWrites, WritesInHand, WritesAreWanted
  <2>5. kind \in Publishers =>
          {"created", "joined", "changed"} \intersect Observed \intersect PublishingEvents # {}
    BY DEF Publishers, AllKinds, InputKinds, CredentialKinds, Observed, PublishingEvents,
           PublicationEvents
  <2>6. PublicationFollows'
    BY <1>0, <1>a, <2>1, <2>5 DEF PublicationFollows
  <2>7. QED
    BY <2>4, <2>6
<1>10. CASE Break
  <2>1. /\ kind' = kind /\ leader' = leader /\ exists' = FALSE /\ ours' = ours /\ wanted' = wanted
        /\ hook' = hook /\ pending' = pending /\ elections' = elections
        /\ due' = [u \in Units |-> (due[u] \ RelationEvents) \union {"broken"}]
    BY <1>10 DEF Break
  <2>2. OnlyLeaderWrites /\ WritesInHand /\ WritesAreWanted
    BY <2>1 DEF PublicationInv
  <2>3. "config" \in due[leader] => "config" \in due'[leader]
    BY <1>0, <2>1 DEF RelationEvents
  <2>4. OnlyLeaderWrites' /\ WritesInHand' /\ WritesAreWanted'
    BY <1>a, <2>1, <2>2, <2>3 DEF OnlyLeaderWrites, WritesInHand, WritesAreWanted
  <2>5. PublicationFollows'
    BY <2>1 DEF PublicationFollows
  <2>6. QED
    BY <2>4, <2>5
<1>11. CASE Reconfigure
  <2>1. /\ kind' = kind /\ kind = "traefik-route" /\ leader' = leader /\ up' = up
        /\ exists' = exists /\ ours' = ours
        /\ hook' = hook /\ pending' = pending /\ elections' = elections
        /\ Tell(Units, "config")
    BY <1>11 DEF Reconfigure
  <2>2. "config" \in due'[leader]
    BY <1>0, <2>1, TellFacts DEF Observed
  <2>3. OnlyLeaderWrites /\ WritesInHand
    BY <2>1 DEF PublicationInv
  <2>4. OnlyLeaderWrites' /\ WritesInHand' /\ WritesAreWanted'
    BY <1>a, <2>1, <2>2, <2>3 DEF OnlyLeaderWrites, WritesInHand, WritesAreWanted
  <2>5. PublicationFollows'
    BY <2>1, <2>2 DEF PublicationFollows, PublishingEvents
  <2>6. QED
    BY <2>4, <2>5
<1>12. QED
  BY <1>1, <1>2, <1>3, <1>4, <1>5, <1>6, <1>7, <1>8, <1>9, <1>10, <1>11 DEF Next, Handle

LEMMA PublicationInit == Init => PublicationInv
<1> SUFFICES ASSUME Init PROVE PublicationInv
  OBVIOUS
<1>1. /\ exists = FALSE /\ leader \in Units
      /\ \A u \in Units : pending[u].ours = 0
  BY DEF Init
<1>2. QED
  BY <1>1 DEF PublicationInv, OnlyLeaderWrites, WritesInHand, WritesAreWanted, PublicationFollows

\* What the leader asks of the applications of a relation is current whenever it has no event
\* left to handle, and so is the route that it gives the proxy, unless its last reconciliation
\* ended with a status before it: hooks that fail, pods that are replaced and a relation that is
\* removed and made again lose no request (the handlers for relation-created, relation-joined
\* and the route in charm.py, _database.py and the libraries).
THEOREM PublicationsCurrent == Spec => []PublicationsAreCurrent
<1>1. Init => Base /\ PublicationInv
  BY BaseInit, PublicationInit
<1>2. Base /\ PublicationInv /\ [Next]_vars => (Base /\ PublicationInv)'
  BY BaseStep, PublicationStep
<1>3. Base /\ PublicationInv => PublicationsAreCurrent
  <2> SUFFICES ASSUME Base, PublicationInv,
                      kind \in Publishers, exists, Quiet(leader), elections = 0,
                      kind = "traefik-route" => leader \notin missed
               PROVE  ours = Wanted
    BY DEF PublicationsAreCurrent
  <2>1. leader \in Units
    BY DEF Base, TypeOK
  <2>2. pending[leader].ours = 0
    BY <2>1 DEF Base, LifeInv, Quiet, NothingWritten
  <2>3. Wanted # 0
    BY PublishingFacts DEF Base
  <2>4. QED
    BY <2>2, <2>3 DEF PublicationInv, PublicationFollows, Quiet
<1>4. QED
  BY <1>1, <1>2, <1>3, PTL DEF Spec

(***************************************************************************)
(* What the other application gives.                                       *)
(***************************************************************************)
Field == CredentialField[kind]
Endpoint == EndpointField[kind]

\* An endpoint is the generation in which it was given.
Known(b) == Endpoint \in DOMAIN b => b[Endpoint] \in Nat /\ b[Endpoint] <= changes + 1

MeantInv == ~exists => meant = NONE

\* The credentials and the endpoint that are in the databag are those that are meant.
CredentialsInv ==
    exists /\ kind \in CredentialKinds =>
        /\ meant = NONE => Field \notin DOMAIN theirs
        /\ meant # NONE =>
             /\ meant \in [credentials : Nat, endpoints : Nat]
             /\ Ready /\ Fetched = meant
             /\ kind \in SecretKinds => theirs[Field] \in DOMAIN secrets
        /\ Known(theirs)

\* The copy that a unit compares the databag with is an earlier state of it.
IsCopy(b) == DOMAIN b \subseteq DOMAIN theirs /\ Known(b)
CopiesInv ==
    exists /\ kind = "database" => \A u \in Units : IsCopy(bag[u]) /\ IsCopy(pending[u].bag)

\* A provider that waits for the requirer's version writes to its application's databag.
CertificatesInv ==
    kind = "receive-ca-cert" =>
        /\ ours \in {0, 1} /\ \A u \in Units : pending[u].ours \in {0, 1}
        /\ meant # NONE => meant \subseteq Certificates
        /\ exists => /\ theirs = IF meant = NONE THEN {} ELSE meant
                     /\ \A r \in DOMAIN remote : remote[r] = {}

GivenInv == MeantInv /\ CredentialsInv /\ CopiesInv /\ CertificatesInv

LEMMA FieldFacts ==
    /\ kind \in CredentialKinds => Field # Endpoint
    /\ kind = "database" => Field = "secret-user" /\ Endpoint = "endpoints"
    /\ kind = "s3" => Field = "access-key"
    /\ DOMAIN EmptyDatabag = {}
BY DEF CredentialKinds, Field, Endpoint, CredentialField, EndpointField, EmptyDatabag

\* Whatever is written, a copy of the databag remains a copy of an earlier state of it.
LEMMA CopiesKept ==
    ASSUME TypeOK, CopiesInv, kind' = kind, changes' \in Nat, changes <= changes',
           exists' /\ kind = "database" => Known(theirs)',
           exists => DOMAIN theirs \subseteq DOMAIN theirs',
           exists' => \A u \in Units : \A b \in {bag'[u], pending'[u].bag} :
               b = EmptyDatabag \/ (exists /\ b \in {theirs', bag[u], pending[u].bag})
    PROVE  CopiesInv'
<1> SUFFICES ASSUME exists', kind = "database", NEW u \in Units, NEW b \in {bag'[u], pending'[u].bag}
             PROVE  /\ DOMAIN b \subseteq DOMAIN theirs'
                    /\ Endpoint \in DOMAIN b => b[Endpoint] \in Nat /\ b[Endpoint] <= changes' + 1
  BY DEF CopiesInv, IsCopy, Known, Endpoint, EndpointField
<1>1. CASE b = EmptyDatabag
  BY <1>1, FieldFacts
<1>2. CASE b = theirs'
  BY <1>2 DEF Known, Endpoint, EndpointField
<1>3. CASE exists /\ b \in {bag[u], pending[u].bag}
  <2>1. /\ DOMAIN b \subseteq DOMAIN theirs
        /\ Endpoint \in DOMAIN b => b[Endpoint] \in Nat /\ b[Endpoint] <= changes + 1
    BY <1>3 DEF CopiesInv, IsCopy, Known
  <2>2. QED
    BY <1>3, <2>1 DEF TypeOK
<1>4. QED
  BY <1>1, <1>2, <1>3

\* What a hook does leaves what is given alone.
LEMMA GivenKept ==
    ASSUME Base, GivenInv, kind' = kind, exists' = exists, UNCHANGED sideVars, changes' = changes,
           ours' \in {ours} \union {pending[u].ours : u \in Units},
           \A u \in Units : pending'[u].ours \in {0, Wanted, pending[u].ours},
           \A u \in Units : {bag'[u], pending'[u].bag}
                              \subseteq {EmptyDatabag, theirs, bag[u], pending[u].bag}
    PROVE  GivenInv'
<1>1. theirs' = theirs /\ remote' = remote /\ secrets' = secrets /\ meant' = meant
  BY DEF sideVars
<1>2. MeantInv'
  BY <1>1 DEF GivenInv, MeantInv
<1>3. CredentialsInv'
  BY <1>1 DEF GivenInv, CredentialsInv, Field, Endpoint, Ready, Fetched, Known, CredentialField,
              EndpointField
<1>4. CopiesInv'
  <2>1. exists' /\ kind = "database" => Known(theirs)'
    BY <1>1, <1>3 DEF CredentialsInv, CredentialKinds
  <2>2. QED
    BY <1>1, <2>1, CopiesKept DEF GivenInv, Base, TypeOK
<1>5. CertificatesInv'
  <2>1. kind = "receive-ca-cert" => Wanted = 1
    BY DEF Wanted
  <2>2. QED
    BY <1>1, <2>1 DEF GivenInv, CertificatesInv
<1>6. QED
  BY <1>2, <1>3, <1>4, <1>5 DEF GivenInv

LEMMA GivenByHooks ==
    ASSUME Base, GivenInv, NEW u \in Units,
           \/ \E event \in due[u] : Begin(u, event)
           \/ End(u) \/ Fail(u) \/ Elect(u) \/ Start(u) \/ Replace(u)
    PROVE  GivenInv'
<1>1. ASSUME NEW event, Begin(u, event)
      PROVE  GivenInv'
  <2>1. /\ kind' = kind /\ exists' = exists /\ UNCHANGED sideVars /\ changes' = changes
        /\ ours' = ours /\ bag' = bag
    BY <1>1 DEF Begin, bounds
  <2>2. /\ pending'[u].ours \in {0, Wanted}
        /\ pending'[u].bag = BagWritten(u, event)
        /\ \A v \in Units \ {u} : pending'[v] = pending[v]
    BY <1>1, BeginFacts DEF Base, Arrives, Stops
  <2>3. pending'[u].bag \in {EmptyDatabag, theirs, bag[u]}
    BY <2>2 DEF BagWritten
  <2>4. QED
    BY <2>1, <2>2, <2>3, GivenKept
<1>2. CASE End(u)
  <2>1. /\ kind' = kind /\ exists' = exists /\ UNCHANGED sideVars /\ changes' = changes
        /\ ours' \in {ours, pending[u].ours} /\ bag' = [bag EXCEPT ![u] = pending[u].bag] /\ Leave(u)
    BY <1>2 DEF End, bounds
  <2>2. /\ pending'[u].ours = 0 /\ pending'[u].bag = EmptyDatabag
        /\ \A v \in Units \ {u} : pending'[v] = pending[v]
    BY <2>1, LeaveFacts DEF Base, NothingWritten
  <2>3. \A v \in Units : bag'[v] \in {bag[v], pending[v].bag}
    BY <2>1 DEF Base, TypeOK
  <2>4. QED
    BY <2>1, <2>2, <2>3, GivenKept
<1>3. CASE Fail(u)
  <2>1. /\ kind' = kind /\ exists' = exists /\ UNCHANGED sideVars /\ changes' = changes
        /\ ours' = ours /\ bag' = bag /\ Leave(u)
    BY <1>3 DEF Fail
  <2>2. /\ pending'[u].ours = 0 /\ pending'[u].bag = EmptyDatabag
        /\ \A v \in Units \ {u} : pending'[v] = pending[v]
    BY <2>1, LeaveFacts DEF Base, NothingWritten
  <2>3. QED
    BY <2>1, <2>2, GivenKept
<1>4. CASE Elect(u) \/ Start(u) \/ Replace(u)
  BY <1>4, GivenKept DEF Elect, Start, Replace, hookVars, bounds
<1>5. QED
  BY <1>1, <1>2, <1>3, <1>4

\* What CredentialsInv says of the databag and the secrets.
LEMMA CredentialsFacts ==
    ASSUME CredentialsInv, exists, kind \in CredentialKinds
    PROVE  /\ meant = NONE => Field \notin DOMAIN theirs
           /\ meant # NONE =>
                /\ meant \in [credentials : Nat, endpoints : Nat]
                /\ {Field, Endpoint} \subseteq DOMAIN theirs
                /\ theirs[Endpoint] = meant.endpoints
                /\ kind \in SecretKinds => /\ theirs[Field] \in DOMAIN secrets
                                           /\ secrets[theirs[Field]] = meant.credentials
                                           /\ meant.credentials # 0
                /\ kind \notin SecretKinds => theirs[Field] = meant.credentials
           /\ Endpoint \in DOMAIN theirs =>
                theirs[Endpoint] \in Nat /\ theirs[Endpoint] <= changes + 1
<1>1. ASSUME meant # NONE
      PROVE  /\ meant \in [credentials : Nat, endpoints : Nat]
             /\ {Field, Endpoint} \subseteq DOMAIN theirs
             /\ theirs[Endpoint] = meant.endpoints
             /\ kind \in SecretKinds => /\ theirs[Field] \in DOMAIN secrets
                                        /\ secrets[theirs[Field]] = meant.credentials
                                        /\ meant.credentials # 0
             /\ kind \notin SecretKinds => theirs[Field] = meant.credentials
  <2>1. meant = [credentials |-> IF kind \in SecretKinds THEN secrets[theirs[Field]]
                                 ELSE theirs[Field],
                 endpoints |-> theirs[Endpoint]]
    BY <1>1 DEF CredentialsInv, Fetched, Field, Endpoint
  <2>2. /\ {Field, Endpoint} \subseteq DOMAIN theirs
        /\ kind \in SecretKinds => secrets[theirs[Field]] # 0
    BY <1>1 DEF CredentialsInv, Ready, Field, Endpoint
  <2>3. QED
    BY <1>1, <2>1, <2>2 DEF CredentialsInv
<1>2. QED
  BY <1>1 DEF CredentialsInv, Known

LEMMA CredentialsFollow ==
    ASSUME kind' = kind, kind \in CredentialKinds,
           meant' = NONE => Field \notin DOMAIN theirs',
           meant' # NONE =>
                /\ meant' \in [credentials : Nat, endpoints : Nat]
                /\ {Field, Endpoint} \subseteq DOMAIN theirs'
                /\ theirs'[Endpoint] = meant'.endpoints
                /\ kind \in SecretKinds => /\ theirs'[Field] \in DOMAIN secrets'
                                           /\ secrets'[theirs'[Field]] = meant'.credentials
                                           /\ meant'.credentials # 0
                /\ kind \notin SecretKinds => theirs'[Field] = meant'.credentials,
           Endpoint \in DOMAIN theirs' =>
                theirs'[Endpoint] \in Nat /\ theirs'[Endpoint] <= changes' + 1
    PROVE  CredentialsInv'
<1>1. Field' = Field /\ Endpoint' = Endpoint
  BY DEF Field, Endpoint, CredentialField, EndpointField
<1>2. Known(theirs)'
  BY <1>1 DEF Known
<1>3. ASSUME meant' # NONE
      PROVE  Ready' /\ Fetched' = meant'
  <2>1. Ready'
    BY <1>3 DEF Ready, Field, Endpoint, CredentialField, EndpointField
  <2>2. Fetched' = [credentials |-> IF kind \in SecretKinds THEN secrets'[theirs'[Field]]
                                    ELSE theirs'[Field],
                    endpoints |-> theirs'[Endpoint]]
    BY DEF Fetched, Field, Endpoint, CredentialField, EndpointField
  <2>3. QED
    BY <1>3, <2>1, <2>2
<1>4. QED
  BY <1>1, <1>2, <1>3 DEF CredentialsInv

LEMMA GivenByProvider ==
    ASSUME Base, GivenInv, Provide, "early-certificates" \notin Faults
    PROVE  GivenInv'
<1>1. /\ kind' = kind /\ exists /\ exists' = exists /\ ours' = ours /\ bag' = bag
      /\ pending' = pending /\ secrets' \in Seq(Nat)
      /\ changes \in Nat /\ changes' \in Nat /\ changes <= changes'
  BY ProvideFacts DEF ourVars, Base, TypeOK
<1>2. MeantInv'
  BY <1>1 DEF MeantInv
<1>3. ASSUME kind \in CredentialKinds, CredentialsInv', DOMAIN theirs \subseteq DOMAIN theirs'
      PROVE  GivenInv'
  <2>1. Known(theirs)'
    BY <1>1, <1>3 DEF CredentialsInv
  <2>2. CopiesInv'
    BY <1>1, <1>3, <2>1, CopiesKept DEF Base, GivenInv
  <2>3. CertificatesInv'
    BY <1>1, <1>3 DEF CertificatesInv, CredentialKinds
  <2>4. QED
    BY <1>2, <1>3, <2>2, <2>3 DEF GivenInv
<1>4. CASE Announce
  <2>1. /\ kind \in CredentialKinds /\ Endpoint \notin DOMAIN theirs
        /\ theirs' = With(theirs, [k \in {Endpoint} |-> changes + 1])
        /\ meant' = meant /\ secrets' = secrets /\ changes' = changes
    BY <1>4 DEF Announce, CredentialKinds, Endpoint
  <2>2. meant = NONE /\ Field \notin DOMAIN theirs
    BY <1>1, <2>1, CredentialsFacts DEF GivenInv
  <2>3. DOMAIN theirs' = DOMAIN theirs \union {Endpoint} /\ theirs'[Endpoint] = changes + 1
    BY <2>1 DEF With
  <2>4. Field \notin DOMAIN theirs'
    BY <2>1, <2>2, <2>3, FieldFacts
  <2>5. CredentialsInv'
    BY <1>1, <2>1, <2>2, <2>3, <2>4, CredentialsFollow
  <2>6. QED
    BY <1>3, <2>1, <2>3, <2>5
<1>5. CASE Answer
  <2>1. /\ kind \in CredentialKinds /\ meant = NONE /\ changes' = changes
        /\ meant' = [credentials |-> changes + 1, endpoints |-> changes + 1]
    BY <1>5 DEF Answer
  <2> DEFINE bagged == With(theirs, [k \in {Endpoint} |-> changes + 1])
  <2>2. /\ kind \in SecretKinds => /\ secrets' = SecretsAfter(bagged, secrets, Field, changes + 1)
                                   /\ theirs' = BagAfter(bagged, secrets, Field)
        /\ kind \notin SecretKinds => theirs' = With(bagged, [k \in {Field} |-> changes + 1])
    BY <1>5 DEF Answer, Field, Endpoint
  <2>3. Field \notin DOMAIN theirs /\ Field # Endpoint
    BY <1>1, <2>1, CredentialsFacts, FieldFacts DEF GivenInv
  <2>4. DOMAIN bagged = DOMAIN theirs \union {Endpoint} /\ bagged[Endpoint] = changes + 1
    BY DEF With
  <2> HIDE DEF bagged
  <2>5. /\ DOMAIN theirs' = DOMAIN theirs \union {Endpoint, Field}
        /\ theirs'[Endpoint] = changes + 1
        /\ kind \in SecretKinds => /\ theirs'[Field] \in DOMAIN secrets'
                                   /\ secrets'[theirs'[Field]] = changes + 1
        /\ kind \notin SecretKinds => theirs'[Field] = changes + 1
    <3>1. CASE kind \in SecretKinds
      <4>1. /\ secrets' = Append(secrets, changes + 1)
            /\ theirs' = With(bagged, [k \in {Field} |-> Len(secrets) + 1])
        BY <2>2, <2>3, <2>4, <3>1 DEF SecretsAfter, BagAfter
      <4>2. /\ Len(secrets) + 1 \in DOMAIN secrets'
            /\ secrets'[Len(secrets) + 1] = changes + 1
        BY <1>1, <4>1 DEF Base, TypeOK
      <4>3. /\ DOMAIN theirs' = DOMAIN bagged \union {Field} /\ theirs'[Field] = Len(secrets) + 1
            /\ theirs'[Endpoint] = bagged[Endpoint]
        BY <2>3, <2>4, <4>1 DEF With
      <4>4. QED
        BY <2>4, <3>1, <4>2, <4>3
    <3>2. CASE kind \notin SecretKinds
      <4>1. /\ DOMAIN theirs' = DOMAIN bagged \union {Field} /\ theirs'[Field] = changes + 1
            /\ theirs'[Endpoint] = bagged[Endpoint]
        BY <2>2, <2>3, <2>4, <3>2 DEF With
      <4>2. QED
        BY <2>4, <3>2, <4>1
    <3>3. QED
      BY <3>1, <3>2
  <2>6. /\ meant' \in [credentials : Nat, endpoints : Nat]
        /\ meant'.endpoints = changes + 1 /\ meant'.credentials = changes + 1 /\ changes + 1 # 0
    BY <1>1, <2>1
  <2>7. meant' # NONE
    BY <2>6, NoneAssumption
  <2>8. CredentialsInv'
    BY <1>1, <2>1, <2>5, <2>6, <2>7, CredentialsFollow
  <2>9. QED
    BY <1>3, <2>1, <2>5, <2>8
<1>6. CASE ChangeCredentials
  <2>1. /\ kind \in CredentialKinds /\ meant # NONE /\ changes' = changes + 1
        /\ meant' = [meant EXCEPT !.credentials = changes + 2]
        /\ kind \in SecretKinds =>
             secrets' = SecretsAfter(theirs, secrets, Field, changes + 2) /\ theirs' = theirs
        /\ kind \notin SecretKinds =>
             theirs' = [theirs EXCEPT ![Field] = changes + 2] /\ secrets' = secrets
    BY <1>6 DEF ChangeCredentials, Changes, Field
  <2>2. /\ meant \in [credentials : Nat, endpoints : Nat]
        /\ {Field, Endpoint} \subseteq DOMAIN theirs /\ Field # Endpoint
        /\ theirs[Endpoint] = meant.endpoints
        /\ kind \in SecretKinds => theirs[Field] \in DOMAIN secrets
        /\ theirs[Endpoint] \in Nat /\ theirs[Endpoint] <= changes + 1
    BY <1>1, <2>1, CredentialsFacts, FieldFacts DEF GivenInv
  <2>3. /\ meant' \in [credentials : Nat, endpoints : Nat]
        /\ meant'.credentials = changes + 2 /\ meant'.endpoints = meant.endpoints
        /\ changes + 2 # 0
    <3>1. meant' = [credentials |-> changes + 2, endpoints |-> meant.endpoints]
      BY <2>1, <2>2
    <3>2. meant.endpoints \in Nat
      BY <2>2
    <3>3. QED
      BY <1>1, <3>1, <3>2
  <2>4. /\ DOMAIN theirs' = DOMAIN theirs /\ theirs'[Endpoint] = theirs[Endpoint]
        /\ kind \notin SecretKinds => theirs'[Field] = changes + 2
    BY <2>1, <2>2
  <2>5. kind \in SecretKinds => /\ theirs'[Field] \in DOMAIN secrets'
                                /\ secrets'[theirs'[Field]] = changes + 2
    BY <2>1, <2>2 DEF SecretsAfter, Base, TypeOK
  <2>6. meant' # NONE
    BY <2>3, NoneAssumption
  <2>7. CredentialsInv'
    BY <1>1, <2>1, <2>2, <2>3, <2>4, <2>5, <2>6, CredentialsFollow
  <2>8. QED
    BY <1>3, <2>1, <2>4, <2>7
<1>7. CASE ChangeEndpoints
  <2>1. /\ kind \in CredentialKinds /\ meant # NONE /\ changes' = changes + 1
        /\ meant' = [meant EXCEPT !.endpoints = changes + 2]
        /\ theirs' = [theirs EXCEPT ![Endpoint] = changes + 2]
        /\ secrets' = secrets
    BY <1>7 DEF ChangeEndpoints, Changes, Endpoint
  <2>2. /\ meant \in [credentials : Nat, endpoints : Nat]
        /\ {Field, Endpoint} \subseteq DOMAIN theirs /\ Field # Endpoint
        /\ kind \in SecretKinds => /\ theirs[Field] \in DOMAIN secrets
                                   /\ secrets[theirs[Field]] = meant.credentials
                                   /\ meant.credentials # 0
        /\ kind \notin SecretKinds => theirs[Field] = meant.credentials
    BY <1>1, <2>1, CredentialsFacts, FieldFacts DEF GivenInv
  <2>3. /\ meant' \in [credentials : Nat, endpoints : Nat]
        /\ meant'.endpoints = changes + 2 /\ meant'.credentials = meant.credentials
    <3>1. meant' = [credentials |-> meant.credentials, endpoints |-> changes + 2]
      BY <2>1, <2>2
    <3>2. meant.credentials \in Nat
      BY <2>2
    <3>3. QED
      BY <1>1, <3>1, <3>2
  <2>4. /\ DOMAIN theirs' = DOMAIN theirs /\ theirs'[Field] = theirs[Field]
        /\ theirs'[Endpoint] = changes + 2
    BY <2>1, <2>2
  <2>5. meant' # NONE
    BY <2>3, NoneAssumption
  <2>6. CredentialsInv'
    BY <1>1, <2>1, <2>2, <2>3, <2>4, <2>5, CredentialsFollow
  <2>7. QED
    BY <1>3, <2>1, <2>4, <2>6
<1>8. ASSUME kind \notin CredentialKinds, CertificatesInv'
      PROVE  GivenInv'
  <2>1. CredentialsInv' /\ CopiesInv'
    BY <1>1, <1>8 DEF CredentialsInv, CopiesInv, CredentialKinds
  <2>2. QED
    BY <1>2, <1>8, <2>1 DEF GivenInv
<1>9. CASE Transfer
  <2>1. kind = "receive-ca-cert" /\ ours # 0
    BY <1>9 DEF Transfer
  <2>2. PICK p \in RemoteUnits, added \in SUBSET Certificates, removed \in SUBSET Certificates :
          LET next == (ProviderRead(ours, theirs, remote, p) \union added) \ removed IN
            /\ theirs' = AppAfter(ours, theirs, next)
            /\ remote' = BagsAfter(ours, remote, p, next)
            /\ meant' = ((IF meant = NONE THEN {} ELSE meant) \union added) \ removed
    BY <1>9 DEF Transfer
  <2>3. /\ ours = 1 /\ theirs = IF meant = NONE THEN {} ELSE meant
        /\ meant # NONE => meant \subseteq Certificates
        /\ \A r \in DOMAIN remote : remote[r] = {}
        /\ \A u \in Units : pending[u].ours \in {0, 1}
    BY <1>1, <2>1 DEF GivenInv, CertificatesInv
  <2>4. theirs' = (theirs \union added) \ removed /\ remote' = remote /\ meant' = theirs'
    BY <2>2, <2>3 DEF ProviderRead, AppAfter, BagsAfter
  <2>5. theirs' \in SUBSET Certificates
    BY <2>3, <2>4
  <2>6. theirs' # NONE
    BY <2>5, NoneAssumption
  <2>7. CertificatesInv'
    BY <1>1, <2>3, <2>4, <2>5, <2>6 DEF CertificatesInv
  <2>8. QED
    BY <1>8, <2>1, <2>7 DEF CredentialKinds
<1>10. ASSUME NEW r, RemoteJoins(r) \/ RemotePublishes(r) \/ RemoteDeparts(r)
       PROVE  GivenInv'
  <2>1. kind = "logging"
    BY <1>10 DEF RemoteJoins, RemotePublishes, RemoteDeparts
  <2>2. QED
    BY <1>1, <1>8, <2>1 DEF CertificatesInv, CredentialKinds
<1>11. QED
  BY <1>4, <1>5, <1>6, <1>7, <1>9, <1>10 DEF Provide

LEMMA GivenStep ==
    ASSUME "early-certificates" \notin Faults, Base, GivenInv, [Next]_vars
    PROVE  GivenInv'
<1>1. CASE UNCHANGED vars
  BY <1>1, GivenKept DEF vars, hookVars, bounds
<1>2. CASE Relate
  <2>1. /\ kind' = kind /\ exists' /\ meant' = NONE /\ ours' = 0 /\ pending' = pending
        /\ changes' = changes /\ related = {}
        /\ theirs' = IF kind = "receive-ca-cert" THEN {} ELSE EmptyDatabag
        /\ remote' = IF kind = "receive-ca-cert" THEN [r \in RemoteUnits |-> {}] ELSE EmptyDatabag
        /\ bag' = [u \in Units |-> EmptyDatabag]
    BY <1>2 DEF Relate
  <2>2. ~exists
    BY <1>2 DEF Relate
  <2>3. \A u \in Units : pending'[u].bag = EmptyDatabag /\ pending'[u].ours = 0
    BY <2>1 DEF Base, LifeInv, NothingWritten
  <2>4. MeantInv'
    BY <2>1 DEF MeantInv
  <2>5. kind \in CredentialKinds => DOMAIN theirs' = {}
    BY <2>1, FieldFacts DEF CredentialKinds
  <2>6. CredentialsInv'
    BY <2>1, <2>5 DEF CredentialsInv, Known
  <2>7. exists' /\ kind = "database" => Known(theirs)'
    BY <2>5 DEF Known, CredentialKinds
  <2>8. CopiesInv'
    BY <2>1, <2>2, <2>3, <2>7, CopiesKept DEF Base, GivenInv, TypeOK
  <2>9. CertificatesInv'
    BY <2>1, <2>3 DEF CertificatesInv
  <2>10. QED
    BY <2>4, <2>6, <2>8, <2>9 DEF GivenInv
<1>3. CASE Break
  <2>1. kind' = kind /\ ~exists' /\ meant' = NONE /\ ours' = ours /\ pending' = pending
    BY <1>3 DEF Break
  <2>2. QED
    BY <2>1 DEF GivenInv, MeantInv, CredentialsInv, CopiesInv, CertificatesInv
<1>4. CASE Reconfigure
  <2>1. kind' = kind /\ kind = "traefik-route" /\ exists' = exists /\ meant' = meant
    BY <1>4 DEF Reconfigure, sideVars
  <2>2. QED
    BY <2>1 DEF GivenInv, MeantInv, CredentialsInv, CopiesInv, CertificatesInv, CredentialKinds
<1>5. QED
  BY <1>1, <1>2, <1>3, <1>4, GivenByHooks, GivenByProvider DEF Next, Handle

LEMMA GivenInit == Init => GivenInv
<1> SUFFICES ASSUME Init PROVE GivenInv
  OBVIOUS
<1>1. /\ exists = FALSE /\ meant = NONE /\ ours = 0
      /\ \A u \in Units : pending[u].ours = 0
  BY DEF Init
<1>2. QED
  BY <1>1 DEF GivenInv, MeantInv, CredentialsInv, CopiesInv, CertificatesInv

(***************************************************************************)
(* What a unit has made of it.                                             *)
(***************************************************************************)
IsBlank(value) == IF kind = "logging" THEN Forwarding(value) = {} ELSE value = Blank

\* The unit's last reconciliation ended before what it does for the relation.
Excused(u) == kind # "logging" /\ u \in missed

\* A unit is not configured with anything before its containers can be reached, nor before it
\* sees the relation and after its end.
UnreadInv ==
    kind \in InputKinds =>
        \A u \in Units : /\ u \notin up => applied[u] = Blank
                         /\ u \notin related => IsBlank(applied[u]) \/ Excused(u)

LEMMA BlankFacts ==
    /\ IsBlank(Blank)
    /\ Forwarding(EmptyDatabag) = {}
    /\ \A targets, endpoints : Forwarding(Targets(targets, endpoints)) = endpoints
<1>1. Forwarding(EmptyDatabag) = {}
  BY DEF Forwarding, EmptyDatabag
<1>2. ASSUME NEW targets, NEW endpoints
      PROVE  Forwarding(Targets(targets, endpoints)) = endpoints
  BY DEF Forwarding, Targets
<1>3. IsBlank(Blank)
  BY <1>1 DEF IsBlank, Blank
<1>4. QED
  BY <1>1, <1>2, <1>3

\* A hook without the relation leaves nothing configured, or what was.
LEMMA OutsideFacts ==
    ASSUME kind \in InputKinds, NEW u, NEW event, NEW outcome \in Outcomes(u, event)
    PROVE  /\ u \notin up => outcome = applied[u]
           /\ u \in up /\ event = "broken" => IsBlank(outcome)
           /\ u \notin related => outcome = applied[u] \/ IsBlank(outcome)
           /\ u \in up /\ u \notin related /\ Reconciles(u, event) /\ kind # "logging"
                => IsBlank(outcome)
<1>1. u \notin up => outcome = applied[u]
  BY DEF Outcomes
<1>2. ASSUME u \in up, ~InRelation(u, event)
      PROVE  /\ event = "broken" => IsBlank(outcome)
             /\ outcome = applied[u] \/ IsBlank(outcome)
             /\ Reconciles(u, event) /\ kind # "logging" => IsBlank(outcome)
  <2>1. CASE kind = "logging"
    <3>1. outcome = Forwarded(u, event)
      BY <1>2, <2>1 DEF Outcomes, CredentialKinds
    <3>2. outcome = Targets(applied[u], {}) \/ (event # "broken" /\ outcome = applied[u])
      BY <1>2, <3>1 DEF Forwarded
    <3>3. QED
      BY <2>1, <3>2, BlankFacts DEF IsBlank
  <2>2. CASE kind = "receive-ca-cert"
    <3>1. Reconciles(u, event) => outcome = {}
      BY <1>2, <2>2 DEF Outcomes, Trusted, CredentialKinds
    <3>2. ~Reconciles(u, event) => outcome = applied[u]
      BY <1>2, <2>2 DEF Outcomes, CredentialKinds
    <3>3. event = "broken" => Reconciles(u, event)
      BY <2>2 DEF Reconciles
    <3>4. Blank = {}
      BY <2>2 DEF Blank
    <3>5. QED
      BY <2>2, <3>1, <3>2, <3>3, <3>4 DEF IsBlank
  <2>3. CASE kind \in CredentialKinds
    <3>1. Reconciles(u, event) => outcome = Blank
      BY <1>2, <2>3 DEF Outcomes, Configured, CredentialKinds
    <3>2. ~Reconciles(u, event) => outcome = applied[u]
      BY <1>2, <2>3 DEF Outcomes, CredentialKinds
    <3>3. event = "broken" => Reconciles(u, event)
      BY <2>3 DEF Reconciles
    <3>4. QED
      BY <3>1, <3>2, <3>3, BlankFacts
  <2>4. QED
    BY <2>1, <2>2, <2>3 DEF InputKinds
<1>3. QED
  BY <1>1, <1>2 DEF InRelation

LEMMA UnreadStep == Base /\ UnreadInv /\ [Next]_vars => UnreadInv'
<1> SUFFICES ASSUME Base, UnreadInv, [Next]_vars
             PROVE  UnreadInv'
  OBVIOUS
<1>1. kind' = kind
  BY DEF Next, vars, Handle, Provide, Begin, End, Fail, Elect, Start, Replace, Announce, Answer,
         ChangeCredentials, ChangeEndpoints, Transfer, RemoteJoins, RemotePublishes, RemoteDeparts,
         Relate, Break, Reconfigure, ourVars
<1> SUFFICES ASSUME kind \in InputKinds, NEW u \in Units
             PROVE  /\ u \notin up' => applied'[u] = Blank
                    /\ u \notin related' => IsBlank(applied'[u]) \/ Excused(u)'
  BY <1>1 DEF UnreadInv, IsBlank, Blank, InputKinds, CredentialKinds
<1>2. /\ u \notin up => applied[u] = Blank
      /\ u \notin related => IsBlank(applied[u]) \/ Excused(u)
  BY DEF UnreadInv
<1>3. ASSUME up \subseteq up', applied' = applied, missed' = missed, related \subseteq related'
      PROVE  /\ u \notin up' => applied'[u] = Blank
             /\ u \notin related' => IsBlank(applied'[u]) \/ Excused(u)'
  BY <1>1, <1>2, <1>3 DEF Excused
<1>4. CASE UNCHANGED vars
  BY <1>3, <1>4 DEF vars
<1>5. ASSUME NEW v \in Units, NEW event \in due[v], Begin(v, event)
      PROVE  /\ u \notin up' => applied'[u] = Blank
             /\ u \notin related' => IsBlank(applied'[u]) \/ Excused(u)'
  <2>1. /\ up' = up
        /\ related' = IF event = "broken" THEN related \ {v} ELSE related
        /\ Arrives(v, event) \/ Stops(v, event)
        /\ \A w \in Units \ {v} :
             applied'[w] = applied[w] /\ (w \in missed' <=> w \in missed)
    BY <1>5, BeginFacts DEF Base, Begin
  <2>2. CASE u # v
    BY <1>1, <1>2, <2>1, <2>2 DEF Excused
  <2>3. CASE u = v /\ Arrives(v, event)
    <3>1. /\ u \notin up => applied'[u] = applied[u]
          /\ u \in up /\ event = "broken" => IsBlank(applied'[u])
          /\ u \notin related => applied'[u] = applied[u] \/ IsBlank(applied'[u])
          /\ u \in up /\ u \notin related /\ Reconciles(u, event) /\ kind # "logging"
               => IsBlank(applied'[u])
      BY <2>3, OutsideFacts DEF Arrives
    <3>2. u \in missed' <=> u \in missed /\ ~(u \in up /\ Reconciles(u, event))
      BY <2>3 DEF Arrives
    <3>3. CASE event = "broken"
      BY <1>2, <2>1, <2>3, <3>1, <3>3, BlankFacts
    <3>4. CASE event # "broken"
      BY <1>1, <1>2, <2>1, <2>3, <3>1, <3>2, <3>4 DEF Excused
    <3>5. QED
      BY <3>3, <3>4
  <2>4. CASE u = v /\ Stops(v, event)
    BY <1>1, <1>2, <2>1, <2>4 DEF Stops, Excused
  <2>5. QED
    BY <2>1, <2>2, <2>3, <2>4
<1>6. ASSUME NEW v \in Units, Replace(v)
      PROVE  /\ u \notin up' => applied'[u] = Blank
             /\ u \notin related' => IsBlank(applied'[u]) \/ Excused(u)'
  <2>1. /\ up' = up \ {v} /\ related' = related /\ missed' = missed
        /\ applied' = [applied EXCEPT ![v] = Blank]
    BY <1>6 DEF Replace
  <2>2. applied'[v] = Blank /\ \A w \in Units \ {v} : applied'[w] = applied[w]
    BY <2>1 DEF Base, TypeOK
  <2>3. QED
    BY <1>1, <1>2, <2>1, <2>2, BlankFacts DEF Excused
<1>7. ASSUME NEW v \in Units, End(v) \/ Fail(v) \/ Elect(v) \/ Start(v)
      PROVE  /\ u \notin up' => applied'[u] = Blank
             /\ u \notin related' => IsBlank(applied'[u]) \/ Excused(u)'
  BY <1>3, <1>7 DEF End, Fail, Elect, Start
<1>8. CASE Provide
  BY <1>3, <1>8, ProvideFacts DEF Base, ourVars
<1>9. CASE Relate \/ Break \/ Reconfigure
  BY <1>3, <1>9 DEF Base, TypeOK, Relate, Break, Reconfigure
<1>10. QED
  BY <1>4, <1>5, <1>6, <1>7, <1>8, <1>9 DEF Next, Handle

LEMMA UnreadInit == Init => UnreadInv
BY BlankFacts DEF Init, UnreadInv

\* The unit is configured with what the other application means, and would be told of a new
\* revision of the secret that holds it.
HasRead(u) ==
    IF kind = "logging" THEN Forwarding(applied[u]) = LokiEndpoints(remote)
    ELSE meant # NONE =>
           /\ applied[u] = meant
           /\ kind \in SecretKinds => theirs[Field] \in tracks[u]

\* One of the events makes a unit that forwards to these endpoints, and keeps this copy of the
\* databag given, read the relation.
Wakes(k, given, forwards, copy, events) ==
    IF k = "logging"
    THEN \/ events \intersect {"joined", "changed", "departed", "broken"} # {}
         \/ "ready" \in events /\ forwards = {}
    ELSE \/ events \intersect {"secret", "ready", "broken"} # {}
         \/ "changed" \in events /\ (k = "database" => DatabaseEvent(Diff(copy, given)) # "none")

\* It will read the relation again, whether the running hook ends or fails.
WillRead(u) ==
    IF hook[u] = "idle" THEN Wakes(kind, theirs, Forwarding(applied[u]), bag[u], due[u])
    ELSE /\ Wakes(kind, theirs, Forwarding(applied[u]), pending[u].bag, due[u])
         /\ Wakes(kind, theirs, Forwarding(applied[u]), bag[u], due[u] \union {hook[u]})

Informed(u) == HasRead(u) \/ WillRead(u) \/ Excused(u)
FollowsInv == kind \in InputKinds => \A u \in up \intersect related : Informed(u)

LEMMA WakesMore ==
    ASSUME NEW k, NEW given, NEW forwards, NEW copy, NEW events, NEW more,
           Wakes(k, given, forwards, copy, events), events \subseteq more
    PROVE  Wakes(k, given, forwards, copy, more)
BY DEF Wakes

\* A unit that is told of what wakes it will read the relation.
LEMMA Woken ==
    ASSUME NEW u,
           Wakes(kind, theirs, Forwarding(applied[u]), bag[u], due[u])',
           Wakes(kind, theirs, Forwarding(applied[u]), pending[u].bag, due[u])'
    PROVE  WillRead(u)'
<1>1. Wakes(kind, theirs, Forwarding(applied[u]), bag[u], due[u] \union {hook[u]})'
  BY WakesMore
<1>2. QED
  BY <1>1 DEF WillRead

\* What is true of a unit stays so when it is only told of more.
LEMMA StillFollows ==
    ASSUME NEW u, Informed(u), kind' = kind, UNCHANGED sideVars, u \in missed => u \in missed',
           applied'[u] = applied[u], tracks'[u] = tracks[u], hook'[u] = hook[u],
           bag'[u] = bag[u], pending'[u] = pending[u], due[u] \subseteq due'[u]
    PROVE  Informed(u)'
<1>1. theirs' = theirs /\ remote' = remote /\ meant' = meant
  BY DEF sideVars
<1>2. HasRead(u) => HasRead(u)'
  BY <1>1 DEF HasRead, Field, CredentialField
<1>3. ASSUME WillRead(u) PROVE WillRead(u)'
  <2>1. due[u] \union {hook[u]} \subseteq due'[u] \union {hook'[u]}
    OBVIOUS
  <2>2. QED
    BY <1>1, <1>3, <2>1, WakesMore DEF WillRead
<1>4. Excused(u) => Excused(u)'
  BY DEF Excused
<1>5. QED
  BY <1>2, <1>3, <1>4 DEF Informed

\* What a hook of a unit that sees the relation finds.
LEMMA ReadingFacts ==
    ASSUME GivenInv, kind \in InputKinds, NEW u, u \in up, NEW event, InRelation(u, event),
           NEW outcome \in Outcomes(u, event)
    PROVE  /\ kind \in CredentialKinds =>
                IF Reconciles(u, event)
                THEN meant # NONE =>
                       /\ outcome = meant
                       /\ kind \in SecretKinds => theirs[Field] \in SecretsRead(u, event, TRUE)
                ELSE outcome = applied[u]
           /\ kind = "receive-ca-cert" =>
                IF Reconciles(u, event) THEN meant # NONE => outcome = meant
                ELSE outcome = applied[u]
           /\ kind = "logging" =>
                IF \/ event \in {"joined", "changed", "departed"}
                   \/ event = "ready" /\ LokiEndpoints(remote) # {}
                THEN Forwarding(outcome) = LokiEndpoints(remote)
                ELSE outcome = applied[u]
<1>1. CASE kind \in CredentialKinds
  <2>1. ASSUME Reconciles(u, event), meant # NONE
        PROVE  /\ outcome = meant
               /\ kind \in SecretKinds => theirs[Field] \in SecretsRead(u, event, TRUE)
    <3>1. Ready /\ Fetched = meant
      BY <1>1, <2>1 DEF GivenInv, MeantInv, CredentialsInv
    <3>2. outcome = Configured(u, event)
      BY <1>1, <2>1 DEF Outcomes, CredentialKinds
    <3>3. kind \in SecretKinds => SecretsRead(u, event, TRUE) = {theirs[Field]}
      BY <2>1, <3>1 DEF SecretsRead, Field
    <3>4. QED
      BY <3>1, <3>2, <3>3 DEF Configured
  <2>2. ~Reconciles(u, event) => outcome = applied[u]
    BY <1>1 DEF Outcomes, CredentialKinds
  <2>3. QED
    BY <1>1, <2>1, <2>2 DEF CredentialKinds
<1>2. CASE kind = "receive-ca-cert"
  <2>1. ASSUME Reconciles(u, event), meant # NONE
        PROVE  outcome = meant
    <3>1. theirs = meant /\ \A r \in DOMAIN remote : remote[r] = {}
      BY <1>2, <2>1 DEF GivenInv, MeantInv, CertificatesInv
    <3>2. outcome \in Trusted(u, event)
      BY <1>2, <2>1 DEF Outcomes, CredentialKinds
    <3>3. \A units \in SUBSET DOMAIN remote : \A r \in Readings(theirs, remote, units) :
            r.found = theirs /\ r.units \subseteq DOMAIN remote
      BY <3>1 DEF Readings
    <3>4. \A r \in SecondReadings(theirs, remote, DOMAIN remote) : r.found = theirs
      BY <3>3 DEF SecondReadings
    <3>5. QED
      BY <3>1, <3>2, <3>3, <3>4 DEF Trusted
  <2>2. ~Reconciles(u, event) => outcome = applied[u]
    BY <1>2 DEF Outcomes, CredentialKinds
  <2>3. QED
    BY <1>2, <2>1, <2>2 DEF CredentialKinds
<1>3. CASE kind = "logging"
  <2>1. outcome = Forwarded(u, event)
    BY <1>3 DEF Outcomes, CredentialKinds
  <2>2. QED
    BY <1>3, <2>1, BlankFacts DEF Forwarded, InRelation, CredentialKinds
<1>4. QED
  BY <1>1, <1>2, <1>3 DEF InputKinds

\* A hook of an event that wakes the unit reads the relation; any other one leaves what wakes it.
LEMMA FollowsByBegin ==
    ASSUME Base, GivenInv, FollowsInv, kind \in InputKinds,
           NEW u \in Units, NEW event \in due[u], Begin(u, event)
    PROVE  FollowsInv'
<1>1. /\ kind' = kind /\ up' = up /\ exists' = exists /\ UNCHANGED sideVars /\ bag' = bag
      /\ related' = IF event = "broken" THEN related \ {u} ELSE related
      /\ hook[u] = "idle" /\ hook'[u] = event /\ event # "idle"
      /\ due'[u] = due[u] \ {event}
      /\ pending'[u].bag = BagWritten(u, event)
      /\ Arrives(u, event) \/ Stops(u, event)
      /\ \A v \in Units \ {u} :
           /\ hook'[v] = hook[v] /\ due'[v] = due[v] /\ pending'[v] = pending[v]
           /\ applied'[v] = applied[v] /\ tracks'[v] = tracks[v]
           /\ v \in missed' <=> v \in missed
  BY BeginFacts DEF Begin, Base, Events, RelationEvents
<1>2. theirs' = theirs /\ remote' = remote /\ meant' = meant
  BY <1>1 DEF sideVars
<1> SUFFICES ASSUME NEW v \in up' \intersect related'
             PROVE  HasRead(v)' \/ WillRead(v)' \/ Excused(v)'
  BY DEF FollowsInv, Informed
<1>3. v \in up /\ v \in related /\ v \in Units /\ Informed(v)
  BY <1>1 DEF FollowsInv, Base, TypeOK
<1>4. CASE v # u
  BY <1>1, <1>3, <1>4, StillFollows DEF Informed
<1>5. CASE v = u /\ Stops(u, event)
  BY <1>1, <1>5 DEF Excused, Stops
<1>6. CASE v = u /\ Arrives(u, event)
  <2>0. /\ applied'[u] \in Outcomes(u, event)
        /\ tracks'[u] = tracks[u] \union SecretsRead(u, event, TRUE)
        /\ Excused(u) /\ ~Reconciles(u, event) => Excused(u)'
    BY <1>1, <1>6 DEF Arrives, Excused
  <2>1. InRelation(u, event) /\ event # "broken" /\ u \in up
    BY <1>1, <1>3, <1>6 DEF InRelation
  <2>2. \/ HasRead(u) \/ Excused(u)
        \/ Wakes(kind, theirs, Forwarding(applied[u]), bag[u], due[u])
    BY <1>1, <1>3, <1>6 DEF WillRead, Informed
  <2>3. due'[u] \union {hook'[u]} = due[u]
    BY <1>1
  <2>4. CASE kind = "logging"
    <3>1. CASE \/ event \in {"joined", "changed", "departed"}
               \/ event = "ready" /\ LokiEndpoints(remote) # {}
      BY <1>1, <1>2, <1>6, <2>0, <2>1, <2>4, <3>1, ReadingFacts DEF HasRead
    <3>2. CASE event \notin {"joined", "changed", "departed", "ready"}
      <4>1. applied'[u] = applied[u]
        BY <1>1, <2>0, <2>1, <2>4, <3>2, ReadingFacts
      <4>2. CASE HasRead(u)
        BY <1>1, <1>2, <1>6, <2>4, <4>1, <4>2 DEF HasRead
      <4>3. CASE Wakes(kind, theirs, Forwarding(applied[u]), bag[u], due[u])
        <5>1. Wakes(kind, theirs, Forwarding(applied[u]), pending'[u].bag, due'[u])
          BY <1>1, <2>1, <2>4, <3>2, <4>3 DEF Wakes
        <5>2. WillRead(u)'
          BY <1>1, <1>2, <2>3, <4>1, <4>3, <5>1 DEF WillRead
        <5>3. QED
          BY <1>6, <5>2
      <4>4. QED
        BY <2>2, <2>4, <4>2, <4>3 DEF Excused
    <3>3. CASE event = "ready" /\ LokiEndpoints(remote) = {}
      <4>1. applied'[u] = applied[u]
        BY <1>1, <2>0, <2>1, <2>4, <3>3, ReadingFacts
      <4>2. CASE Forwarding(applied[u]) = {}
        BY <1>1, <1>2, <1>6, <2>4, <3>3, <4>1, <4>2 DEF HasRead
      <4>3. CASE Forwarding(applied[u]) # {}
        <5>1. Wakes(kind, theirs, Forwarding(applied[u]), bag[u], due[u])
          BY <2>2, <2>4, <3>3, <4>3 DEF HasRead, Excused
        <5>2. Wakes(kind, theirs, Forwarding(applied[u]), pending'[u].bag, due'[u])
          BY <1>1, <2>4, <3>3, <4>3, <5>1 DEF Wakes
        <5>3. WillRead(u)'
          BY <1>1, <1>2, <2>3, <4>1, <5>1, <5>2 DEF WillRead
        <5>4. QED
          BY <1>6, <5>3
      <4>4. QED
        BY <4>2, <4>3
    <3>4. QED
      BY <3>1, <3>2, <3>3
  <2>5. CASE kind # "logging"
    <3>1. CASE meant = NONE
      BY <1>1, <1>2, <1>6, <2>5, <3>1 DEF HasRead
    <3>2. CASE meant # NONE /\ Reconciles(u, event)
      <4>1. applied'[u] = meant
        BY <1>1, <2>0, <2>1, <2>5, <3>2, ReadingFacts DEF InputKinds
      <4>2. kind \in SecretKinds => theirs[Field] \in tracks'[u]
        BY <1>1, <2>0, <2>1, <3>2, ReadingFacts DEF SecretKinds, CredentialKinds
      <4>3. QED
        BY <1>1, <1>2, <1>6, <2>5, <4>1, <4>2 DEF HasRead, Field, CredentialField
    <3>3. CASE meant # NONE /\ ~Reconciles(u, event)
      <4>1. applied'[u] = applied[u]
        BY <1>1, <2>0, <2>1, <2>5, <3>3, ReadingFacts DEF InputKinds
      <4>2. CASE HasRead(u)
        BY <1>1, <1>2, <1>6, <2>0, <2>5, <4>1, <4>2 DEF HasRead, Field, CredentialField
      <4>3. CASE Wakes(kind, theirs, Forwarding(applied[u]), bag[u], due[u])
        <5>1. event \notin {"secret", "ready", "broken"}
          BY <2>1, <3>3 DEF Reconciles
        <5>2. event = "changed" => kind = "database" /\ DatabaseEvent(Diff(bag[u], theirs)) = "none"
          <6>1. kind \in CredentialKinds \ {"database"} => Emits(u)
            <7>1. kind \in CredentialKinds => Field \in DOMAIN theirs
              BY <3>3 DEF GivenInv, MeantInv, CredentialsInv, Ready, Field
            <7>2. kind \in CredentialKinds => theirs # EmptyDatabag
              BY <7>1, FieldFacts
            <7>3. QED
              BY <7>1, <7>2, FieldFacts DEF Emits, CredentialKinds
          <6>2. kind = "receive-ca-cert" => Emits(u)
            BY DEF Emits
          <6>3. kind = "database" => (Emits(u) <=> DatabaseEvent(Diff(bag[u], theirs)) # "none")
            BY DEF Emits
          <6>4. QED
            BY <2>5, <3>3, <6>1, <6>2, <6>3 DEF Reconciles, InputKinds
        <5>3. event # "changed" => pending'[u].bag = bag[u]
          BY <1>1, <2>1 DEF BagWritten
        <5>4. Wakes(kind, theirs, Forwarding(applied[u]), pending'[u].bag, due'[u])
          BY <1>1, <2>5, <4>3, <5>1, <5>2, <5>3 DEF Wakes
        <5>5. WillRead(u)'
          BY <1>1, <1>2, <2>3, <4>1, <4>3, <5>4 DEF WillRead
        <5>6. QED
          BY <1>6, <5>5
      <4>4. QED
        BY <1>6, <2>0, <2>2, <3>3, <4>2, <4>3
    <3>4. QED
      BY <3>1, <3>2, <3>3
  <2>6. QED
    BY <2>4, <2>5
<1>7. QED
  BY <1>1, <1>4, <1>5, <1>6

\* A hook that ends has looked at the databag; one that fails is run again.
LEMMA FollowsByLeave ==
    ASSUME Base, FollowsInv, kind \in InputKinds, NEW u \in Units, End(u) \/ Fail(u)
    PROVE  FollowsInv'
<1>1. /\ kind' = kind /\ up' = up /\ related' = related /\ UNCHANGED sideVars
      /\ applied' = applied /\ tracks' = tracks /\ missed' = missed
      /\ Leave(u) /\ hook[u] # "idle"
  BY DEF End, Fail
<1>2. theirs' = theirs /\ remote' = remote /\ meant' = meant
  BY <1>1 DEF sideVars
<1>3. /\ hook'[u] = "idle"
      /\ \A v \in Units \ {u} : hook'[v] = hook[v] /\ pending'[v] = pending[v]
  BY <1>1, LeaveFacts DEF Base
<1>4. /\ \A v \in Units \ {u} : bag'[v] = bag[v] /\ due'[v] = due[v]
      /\ \/ bag'[u] = pending[u].bag /\ due'[u] = due[u]
         \/ bag'[u] = bag[u] /\ due'[u] = due[u] \union {hook[u]}
  <2>1. CASE End(u)
    BY <2>1 DEF End, Base, TypeOK
  <2>2. CASE Fail(u)
    BY <2>2, FailFacts DEF Fail, Base
  <2>3. QED
    BY <2>1, <2>2
<1> SUFFICES ASSUME NEW v \in up' \intersect related'
             PROVE  Informed(v)'
  BY DEF FollowsInv
<1>5. v \in Units /\ Informed(v)
  BY <1>1 DEF FollowsInv, Base, TypeOK
<1>6. CASE v # u
  BY <1>1, <1>3, <1>4, <1>5, <1>6, StillFollows
<1>7. CASE v = u
  <2>1. CASE HasRead(u)
    BY <1>1, <1>2, <1>7, <2>1 DEF Informed, HasRead, Field, CredentialField
  <2>2. CASE WillRead(u)
    BY <1>1, <1>2, <1>3, <1>4, <1>7, <2>2 DEF Informed, WillRead
  <2>3. CASE Excused(u)
    BY <1>1, <1>7, <2>3 DEF Informed, Excused
  <2>4. QED
    BY <1>5, <1>7, <2>1, <2>2, <2>3 DEF Informed
<1>8. QED
  BY <1>6, <1>7

\* The other application wakes every unit with what it changes, unless the unit is to be asked
\* of nothing yet; of a new revision of a secret it is enough to tell those that have read it.
LEMMA FollowsByProvider ==
    ASSUME Base, GivenInv, FollowsInv, kind \in InputKinds, Provide
    PROVE  FollowsInv'
<1>1. /\ kind' = kind /\ up' = up /\ related' = related /\ exists /\ applied' = applied
      /\ tracks' = tracks /\ hook' = hook /\ bag' = bag /\ pending' = pending /\ missed' = missed
  BY ProvideFacts DEF ourVars, Base
<1> SUFFICES ASSUME NEW v \in up' \intersect related'
             PROVE  HasRead(v)' \/ WillRead(v)' \/ Excused(v)'
  BY DEF FollowsInv, Informed
<1>2. v \in Units /\ v \in related /\ Informed(v) /\ due[v] \subseteq due'[v]
  BY <1>1, ProvideFacts DEF FollowsInv, Base, TypeOK
<1>3. "changed" \in Observed /\ (kind \in SecretKinds => "secret" \in Observed)
      /\ (kind = "logging" => {"joined", "departed"} \subseteq Observed)
  BY DEF InputKinds, CredentialKinds, SecretKinds, Observed
<1>4. ASSUME Tell(related, "changed"),
             kind = "database" => \A b \in {bag[v], pending[v].bag} :
                                    DatabaseEvent(Diff(b, theirs')) # "none"
      PROVE  WillRead(v)'
  <2>1. "changed" \in due'[v]
    BY <1>2, <1>3, <1>4, TellFacts DEF Base
  <2>2. \A b \in {bag'[v], pending'[v].bag} :
          Wakes(kind, theirs', Forwarding(applied'[v]), b, due'[v])
    BY <1>1, <1>4, <2>1 DEF Wakes
  <2>3. QED
    BY <1>1, <2>2, Woken
<1>5. CASE Announce
  <2>1. kind \in CredentialKinds /\ Endpoint \notin DOMAIN theirs /\ meant' = meant
    BY <1>5 DEF Announce, CredentialKinds, Endpoint
  <2>2. meant = NONE
    BY <1>1, <2>1, CredentialsFacts DEF GivenInv
  <2>3. QED
    BY <1>1, <2>1, <2>2 DEF HasRead, CredentialKinds
<1>6. CASE Answer
  <2>1. kind \in CredentialKinds /\ meant = NONE /\ Tell(related, "changed")
    BY <1>6 DEF Answer
  <2>2. Field \notin DOMAIN theirs
    BY <1>1, <2>1, CredentialsFacts DEF GivenInv
  <2>3. ASSUME kind = "database", NEW b \in {bag[v], pending[v].bag}
        PROVE  DatabaseEvent(Diff(b, theirs')) # "none"
    <3>1. Field = "secret-user" /\ kind \in SecretKinds
      BY <2>3, FieldFacts DEF SecretKinds
    <3>2. Field \in DOMAIN theirs'
      BY <1>6, <2>2, <3>1 DEF Answer, Field, BagAfter, With
    <3>3. DOMAIN b \subseteq DOMAIN theirs
      BY <1>1, <1>2, <2>3 DEF GivenInv, CopiesInv, IsCopy
    <3>4. "secret-user" \in Diff(b, theirs').added
      BY <2>2, <3>1, <3>2, <3>3 DEF Diff
    <3>5. QED
      BY <3>4 DEF DatabaseEvent, CredentialsShared
  <2>4. QED
    BY <1>4, <2>1, <2>3
<1>7. CASE ChangeCredentials
  <2>1. kind \in CredentialKinds /\ meant # NONE /\ remote' = remote
    BY <1>7 DEF ChangeCredentials
  <2>2. CASE kind \notin SecretKinds
    BY <1>4, <1>7, <2>2 DEF ChangeCredentials, SecretKinds
  <2>3. CASE kind \in SecretKinds
    <3>1. /\ Tell({u \in related : theirs[Field] \in tracks[u]}, "secret")
          /\ theirs' = theirs
      BY <1>7, <2>3 DEF ChangeCredentials, Field
    <3>2. CASE HasRead(v)
      <4>1. theirs[Field] \in tracks[v]
        BY <2>1, <2>3, <3>2 DEF HasRead, SecretKinds
      <4>2. "secret" \in due'[v]
        BY <1>2, <1>3, <2>3, <3>1, <4>1, TellFacts DEF Base
      <4>3. \A b : Wakes(kind, theirs', Forwarding(applied'[v]), b, due'[v])
        BY <2>3, <4>2 DEF Wakes, SecretKinds
      <4>4. QED
        BY <1>1, <4>3, Woken
    <3>3. CASE WillRead(v)
      <4>1. due[v] \union {hook[v]} \subseteq due'[v] \union {hook[v]}
        BY <1>2
      <4>2. WillRead(v)'
        BY <1>1, <1>2, <3>1, <3>3, <4>1, WakesMore DEF WillRead
      <4>3. QED
        BY <4>2
    <3>4. CASE Excused(v)
      BY <1>1, <3>4 DEF Excused
    <3>5. QED
      BY <1>2, <3>2, <3>3, <3>4 DEF Informed
  <2>4. QED
    BY <2>2, <2>3
<1>8. CASE ChangeEndpoints
  <2>1. /\ kind \in CredentialKinds /\ meant # NONE /\ Tell(related, "changed")
        /\ theirs' = [theirs EXCEPT ![Endpoint] = changes + 2]
    BY <1>8 DEF ChangeEndpoints, Endpoint
  <2>2. Endpoint \in DOMAIN theirs
    BY <1>1, <2>1, CredentialsFacts DEF GivenInv
  <2>3. Endpoint \in DOMAIN theirs' /\ theirs'[Endpoint] = changes + 2
    BY <2>1, <2>2
  <2>4. ASSUME kind = "database", NEW b \in {bag[v], pending[v].bag}
        PROVE  DatabaseEvent(Diff(b, theirs')) # "none"
    <3>1. Endpoint = "endpoints"
      BY <2>4, FieldFacts
    <3>2. Endpoint \in DOMAIN b => b[Endpoint] \in Nat /\ b[Endpoint] <= changes + 1
      BY <1>1, <1>2, <2>4 DEF GivenInv, CopiesInv, IsCopy, Known
    <3>3. Endpoint \in DOMAIN b => b[Endpoint] # theirs'[Endpoint]
      BY <2>3, <3>2 DEF Base, TypeOK
    <3>4. "endpoints" \in Diff(b, theirs').added \union Diff(b, theirs').changed
      BY <2>3, <3>1, <3>3 DEF Diff
    <3>5. QED
      BY <3>4 DEF DatabaseEvent
  <2>5. QED
    BY <1>4, <2>1, <2>4
<1>9. CASE Transfer
  BY <1>4, <1>9 DEF Transfer
<1>10. ASSUME NEW r \in RemoteUnits, RemoteJoins(r) \/ RemotePublishes(r) \/ RemoteDeparts(r)
       PROVE  WillRead(v)'
  <2>1. /\ kind = "logging"
        /\ \E event \in {"joined", "changed", "departed"} : Tell(related, event)
    BY <1>10 DEF RemoteJoins, RemotePublishes, RemoteDeparts
  <2>2. due'[v] \intersect {"joined", "changed", "departed"} # {}
    BY <1>2, <1>3, <2>1, TellFacts DEF Base
  <2>3. \A b : Wakes(kind, theirs', Forwarding(applied'[v]), b, due'[v])
    BY <2>1, <2>2 DEF Wakes
  <2>4. QED
    BY <1>1, <2>3, Woken
<1>11. QED
  BY <1>5, <1>6, <1>7, <1>8, <1>9, <1>10 DEF Provide

LEMMA FollowsStep ==
    ASSUME Base, GivenInv, UnreadInv, FollowsInv, [Next]_vars
    PROVE  FollowsInv'
<1>1. kind' = kind
  BY DEF Next, vars, Handle, Provide, Begin, End, Fail, Elect, Start, Replace, Announce, Answer,
         ChangeCredentials, ChangeEndpoints, Transfer, RemoteJoins, RemotePublishes, RemoteDeparts,
         Relate, Break, Reconfigure, ourVars
<1> SUFFICES ASSUME kind \in InputKinds PROVE FollowsInv'
  BY <1>1 DEF FollowsInv, InputKinds, CredentialKinds
<1>2. ASSUME up' \subseteq up, related' = related, UNCHANGED sideVars, tracks' = tracks,
             hook' = hook, bag' = bag, pending' = pending, due' = due, missed' = missed,
             \A v \in up' : applied'[v] = applied[v]
      PROVE  FollowsInv'
  BY <1>1, <1>2, StillFollows DEF FollowsInv
<1>3. CASE UNCHANGED vars
  BY <1>2, <1>3 DEF vars, hookVars
<1>4. ASSUME NEW u \in Units, Elect(u)
      PROVE  FollowsInv'
  BY <1>2, <1>4 DEF Elect, hookVars
<1>5. ASSUME NEW u \in Units, Start(u)
      PROVE  FollowsInv'
  <2>1. /\ up' = up \union {u} /\ u \notin up /\ related' = related /\ UNCHANGED sideVars
        /\ tracks' = tracks /\ hook' = hook /\ bag' = bag /\ pending' = pending
        /\ applied' = applied /\ missed' = missed /\ Tell({u}, "ready")
    BY <1>5 DEF Start
  <2> SUFFICES ASSUME NEW v \in up' \intersect related'
               PROVE  Informed(v)'
    BY DEF FollowsInv
  <2>2. v \in Units /\ due[v] \subseteq due'[v]
    BY <2>1, TellFacts DEF Base, TypeOK
  <2>3. CASE v \in up
    <3>1. Informed(v)
      BY <2>1, <2>3 DEF FollowsInv
    <3>2. QED
      BY <1>1, <2>1, <2>2, <3>1, StillFollows
  <2>4. CASE v \notin up
    <3>1. "ready" \in Observed
      BY DEF Observed, InputKinds, CredentialKinds
    <3>2. "ready" \in due'[v]
      BY <2>1, <2>4, <3>1, TellFacts DEF Base
    <3>3. kind = "logging" => Forwarding(applied'[v]) = {}
      BY <2>1, <2>2, <2>4, BlankFacts DEF UnreadInv, Blank
    <3>4. \A b : Wakes(kind, theirs', Forwarding(applied'[v]), b, due'[v])
      BY <3>2, <3>3 DEF Wakes
    <3>5. QED
      BY <1>1, <3>4, Woken DEF Informed
  <2>5. QED
    BY <2>3, <2>4
<1>6. ASSUME NEW u \in Units, Replace(u)
      PROVE  FollowsInv'
  <2>1. /\ up' = up \ {u} /\ related' = related /\ UNCHANGED <<sideVars, tracks, hookVars, bag>>
        /\ applied' = [applied EXCEPT ![u] = Blank] /\ missed' = missed
    BY <1>6 DEF Replace
  <2>2. \A v \in up' : applied'[v] = applied[v]
    BY <2>1 DEF Base, TypeOK
  <2>3. QED
    BY <1>2, <2>1, <2>2 DEF hookVars
<1>7. CASE Relate
  <2>1. /\ related = {} /\ related' = Units /\ meant' = NONE /\ applied' = applied
        /\ kind = "logging" => remote' = EmptyDatabag
    BY <1>7 DEF Relate
  <2>2. kind = "logging" => LokiEndpoints(remote') = {}
    BY <2>1, FieldFacts DEF LokiEndpoints
  <2>3. \A v \in Units : HasRead(v)'
    BY <1>1, <2>1, <2>2 DEF HasRead, UnreadInv, IsBlank, Excused
  <2>4. QED
    BY <2>1, <2>3 DEF FollowsInv, Informed
<1>8. CASE Break
  <2>1. /\ related' = related /\ due' = [u \in Units |-> (due[u] \ RelationEvents) \union {"broken"}]
    BY <1>8 DEF Break
  <2> SUFFICES ASSUME NEW v \in up' \intersect related'
               PROVE  WillRead(v)'
    BY DEF FollowsInv, Informed
  <2>2. "broken" \in due'[v]
    BY <2>1 DEF Base, TypeOK
  <2>3. \A b : Wakes(kind, theirs', Forwarding(applied'[v]), b, due'[v])
    BY <2>2 DEF Wakes
  <2>4. QED
    BY <1>1, <2>3, Woken
<1>9. CASE Reconfigure
  BY <1>9 DEF Reconfigure, InputKinds, CredentialKinds
<1>10. QED
  BY <1>3, <1>4, <1>5, <1>6, <1>7, <1>8, <1>9, FollowsByBegin, FollowsByLeave, FollowsByProvider
     DEF Next, Handle

LEMMA FollowsInit == Init => FollowsInv
BY DEF Init, FollowsInv

\* No change of a relation is lost, for every kind of relation that gives this charm something:
\* a unit with no event left to handle is configured with what the other application means it to
\* have, unless its last reconciliation ended with a status before it came to that.  This takes the diffs of data_interfaces.py and the secrets that a unit has read, the
\* versions of certificate_transfer.py and the events that charm.py observes; the provider of
\* certificates is assumed to wait for the requirer's version.
THEOREM InputsFollowed ==
    ASSUME "early-certificates" \notin Faults
    PROVE  Spec => []InputsAreFollowed
<1> DEFINE IInv == Base /\ GivenInv /\ UnreadInv /\ FollowsInv
<1>1. Init => IInv
  BY BaseInit, GivenInit, UnreadInit, FollowsInit
<1>2. IInv /\ [Next]_vars => IInv'
  BY BaseStep, GivenStep, UnreadStep, FollowsStep
<1>3. IInv => InputsAreFollowed
  <2> SUFFICES ASSUME IInv, kind \in InputKinds, NEW u \in Units, Quiet(u), u \notin missed
               PROVE  Follows(u)
    BY DEF InputsAreFollowed
  <2>1. CASE u \notin related
    <3>1. IsBlank(applied[u])
      BY <2>1 DEF UnreadInv, Excused
    <3>2. QED
      BY <2>1, <3>1 DEF Follows, IsBlank
  <2>2. CASE u \in related
    <3>1. HasRead(u)
      <4>1. ~WillRead(u)
        BY DEF Quiet, WillRead, Wakes
      <4>2. QED
        BY <2>2, <4>1 DEF FollowsInv, Informed, Excused, Quiet
    <3>2. CASE kind = "logging"
      <4>1. Forwarding(applied[u]) = LokiEndpoints(remote)
        BY <3>1, <3>2 DEF HasRead
      <4>2. QED
        BY <2>2, <3>2, <4>1 DEF Follows, LokiEndpoints
    <3>3. CASE kind # "logging"
      BY <2>2, <3>1, <3>3 DEF Follows, HasRead
    <3>4. QED
      BY <3>2, <3>3
  <2>3. QED
    BY <2>1, <2>2
<1>4. QED
  BY <1>1, <1>2, <1>3, PTL DEF Spec
=============================================================================
