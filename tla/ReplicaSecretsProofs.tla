------------------------ MODULE ReplicaSecretsProofs ------------------------
(***************************************************************************)
(* Theorems about ReplicaSecrets for any set of units, any fields and any  *)
(* bounds.                                                                 *)
(***************************************************************************)
EXTENDS ReplicaSecrets, TLAPS

Hooks == Events \union {"idle", "rotate"}

TypeOK ==
    /\ secret \in Contents \union {NONE}
    /\ leader \in Units
    /\ due \in [Units -> SUBSET Events]
    /\ hook \in [Units -> Hooks]
    /\ wrote \in [Units -> Contents \union {NONE}]
    /\ publishes \in [Units -> BOOLEAN]
    /\ rendered \in [Units -> Contents \union {NONE}]
    /\ serving \subseteq Units
    /\ upgraded \subseteq Units
    /\ tracking \subseteq Units
    /\ published \in BOOLEAN
    /\ generated \in Nat
    /\ shared \subseteq Contents
    /\ elections \in Nat /\ rotations \in Nat /\ failures \in Nat

(***************************************************************************)
(* What the contents that are generated and completed are.                 *)
(***************************************************************************)
\* New values are there for every field, and are new.
LEMMA GeneratedFacts ==
    ASSUME generated \in Nat
    PROVE  Generated \in Contents /\ Complete(Generated) /\ Generated # NONE
BY NoneAssumption DEF Generated, Contents, Complete

\* Completing a secret leaves no field without value and none with another value.
LEMMA MigratedFacts ==
    ASSUME generated \in Nat, NEW content \in Contents
    PROVE  /\ Migrated(content) \in Contents
           /\ Complete(Migrated(content))
           /\ Migrated(content) # NONE
           /\ \A f \in Fields : content[f] # 0 => Migrated(content)[f] = content[f]
<1>1. \A f \in Fields : Generated[f] = generated + 1 /\ Generated[f] # 0 /\ Generated[f] \in Nat
  BY DEF Generated
<1>2. Migrated(content) \in [Fields -> Nat]
  BY <1>1 DEF Migrated, Contents
<1>3. \A f \in Fields :
         Migrated(content)[f] = IF content[f] = 0 THEN Generated[f] ELSE content[f]
  BY DEF Migrated
<1>4. QED
  BY <1>1, <1>2, <1>3, NoneAssumption DEF Contents, Complete

(***************************************************************************)
(* Every variable keeps its type.                                          *)
(***************************************************************************)
LEMMA InitTyped == Init => TypeOK
<1> SUFFICES ASSUME Init PROVE TypeOK
  OBVIOUS
<1>1. CASE NewApplication
  BY <1>1 DEF Init, NewApplication, TypeOK, Hooks, Events
<1>2. CASE OldApplication
  <2>1. secret \in Contents
    BY <1>2 DEF OldApplication, Contents
  <2>2. QED
    BY <1>2, <2>1 DEF Init, OldApplication, TypeOK, Hooks, Events
<1>3. QED
  BY <1>1, <1>2 DEF Init

\* What the beginning of a hook changes, and what it leaves alone.
LEMMA BeginFacts ==
    ASSUME TypeOK, NEW u \in Units, NEW event \in Events, Begin(u, event)
    PROVE  /\ hook[u] = "idle"
           /\ event \in due[u]
           /\ due' \in [Units -> SUBSET Events]
           /\ due'[u] = due[u] \ {event}
           /\ \A v \in Units \ {u} : due'[v] = due[v] /\ hook'[v] = hook[v]
           /\ hook' \in [Units -> Hooks]
           /\ hook'[u] = event
BY DEF Begin, TypeOK, Hooks

\* The hooks of a unit that do not write to the secret.
LEMMA HandleTyped ==
    ASSUME TypeOK, NEW u \in Units, LeaderElected(u) \/ Await(u) \/ Reconcile(u) \/ Migrate(u)
    PROVE  TypeOK'
<1>1. CASE LeaderElected(u)
  <2>1. wrote' \in [Units -> Contents \union {NONE}] /\ generated' \in Nat
    BY <1>1, GeneratedFacts DEF LeaderElected, Writes, Generate, TypeOK
  <2>2. QED
    BY <1>1, <2>1, BeginFacts DEF LeaderElected, TypeOK, Events, bounds
<1>2. CASE Await(u)
  BY <1>2, BeginFacts DEF Await, TypeOK, Events, Track, bounds
<1>3. CASE Reconcile(u)
  <2>1. rendered' \in [Units -> Contents \union {NONE}]
    <3>1. secret \in Contents /\ rendered' = [rendered EXCEPT ![u] = secret]
      BY <1>3 DEF Reconcile, Serve, SecretIsComplete, TypeOK
    <3>2. QED
      BY <3>1 DEF TypeOK
  <2>2. QED
    BY <1>3, <2>1, BeginFacts DEF Reconcile, Serve, TypeOK, Events, Track, bounds
<1>4. CASE Migrate(u)
  <2>1. Migrated(secret) \in Contents
    BY <1>4, MigratedFacts DEF Migrate, FieldsAreMissing, TypeOK
  <2>2. /\ rendered' \in [Units -> Contents \union {NONE}]
        /\ wrote' \in [Units -> Contents \union {NONE}]
    BY <1>4, <2>1 DEF Migrate, Serve, Writes, TypeOK
  <2>3. QED
    BY <1>4, <2>2, BeginFacts DEF Migrate, Serve, Generate, TypeOK, Events, bounds
<1>5. QED
  BY <1>1, <1>2, <1>3, <1>4

\* The ends of hooks, the action and what Juju does.
LEMMA OthersTyped ==
    ASSUME TypeOK, NEW u \in Units,
           End(u) \/ Refuse(u) \/ Rotate(u) \/ Fail(u) \/ Elect(u) \/ Upgrade(u)
    PROVE  TypeOK'
<1>1. CASE End(u)
  <2>1. due' \in [Units -> SUBSET Events]
    BY <1>1 DEF End, TypeOK, Events
  <2>2. secret' \in Contents \union {NONE} /\ shared' \subseteq Contents
    BY <1>1 DEF End, TypeOK
  <2>3. published' \in BOOLEAN
    BY <1>1 DEF End, TypeOK
  <2>4. QED
    BY <1>1, <2>1, <2>2, <2>3 DEF End, Leave, Writes, TypeOK, Hooks, bounds
<1>2. CASE Refuse(u) \/ Fail(u)
  <2>1. Repeat(u) /\ failures' \in Nat
    BY <1>2 DEF Refuse, Fail, TypeOK
  <2>2. due' \in [Units -> SUBSET Events]
    BY <2>1 DEF Repeat, TypeOK
  <2>3. QED
    BY <2>1, <2>2 DEF Repeat, Leave, Writes, TypeOK, Hooks
<1>3. CASE Rotate(u)
  BY <1>3, GeneratedFacts DEF Rotate, Writes, Generate, TypeOK, Hooks
<1>4. CASE Elect(u) \/ Upgrade(u)
  BY <1>4 DEF Elect, Upgrade, TypeOK, Events, hookVars, bounds
<1>5. QED
  BY <1>1, <1>2, <1>3, <1>4

\* No hook, action or election stores what the code does not know.
THEOREM TypeCorrect == Spec => []TypeOK
<1>1. TypeOK /\ [Next]_vars => TypeOK'
  <2> SUFFICES ASSUME TypeOK, [Next]_vars PROVE TypeOK'
    OBVIOUS
  <2>1. CASE UNCHANGED vars
    BY <2>1 DEF vars, hookVars, bounds, TypeOK
  <2>2. CASE Next
    BY <2>2, HandleTyped, OthersTyped DEF Next, Handle
  <2>3. QED
    BY <2>1, <2>2
<1>2. QED
  BY InitTyped, <1>1, PTL DEF Spec

(***************************************************************************)
(* What units serve.  The property is not inductive: what a unit serves    *)
(* while its hook runs may be known to nobody yet, and whether Juju takes  *)
(* it is decided when the hook ends.  The invariant says where it is until *)
(* then: in the secret, in what the hook is about to write, or in a unit   *)
(* that is due to reconcile again.                                         *)
(***************************************************************************)
IdleHooksHoldNothing == \A u \in Units : hook[u] = "idle" => wrote[u] = NONE

WritesAreComplete == \A u \in Units : wrote[u] # NONE => Complete(wrote[u])

SecretIsShared == secret # NONE => secret \in shared

Supported(u) ==
    \/ rendered[u] \in shared
    \/ hook[u] = "reconcile" /\ wrote[u] = rendered[u]
    \/ "reconcile" \in due[u]

ServedIsSupported ==
    \A u \in serving : rendered[u] # NONE /\ Complete(rendered[u]) /\ Supported(u)

ServingInv ==
    /\ TypeOK
    /\ IdleHooksHoldNothing
    /\ WritesAreComplete
    /\ SecretIsShared
    /\ ServedIsSupported

LEMMA HandleKeepsServing ==
    ASSUME ServingInv, NEW u \in Units,
           LeaderElected(u) \/ Await(u) \/ Reconcile(u) \/ Migrate(u)
    PROVE  ServingInv'
<1> USE DEF ServingInv
<1>1. TypeOK'
  BY HandleTyped
<1>2. IdleHooksHoldNothing' /\ WritesAreComplete'
  <2>1. CASE LeaderElected(u)
    BY <2>1, BeginFacts, GeneratedFacts
       DEF LeaderElected, Writes, TypeOK, Events, IdleHooksHoldNothing, WritesAreComplete, Complete
  <2>2. CASE Await(u) \/ Reconcile(u)
    BY <2>2, BeginFacts
       DEF Await, Reconcile, Events, IdleHooksHoldNothing, WritesAreComplete, Complete
  <2>3. CASE Migrate(u)
    BY <2>3, BeginFacts, MigratedFacts
       DEF Migrate, FieldsAreMissing, Writes, TypeOK, Events, IdleHooksHoldNothing,
           WritesAreComplete, Complete
  <2>4. QED
    BY <2>1, <2>2, <2>3
<1>3. SecretIsShared'
  BY DEF LeaderElected, Await, Reconcile, Migrate, SecretIsShared
<1>4. ServedIsSupported'
  <2>1. CASE LeaderElected(u)
    BY <2>1, BeginFacts
       DEF LeaderElected, Writes, TypeOK, Events, ServedIsSupported, Supported, Complete
  <2>2. CASE Await(u)
    BY <2>2, BeginFacts DEF Await, TypeOK, Events, ServedIsSupported, Supported, Complete
  <2>3. CASE Reconcile(u)
    BY <2>3, BeginFacts
       DEF Reconcile, Serve, TypeOK, Events, SecretIsComplete, SecretIsShared,
           ServedIsSupported, Supported, Complete
  <2>4. CASE Migrate(u)
    <3>1. secret \in Contents /\ rendered'[u] = Migrated(secret) /\ wrote'[u] = Migrated(secret)
      BY <2>4 DEF Migrate, Serve, Writes, FieldsAreMissing, TypeOK
    <3>2. rendered'[u] # NONE /\ Complete(rendered'[u]) /\ wrote'[u] = rendered'[u]
      BY <3>1, MigratedFacts DEF TypeOK
    <3>3. hook'[u] = "reconcile"
      BY <2>4, BeginFacts DEF Migrate, Events
    <3>4. ASSUME NEW v \in serving \ {u}
          PROVE  /\ rendered'[v] = rendered[v] /\ wrote'[v] = wrote[v]
                 /\ hook'[v] = hook[v] /\ due'[v] = due[v] /\ shared' = shared
      BY <2>4, BeginFacts DEF Migrate, Serve, Writes, TypeOK, Events
    <3>5. serving' = serving \union {u}
      BY <2>4 DEF Migrate, Serve
    <3>6. QED
      BY <3>2, <3>3, <3>4, <3>5 DEF ServedIsSupported, Supported, Complete
  <2>5. QED
    BY <2>1, <2>2, <2>3, <2>4
<1>5. QED
  BY <1>1, <1>2, <1>3, <1>4

LEMMA OthersKeepServing ==
    ASSUME ServingInv, NEW u \in Units,
           End(u) \/ Refuse(u) \/ Rotate(u) \/ Fail(u) \/ Elect(u) \/ Upgrade(u)
    PROVE  ServingInv'
<1> USE DEF ServingInv
<1>1. TypeOK'
  BY OthersTyped
<1>2. IdleHooksHoldNothing' /\ WritesAreComplete'
  <2>1. CASE End(u) \/ Refuse(u) \/ Fail(u)
    BY <2>1 DEF End, Refuse, Fail, Repeat, Leave, Writes, TypeOK, IdleHooksHoldNothing,
                WritesAreComplete, Complete
  <2>2. CASE Rotate(u)
    BY <2>2, GeneratedFacts
       DEF Rotate, Writes, TypeOK, IdleHooksHoldNothing, WritesAreComplete, Complete
  <2>3. CASE Elect(u) \/ Upgrade(u)
    BY <2>3 DEF Elect, Upgrade, hookVars, IdleHooksHoldNothing, WritesAreComplete, Complete
  <2>4. QED
    BY <2>1, <2>2, <2>3
<1>3. SecretIsShared'
  BY DEF End, Refuse, Fail, Repeat, Rotate, Elect, Upgrade, SecretIsShared
<1>4. ServedIsSupported'
  <2>1. CASE End(u)
    <3>1. /\ shared \subseteq shared' /\ (wrote[u] # NONE => wrote[u] \in shared')
          /\ \A v \in Units : due[v] \subseteq due'[v]
          /\ \A v \in Units \ {u} : hook'[v] = hook[v] /\ wrote'[v] = wrote[v]
          /\ serving' = serving /\ rendered' = rendered
      BY <2>1 DEF End, Leave, Writes, TypeOK
    <3>2. QED
      BY <3>1 DEF ServedIsSupported, Supported, TypeOK, Complete
  <2>2. CASE Refuse(u) \/ Fail(u)
    <3>1. Repeat(u)
      BY <2>2 DEF Refuse, Fail
    <3>2. /\ shared' = shared /\ serving' = serving /\ rendered' = rendered
          /\ \A v \in Units \ {u} : hook'[v] = hook[v] /\ wrote'[v] = wrote[v]
      BY <3>1 DEF Repeat, Leave, Writes, TypeOK
    <3>3. due' = [due EXCEPT ![u] = @ \union ({hook[u]} \intersect Events)]
      BY <3>1 DEF Repeat
    <3>4. \A v \in Units : due[v] \subseteq due'[v]
      BY <3>3 DEF TypeOK
    <3>5. hook[u] = "reconcile" => "reconcile" \in due'[u]
      BY <3>3 DEF TypeOK, Events
    <3>6. QED
      BY <3>2, <3>4, <3>5 DEF ServedIsSupported, Supported, TypeOK, Complete
  <2>3. CASE Rotate(u)
    BY <2>3 DEF Rotate, Writes, TypeOK, ServedIsSupported, Supported, Complete
  <2>4. CASE Elect(u) \/ Upgrade(u)
    <3>1. /\ shared' = shared /\ serving' = serving /\ rendered' = rendered
          /\ hook' = hook /\ wrote' = wrote
          /\ \A v \in Units : due[v] \subseteq due'[v]
      BY <2>4 DEF Elect, Upgrade, hookVars, TypeOK
    <3>2. QED
      BY <3>1 DEF ServedIsSupported, Supported, TypeOK, Complete
  <2>5. QED
    BY <2>1, <2>2, <2>3, <2>4
<1>5. QED
  BY <1>1, <1>2, <1>3, <1>4

LEMMA ServingStep == ServingInv /\ [Next]_vars => ServingInv'
<1> SUFFICES ASSUME ServingInv, [Next]_vars PROVE ServingInv'
  OBVIOUS
<1>1. CASE UNCHANGED vars
  BY <1>1 DEF vars, hookVars, bounds, ServingInv, TypeOK, IdleHooksHoldNothing,
              WritesAreComplete, Complete, SecretIsShared, ServedIsSupported, Supported
<1>2. CASE Next
  BY <1>2, HandleKeepsServing, OthersKeepServing DEF Next, Handle
<1>3. QED
  BY <1>1, <1>2

LEMMA ServingInvariant == Spec => []ServingInv
<1>1. Init => ServingInv
  BY InitTyped DEF Init, NewApplication, OldApplication, ServingInv, IdleHooksHoldNothing,
                   WritesAreComplete, SecretIsShared, ServedIsSupported
<1>2. QED
  BY <1>1, ServingStep, PTL DEF Spec

\* A unit that serves, and has no hook to repeat, serves secrets that are complete and that the
\* others can read, whatever hooks fail and however leadership moves, even if it returns to a
\* unit before its hook has ended.
THEOREM ServedIsShared == Spec => []ServedSecretsAreShared
<1>1. ServingInv => ServedSecretsAreShared
  BY DEF ServingInv, ServedIsSupported, Supported, ServedSecretsAreShared
<1>2. QED
  BY <1>1, ServingInvariant, PTL

\* Once the secret is complete it stays so: a late write of an earlier revision of it or of a
\* leader that no longer leads never leaves a field without value.
THEOREM SecretStaysComplete == Spec => [][SecretIsComplete => SecretIsComplete']_vars
<1>1. ServingInv /\ [Next]_vars => [SecretIsComplete => SecretIsComplete']_vars
  <2> SUFFICES ASSUME ServingInv, NEW u \in Units,
                      Handle(u) \/ Rotate(u) \/ Fail(u) \/ Elect(u) \/ Upgrade(u),
                      SecretIsComplete
               PROVE  SecretIsComplete'
    BY DEF Next
  <2>1. secret' = secret \/ (secret' = wrote[u] /\ wrote[u] # NONE)
    BY DEF Handle, LeaderElected, Await, Reconcile, Migrate, End, Refuse, Fail, Repeat, Rotate,
           Elect, Upgrade
  <2>2. QED
    BY <2>1 DEF ServingInv, WritesAreComplete, SecretIsComplete, Complete
<1>2. QED
  BY <1>1, ServingInvariant, PTL DEF Spec

(***************************************************************************)
(* Who changes a field.  What the leader's hook has written was computed   *)
(* from the secret that is still there when the hook ends: a unit that has *)
(* written loses its chance to write when it loses leadership, and whoever *)
(* leads then computes from a secret that only it can change.  That fails  *)
(* when leadership returns to a unit before its hook has ended.            *)
(***************************************************************************)
LeaderWrites ==
    wrote[leader] # NONE =>
        \/ hook[leader] = "elected" /\ secret = NONE
        \/ /\ hook[leader] = "reconcile" /\ secret # NONE
           /\ \A f \in Fields : secret[f] # 0 => wrote[leader][f] = secret[f]
        \/ hook[leader] = "rotate"

LEMMA LeaderWritesStep ==
    ASSUME "lease-return" \notin Faults, ServingInv, LeaderWrites, [Next]_vars
    PROVE  LeaderWrites'
<1> USE DEF LeaderWrites
<1>1. CASE UNCHANGED vars
  BY <1>1 DEF vars, hookVars
<1>2. ASSUME NEW u \in Units,
             LeaderElected(u) \/ Await(u) \/ Reconcile(u) \/ Migrate(u)
      PROVE  LeaderWrites'
  <2>1. secret' = secret /\ leader' = leader
    BY <1>2 DEF LeaderElected, Await, Reconcile, Migrate
  <2>2. hook[u] = "idle" /\ \A v \in Units \ {u} : hook'[v] = hook[v]
    BY <1>2, BeginFacts DEF LeaderElected, Await, Reconcile, Migrate, Events, ServingInv
  <2>3. \A v \in Units \ {u} : wrote'[v] = wrote[v]
    BY <1>2 DEF LeaderElected, Await, Reconcile, Migrate, Writes, ServingInv, TypeOK
  <2>4. wrote[u] = NONE
    BY <2>2 DEF ServingInv, IdleHooksHoldNothing
  <2>5. CASE u # leader
    BY <2>1, <2>2, <2>3, <2>5 DEF ServingInv, TypeOK
  <2>6. CASE u = leader /\ LeaderElected(u)
    BY <2>1, <2>4, <2>6, BeginFacts DEF LeaderElected, ServingInv, Events
  <2>7. CASE u = leader /\ (Await(u) \/ Reconcile(u))
    BY <2>1, <2>4, <2>7 DEF Await, Reconcile
  <2>8. CASE u = leader /\ Migrate(u)
    <3>1. secret \in Contents /\ secret # NONE /\ wrote'[u] = Migrated(secret)
      BY <2>8 DEF Migrate, Writes, FieldsAreMissing, ServingInv, TypeOK
    <3>2. \A f \in Fields : secret[f] # 0 => wrote'[u][f] = secret[f]
      BY <3>1, MigratedFacts DEF ServingInv, TypeOK
    <3>3. hook'[u] = "reconcile"
      BY <2>8, BeginFacts DEF Migrate, Events, ServingInv
    <3>4. QED
      BY <2>1, <2>8, <3>1, <3>2, <3>3
  <2>9. QED
    BY <1>2, <2>5, <2>6, <2>7, <2>8
<1>3. ASSUME NEW u \in Units, End(u) \/ Refuse(u) \/ Fail(u)
      PROVE  LeaderWrites'
  <2>1. /\ leader' = leader
        /\ wrote'[u] = NONE
        /\ \A v \in Units \ {u} : hook'[v] = hook[v] /\ wrote'[v] = wrote[v]
    BY <1>3 DEF End, Refuse, Fail, Repeat, Leave, Writes, ServingInv, TypeOK
  <2>2. u # leader => secret' = secret
    BY <1>3 DEF End, NeedsLeadership, Refuse, Fail, Repeat
  <2>3. CASE u = leader
    BY <2>1, <2>3
  <2>4. CASE u # leader
    BY <2>1, <2>2, <2>4 DEF ServingInv, TypeOK
  <2>5. QED
    BY <2>3, <2>4
<1>4. ASSUME NEW u \in Units, Rotate(u)
      PROVE  LeaderWrites'
  BY <1>4 DEF Rotate, ServingInv, TypeOK
<1>5. ASSUME NEW u \in Units, Elect(u)
      PROVE  LeaderWrites'
  BY <1>5 DEF Elect, hookVars
<1>6. ASSUME NEW u \in Units, Upgrade(u)
      PROVE  LeaderWrites'
  BY <1>6 DEF Upgrade, hookVars
<1>7. QED
  BY <1>1, <1>2, <1>3, <1>4, <1>5, <1>6 DEF Next, Handle

\* Only the action rotates: whoever completes the secret, after whatever elections and failed
\* hooks, keeps the value of each field that has one.
THEOREM FieldsAreKept ==
    ASSUME "lease-return" \notin Faults
    PROVE  Spec => OnlyRotationChangesFields
<1>1. Init => LeaderWrites
  BY DEF Init, LeaderWrites
<1>2. ServingInv /\ LeaderWrites /\ [Next]_vars => LeaderWrites'
  BY LeaderWritesStep
<1>3. ServingInv /\ LeaderWrites /\ [Next]_vars => [KeepsFields]_vars
  <2> SUFFICES ASSUME ServingInv, LeaderWrites, NEW u \in Units,
                      Handle(u) \/ Rotate(u) \/ Fail(u) \/ Elect(u) \/ Upgrade(u),
                      NEW f \in Fields, secret # NONE, secret[f] # 0, secret'[f] # secret[f]
               PROVE  \E v \in Units : hook[v] = "rotate" /\ hook'[v] = "idle"
    BY DEF Next, KeepsFields
  <2>1. End(u) /\ wrote[u] # NONE
    BY DEF Handle, LeaderElected, Await, Reconcile, Migrate, End, Refuse, Fail, Repeat, Rotate,
           Elect, Upgrade
  <2>2. u = leader /\ secret' = wrote[u]
    BY <2>1 DEF End, NeedsLeadership
  <2>3. hook[u] = "rotate"
    BY <2>1, <2>2 DEF LeaderWrites
  <2>4. hook'[u] = "idle"
    BY <2>1 DEF End, Leave, ServingInv, TypeOK
  <2>5. QED
    BY <2>3, <2>4
<1>4. QED
  BY <1>1, <1>2, <1>3, ServingInvariant, PTL DEF Spec, OnlyRotationChangesFields
=============================================================================
