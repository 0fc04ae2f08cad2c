------------------------ MODULE DatabaseSetupProofs -------------------------
(***************************************************************************)
(* Proofs about DatabaseSetup, for any number of units, tables, attempts   *)
(* and faults, as long as a leader is not replaced while its hook runs.    *)
(***************************************************************************)
EXTENDS DatabaseSetup, TLAPS

\* What the proofs assume of Juju: the lease of a leader outlasts its hook.
LeaseHolds == "lease-expiry" \notin Faults

AfterUpdate(u) == pc[u] \in {"keys", "engine", "flag"} \union Statements \union Drops
AtATable(u) == pc[u] \in {"keys"} \union Statements \union Drops

\* The table needs nothing more of _reconcile_primary_key_compatibility.
Good(t) == Compliant(t) /\ (t.native \/ t.default)

\* Only the leader works on the database.
OneBusy == \A u \in Units : Busy(u) => u = leader

\* An installation that may reset the database found it empty, and it still holds nothing
\* but what that installation has created.
EmptyMeansEmpty ==
    \A u \in Units :
        /\ pc[u] = "reset" => hook[u].empty
        /\ Busy(u) /\ hook[u].empty => ~flag /\ ~content

\* Where user settings are blank, and who serves.
Settings ==
    /\ configured \intersect blank = {}
    /\ configured # {} => flag
    /\ \A u \in Units :
          /\ pc[u] \in {"install", "wait"} => u \notin blank /\ u \notin configured
          /\ pc[u] = "update" \/ AfterUpdate(u) =>
                (hook[u].then # "attempt" => u \notin blank)
          /\ pc[u] = "flag" => hook[u].then = "flag"

\* What the update of the schema has achieved so far in the hook of u.
UpdatedBy(u) ==
    AfterUpdate(u) =>
        /\ hook[u].then # "attempt" => schema = "full"
        /\ \A n \in Names : Exists(table[n])
        /\ AtATable(u) => \A i \in DOMAIN Tables : i < hook[u].at => Good(table[Tables[i]])
        /\ pc[u] \in {"engine", "flag"} => \A n \in Names : Good(table[n])
        /\ pc[u] = "key" => Current(u).column
        /\ pc[u] = "default" => Current(u).column /\ Current(u).index
        /\ pc[u] \in Drops => Current(u).native
Updated == \A u \in Units : UpdatedBy(u)

----------------------------------------------------------------------------
(* Types.                                                                  *)

\* A position in PRIMARY_KEY_LESS_TABLES names a table.
LEMMA PositionNames ==
    ASSUME NEW i \in Nat \ {0}, i <= Len(Tables)
    PROVE  i \in DOMAIN Tables /\ Tables[i] \in Names
<1>1. Tables \in Seq(STRING)
  BY TablesAssumption
<1>2. i \in DOMAIN Tables
  BY <1>1
<1>. QED
  BY <1>2 DEF Names

LEMMA PositionTypes == Len(Tables) \in Nat /\ DOMAIN Tables = 1..Len(Tables)
BY TablesAssumption

\* The statements yield tables.
LEMMA StatementTypes ==
    ASSUME NEW t \in Table
    PROVE  /\ t # ABSENT /\ Fresh \in Table /\ Fresh # ABSENT
           /\ AddColumnTo(t) \in Table /\ AddKeyTo(t) \in Table
           /\ SetDefaultOf(t) \in Table /\ DropKeyOf(t) \in Table
           /\ DropColumnOf(t) \in Table
<1>1. Fresh \in Table
  BY DEF Table, Fresh
<1>2. t # ABSENT /\ Fresh # ABSENT
  BY <1>1, AbsentAssumption
<1>3. AddColumnTo(t) \in Table
  BY DEF Table, AddColumnTo
<1>4. AddKeyTo(t) \in Table
  BY DEF Table, AddKeyTo
<1>5. SetDefaultOf(t) \in Table
  BY DEF Table, SetDefaultOf
<1>6. DropKeyOf(t) \in Table
  BY DEF Table, DropKeyOf
<1>7. DropColumnOf(t) \in Table
  BY DEF Table, DropColumnOf
<1>. QED
  BY <1>1, <1>2, <1>3, <1>4, <1>5, <1>6, <1>7

LEMMA CreatedTypes ==
    ASSUME TypeOK
    PROVE  /\ Created \in [Names -> Table]
           /\ \A n \in Names : Exists(table[n]) => Created[n] = table[n]
           /\ \A n \in Names : ~Exists(table[n]) => Created[n] = Fresh
BY AbsentAssumption DEF TypeOK, Created, Exists, Fresh, Table

LEMMA NoHookTyped == NoHook \in Hooks
BY AttemptsAssumption, PositionTypes DEF NoHook, Hooks, Purposes

\* A hook in the middle of the tables is at one of them.
Positioned == \A u \in Units : pc[u] \in Statements \union Drops => hook[u].at \in DOMAIN Tables
\* Another attempt follows only where the attempts are not used up.
Attempting ==
    \A u \in Units : pc[u] = "reset" \/ (hook[u].then = "attempt" /\ (pc[u] = "update" \/ AfterUpdate(u))) =>
        hook[u].attempt < MaxAttempts
TInv == TypeOK /\ Positioned /\ Attempting

\* The inductive invariant.
IInv == TInv /\ OneBusy /\ EmptyMeansEmpty /\ Settings /\ Updated /\ InstalledIsComplete

\* What a hook's record holds, and what its updates leave alone.
HookFacts(h) ==
    /\ h.attempt \in 1..MaxAttempts /\ h.attempt \in Nat /\ h.empty \in BOOLEAN /\ h.then \in Purposes
    /\ h.at \in 1..(Len(Tables) + 1)
    /\ \A b \in BOOLEAN : LET k == [NoHook EXCEPT !.empty = b] IN
          k \in Hooks /\ k.empty = b /\ k.then = "idle"
    /\ \A p \in Purposes : LET k == [h EXCEPT !.then = p] IN
          k \in Hooks /\ k.then = p /\ k.empty = h.empty /\ k.attempt = h.attempt
    /\ LET k == [h EXCEPT !.at = 1] IN
          k \in Hooks /\ k.at = 1 /\ k.empty = h.empty /\ k.then = h.then
          /\ k.attempt = h.attempt
    /\ h.at \in 1..Len(Tables) => LET k == [h EXCEPT !.at = @ + 1] IN
          k \in Hooks /\ k.at = h.at + 1 /\ k.empty = h.empty /\ k.then = h.then
          /\ k.attempt = h.attempt
    /\ h.attempt < MaxAttempts => LET k == [h EXCEPT !.attempt = @ + 1] IN
          k \in Hooks /\ k.empty = h.empty /\ k.then = h.then
    /\ NoHook \in Hooks /\ NoHook.then = "idle" /\ NoHook.empty = FALSE

LEMMA HookTypes == \A h \in Hooks : HookFacts(h)
<1>. SUFFICES ASSUME NEW h \in Hooks PROVE HookFacts(h)
  OBVIOUS
<1>1. PICK a \in 1..MaxAttempts, e \in BOOLEAN, t \in Purposes, n \in 1..(Len(Tables) + 1) :
          h = [attempt |-> a, empty |-> e, then |-> t, at |-> n]
  BY DEF Hooks
<1>. QED
  BY <1>1, AttemptsAssumption, PositionTypes, NoHookTyped DEF Hooks, NoHook, Purposes, HookFacts

\* A step of u's hook touches no other unit's.
Goes(u, step) ==
    /\ pc' \in [Units -> Steps] /\ hook' \in [Units -> Hooks]
    /\ pc'[u] = step
    /\ \A v \in Units : v # u => pc'[v] = pc[v] /\ hook'[v] = hook[v]
SameAim(u) ==
    /\ hook'[u].empty = hook[u].empty /\ hook'[u].then = hook[u].then
    /\ hook'[u].attempt = hook[u].attempt

\* What a hook remembers where it goes: all, nothing, all but its purpose, all but its
\* position, or what another attempt needs.
Stays(u, step) == Goes(u, step) /\ SameAim(u) /\ hook'[u].at = hook[u].at
Forgets(u, step) == Goes(u, step) /\ hook'[u].then = "idle" /\ hook'[u].empty = FALSE
Turns(u, step, purpose) ==
    /\ Goes(u, step)
    /\ hook'[u].then = purpose
    /\ hook'[u].empty = hook[u].empty /\ hook'[u].attempt = hook[u].attempt
Rewinds(u, step) == Goes(u, step) /\ SameAim(u) /\ hook'[u].at = 1
Advances(u) ==
    Goes(u, "keys") /\ SameAim(u) /\ hook[u].at \in DOMAIN Tables /\ hook'[u].at = hook[u].at + 1
Retries(u) == Goes(u, "attempt") /\ hook'[u].empty = hook[u].empty

\* Where each action takes the hook, and what the hook remembers then.
LEMMA Movements ==
    ASSUME TInv, NEW u \in Units
    PROVE
        /\ Proceed(u) => Stays(u, "idle")
        /\ FindUninstalled(u) => Stays(u, "install")
        /\ AwaitInstallation(u) => Stays(u, "wait")
        /\ FindInstalled(u) => Stays(u, "idle")
        /\ TimeOut(u) => Stays(u, "idle")
        /\ StartInstall(u) => (Goes(u, "attempt") /\ hook'[u].empty = DatabaseIsEmpty /\ hook'[u].then = "idle")
        /\ InstallSucceeds(u) => Stays(u, "restore")
        /\ InstallFails(u) =>
            (hook[u].attempt = MaxAttempts /\ Forgets(u, "idle")) \/
            (hook[u].attempt < MaxAttempts /\ Turns(u, IF hook[u].empty THEN "reset" ELSE "update", "attempt"))
        /\ Reset(u) => Retries(u)
        /\ ResetFails(u) => Forgets(u, "idle")
        /\ RestoreUserSettings(u) => Turns(u, "update", "flag")
        /\ SetFlag(u) => Forgets(u, "idle")
        /\ RequestedUpdate(u) => Forgets(u, "update")
        /\ UpdateSucceeds(u) => Rewinds(u, "keys")
        /\ UpdateFails(u) =>
            (hook[u].then # "attempt" /\ Forgets(u, "idle")) \/
            (hook[u].then = "attempt" /\ Retries(u))
        /\ AddColumn(u) => Stays(u, "key")
        /\ AddKey(u) => Stays(u, "default")
        /\ SetDefault(u) => Advances(u)
        /\ DropKey(u) => Stays(u, "drop-column")
        /\ DropColumn(u) => Advances(u)
        /\ StatementFails(u) => Forgets(u, "idle") \/ Rewinds(u, "keys")
        /\ DropFails(u) => Advances(u)
        /\ KeysDone(u) => Stays(u, "engine")
        /\ ConvertEngines(u) =>
            (hook[u].then # "attempt" /\ Stays(u, hook[u].then)) \/
            (hook[u].then = "attempt" /\ Retries(u))
        /\ GiveUp(u) => Forgets(u, "idle")
        /\ Crash(u) => Forgets(u, "idle")
<1>t. /\ hook[u] \in Hooks /\ pc[u] \in Steps
      /\ HookFacts(hook[u])
      /\ pc \in [Units -> Steps] /\ hook \in [Units -> Hooks]
  BY HookTypes DEF TInv, TypeOK
<1>. USE DEF TInv, Positioned, Attempting, AfterUpdate, Statements, Drops, Steps, Purposes,
    HookFacts, Goes, SameAim, Stays, Forgets, Turns,
       Rewinds, Advances, Retries
<1>1. Proceed(u) => Stays(u, "idle")
  BY <1>t
  DEF Proceed
<1>2. FindUninstalled(u) => Stays(u, "install")
  BY <1>t
  DEF FindUninstalled, Step
<1>3. AwaitInstallation(u) => Stays(u, "wait")
  BY <1>t
  DEF AwaitInstallation, Step
<1>4. FindInstalled(u) => Stays(u, "idle")
  BY <1>t
  DEF FindInstalled, Step
<1>5. TimeOut(u) => Stays(u, "idle")
  BY <1>t
  DEF TimeOut, Step
<1>6. StartInstall(u) => (Goes(u, "attempt") /\ hook'[u].empty = DatabaseIsEmpty /\ hook'[u].then = "idle")
  <2>1. DatabaseIsEmpty \in BOOLEAN
    BY DEF DatabaseIsEmpty
  <2>. QED
    BY <1>t, <2>1 DEF StartInstall, Step, Remember
<1>7. InstallSucceeds(u) => Stays(u, "restore")
  BY <1>t
  DEF InstallSucceeds, Step
<1>8. InstallFails(u) =>
          (hook[u].attempt = MaxAttempts /\ Forgets(u, "idle")) \/
          (hook[u].attempt < MaxAttempts /\ Turns(u, IF hook[u].empty THEN "reset" ELSE "update", "attempt"))
  <2>1. CASE hook[u].attempt = MaxAttempts
    BY <1>t, <2>1 DEF InstallFails, LastAttempt, Remember, End
  <2>2. CASE hook[u].attempt # MaxAttempts
    <3>1. hook[u].attempt < MaxAttempts
      BY <1>t, <2>2, AttemptsAssumption
    <3>. QED
      BY <1>t, <2>2, <3>1 DEF InstallFails, LastAttempt, Remember
  <2>. QED
    BY <2>1, <2>2
<1>9. Reset(u) => Retries(u)
  BY <1>t
  DEF Reset, Remember, NextAttempt
<1>10. ResetFails(u) => Forgets(u, "idle")
  BY <1>t
  DEF ResetFails, Remember, End
<1>11. RestoreUserSettings(u) => Turns(u, "update", "flag")
  BY <1>t
  DEF RestoreUserSettings, Step, Remember
<1>12. SetFlag(u) => Forgets(u, "idle")
  BY <1>t
  DEF SetFlag, Remember, End
<1>13. RequestedUpdate(u) => Forgets(u, "update")
  BY <1>t
  DEF RequestedUpdate, Step, Remember
<1>14. UpdateSucceeds(u) => Rewinds(u, "keys")
  BY <1>t
  DEF UpdateSucceeds, Step, Remember
<1>15. UpdateFails(u) => (hook[u].then # "attempt" /\ Forgets(u, "idle")) \/ (hook[u].then = "attempt" /\ Retries(u))
  <2>1. UpdateFails(u) /\ hook[u].then # "attempt" => Forgets(u, "idle")
    BY <1>t
    DEF UpdateFails, Remember, End, Raise
  <2>2. UpdateFails(u) /\ hook[u].then = "attempt" => Retries(u)
    BY <1>t
    DEF UpdateFails, Remember, NextAttempt, Raise
  <2>. QED
    BY <2>1, <2>2
<1>16. AddColumn(u) => Stays(u, "key")
  BY <1>t
  DEF AddColumn, GoTo
<1>17. AddKey(u) => Stays(u, "default")
  BY <1>t
  DEF AddKey, GoTo
<1>18. SetDefault(u) => Advances(u)
  BY <1>t
  DEF SetDefault, Remember, NextTable
<1>19. DropKey(u) => Stays(u, "drop-column")
  BY <1>t
  DEF DropKey, GoTo
<1>20. DropColumn(u) => Advances(u)
  BY <1>t
  DEF DropColumn, Remember, NextTable
<1>21. StatementFails(u) => Forgets(u, "idle") \/ Rewinds(u, "keys")
  <2>1. End(u) => Forgets(u, "idle")
    BY <1>t DEF Remember, End
  <2>2. pc' = [pc EXCEPT ![u] = "keys"] /\ Remember(u, [hook[u] EXCEPT !.at = 1]) => Rewinds(u, "keys")
    BY <1>t DEF Remember
  <2>. QED
    BY <2>1, <2>2 DEF StatementFails
<1>22. DropFails(u) => Advances(u)
  BY <1>t
  DEF DropFails, Remember, NextTable
<1>23. KeysDone(u) => Stays(u, "engine")
  BY <1>t
  DEF KeysDone, Step
<1>24. ConvertEngines(u) => (hook[u].then # "attempt" /\ Stays(u, hook[u].then)) \/ (hook[u].then = "attempt" /\ Retries(u))
  <2>1. CASE hook[u].then = "attempt"
    BY <1>t, <2>1 DEF ConvertEngines, Remember, NextAttempt
  <2>2. CASE hook[u].then # "attempt"
    BY <1>t, <2>2 DEF ConvertEngines, GoTo
  <2>. QED
    BY <2>1, <2>2
<1>25. GiveUp(u) => Forgets(u, "idle")
  BY <1>t
  DEF GiveUp, Remember, End
<1>26. Crash(u) => Forgets(u, "idle")
  BY <1>t
  DEF Crash, Remember, End
<1>. QED
  BY <1>1, <1>2, <1>3, <1>4, <1>5, <1>6, <1>7, <1>8, <1>9, <1>10, <1>11, <1>12, <1>13, <1>14,
      <1>15, <1>16, <1>17, <1>18, <1>19, <1>20, <1>21, <1>22, <1>23, <1>24, <1>25, <1>26

\* What _reconcile_primary_key_compatibility finds, and where it goes from there.
LEMMA Inspecting ==
    ASSUME TInv, NEW u \in Units, InspectTable(u)
    PROVE  /\ hook[u].at \in DOMAIN Tables
           /\ UNCHANGED <<database, leader, blank, configured, bounds>>
           /\ \/ /\ Exists(Current(u)) => Good(Current(u))
                 /\ Advances(u)
              \/ Exists(Current(u)) /\ Current(u).native /\ Stays(u, "drop-key")
              \/ Current(u).column /\ Current(u).index /\ Stays(u, "default")
              \/ Current(u).column /\ Stays(u, "key")
              \/ Stays(u, "column")
              \/ hook[u].then # "attempt" /\ Forgets(u, "idle")
              \/ /\ hook[u].then = "attempt"
                 /\ Retries(u)
<1>t. /\ hook[u] \in Hooks /\ pc[u] \in Steps
      /\ HookFacts(hook[u])
      /\ pc \in [Units -> Steps] /\ hook \in [Units -> Hooks]
  BY HookTypes DEF TInv, TypeOK
<1>a. /\ pc[u] = "keys" /\ hook[u].at \in 1..Len(Tables) /\ hook[u].at \in DOMAIN Tables
      /\ UNCHANGED <<database, leader, blank, configured, bounds>>
  BY <1>t, PositionTypes DEF InspectTable, HookFacts
<1>r. ASSUME Raise(u)
      PROVE  \/ hook[u].then # "attempt" /\ Forgets(u, "idle")
             \/ /\ hook[u].then = "attempt"
                /\ Retries(u)
  <2> USE DEF Raise, Goes, SameAim, Retries, HookFacts, Steps
  <2>1. CASE hook[u].then # "attempt"
    BY <1>t, <1>a, <1>r, <2>1 DEF End, Remember, Forgets
  <2>2. CASE hook[u].then = "attempt"
    BY <1>t, <1>a, <1>r, <2>2 DEF NextAttempt, Remember, TInv, Attempting, AfterUpdate
  <2>3. QED
    BY <2>1, <2>2
<1>n. ASSUME NextTable(u)
      PROVE  Advances(u)
  BY <1>t, <1>a, <1>n
  DEF NextTable, Remember, Goes, SameAim, Stays, Forgets, Turns, Rewinds, Advances, Retries,
      HookFacts, Steps
<1>g. ASSUME NEW step \in Steps, GoTo(u, step)
      PROVE  Stays(u, step)
  BY <1>t, <1>g DEF GoTo, Goes, SameAim, Stays, Forgets, Turns, Rewinds, Advances, Retries
<1>s. {"drop-key", "default", "key", "column"} \subseteq Steps
  BY DEF Steps, Statements, Drops
<1>1. CASE ~Exists(Current(u))
  BY <1>1, <1>a, <1>n DEF InspectTable, Redundant, Incomplete
<1>2. CASE Exists(Current(u)) /\ Redundant(Current(u))
  <2>1. GoTo(u, "drop-key")
    BY <1>2 DEF InspectTable, Redundant, Incomplete
  <2>. QED
    BY <2>1, <1>2, <1>a, <1>g, <1>s DEF Redundant
<1>3. CASE Exists(Current(u)) /\ Incomplete(Current(u))
  <2>1. GoTo(u, IF Current(u).index THEN "default" ELSE "key")
    BY <1>3 DEF InspectTable, Redundant, Incomplete
  <2>. QED
    BY <2>1, <1>3, <1>a, <1>g, <1>s DEF Incomplete
<1>4. CASE Exists(Current(u)) /\ ~Current(u).column /\ ~Current(u).native
  <2>1. Raise(u) \/ GoTo(u, "column")
    BY <1>4 DEF InspectTable, Redundant, Incomplete
  <2>. QED
    BY <2>1, <1>a, <1>g, <1>s, <1>r
<1>5. CASE /\ Exists(Current(u)) /\ ~Redundant(Current(u)) /\ ~Incomplete(Current(u))
           /\ Current(u).column \/ Current(u).native
  <2>1. NextTable(u)
    BY <1>5 DEF InspectTable, Redundant, Incomplete
  <2>2. Good(Current(u))
    BY <1>5 DEF Good, Redundant, Incomplete, Compliant
  <2>. QED
    BY <2>1, <2>2, <1>a, <1>n
<1>. QED
  BY <1>1, <1>2, <1>3, <1>4, <1>5

LEMMA TypesInit == Init => TInv
<1>. SUFFICES ASSUME Init PROVE TInv
  OBVIOUS
<1>1. schema \in Schemas /\ leader \in Units /\ blank \subseteq Units /\ configured \subseteq Units
      /\ faults \in 0..MaxFaults /\ updates \in 0..MaxUpdates
  BY BoundsAssumption DEF Init, Schemas
<1>2. flag \in BOOLEAN /\ content \in BOOLEAN
  BY Zenon DEF Init
<1>3. /\ pc \in [Units -> Steps] /\ hook \in [Units -> Hooks]
      /\ table \in [Names -> Table \union {ABSENT}]
  BY NoHookTyped DEF Init, Steps
<1>4. Positioned /\ Attempting
  BY DEF Init, Positioned, Attempting, AfterUpdate, Statements, Drops
<1>. QED
  BY <1>1, <1>2, <1>3, <1>4 DEF TInv, TypeOK

\* The types of everything but the hooks.
DataOK ==
    /\ schema \in Schemas
    /\ flag \in BOOLEAN /\ content \in BOOLEAN
    /\ table \in [Names -> Table \union {ABSENT}]
    /\ leader \in Units
    /\ blank \subseteq Units /\ configured \subseteq Units
    /\ faults \in 0..MaxFaults /\ updates \in 0..MaxUpdates

LEMMA DataStep ==
    ASSUME TInv, NEW u \in Units
    PROVE  /\ Proceed(u) \/ Waiting(u) \/ Installing(u) \/ Updating(u) \/ Failing(u) => DataOK'
           /\ UsersWrite => DataOK'
<1>. USE DEF DataOK
<1>t. DataOK /\ faults \in Nat /\ updates \in Nat
  BY BoundsAssumption DEF TInv, TypeOK
<1>0. ASSUME UNCHANGED <<database, leader>>, blank' \subseteq Units, configured' \subseteq Units,
             faults' \in 0..MaxFaults, updates' \in 0..MaxUpdates
      PROVE  DataOK'
  BY <1>t, <1>0 DEF database
<1>c. ASSUME CountFault, faults < MaxFaults
      PROVE  faults' \in 0..MaxFaults /\ updates' \in 0..MaxUpdates
  BY <1>t, <1>c, BoundsAssumption DEF CountFault
<1>1. ASSUME Proceed(u) PROVE DataOK'
  BY <1>1, <1>t, <1>0 DEF Proceed, bounds
<1>2. ASSUME FindUninstalled(u) PROVE DataOK'
  BY <1>2, <1>t, <1>0 DEF FindUninstalled, bounds
<1>3. ASSUME AwaitInstallation(u) PROVE DataOK'
  BY <1>3, <1>t, <1>0 DEF AwaitInstallation, bounds
<1>4. ASSUME FindInstalled(u) PROVE DataOK'
  BY <1>4, <1>t, <1>0 DEF FindInstalled, bounds
<1>5. ASSUME TimeOut(u) PROVE DataOK'
  BY <1>5, <1>t, <1>0 DEF TimeOut, bounds
<1>6. ASSUME StartInstall(u) PROVE DataOK'
  BY <1>6, <1>t, <1>0 DEF StartInstall, bounds
<1>7. ASSUME InstallSucceeds(u) PROVE DataOK'
  <2>1. flag' \in BOOLEAN /\ content' \in BOOLEAN
    BY <1>7, <1>t, Zenon DEF InstallSucceeds, database
  <2>2. table' \in [Names -> Table \union {ABSENT}]
    BY <1>7, <1>t, CreatedTypes DEF InstallSucceeds, TInv, database
  <2>3. /\ schema' \in Schemas /\ leader' \in Units
        /\ blank' \subseteq Units /\ configured' \subseteq Units
        /\ faults' \in 0..MaxFaults /\ updates' \in 0..MaxUpdates
    BY <1>7, <1>t DEF InstallSucceeds, Schemas, bounds, database
  <2>. QED
    BY <2>1, <2>2, <2>3
<1>8. ASSUME InstallFails(u) PROVE DataOK'
  <2>1. flag' \in BOOLEAN /\ content' \in BOOLEAN
    BY <1>8, <1>t, Zenon DEF InstallFails, database
  <2>2. table' \in [Names -> Table \union {ABSENT}]
    BY <1>8, <1>t, CreatedTypes DEF InstallFails, TInv, database
  <2>3. /\ schema' \in Schemas /\ leader' \in Units
        /\ blank' \subseteq Units /\ configured' \subseteq Units
        /\ faults' \in 0..MaxFaults /\ updates' \in 0..MaxUpdates
    BY <1>8, <1>t, <1>c DEF InstallFails, Schemas, bounds, database, Has
  <2>. QED
    BY <2>1, <2>2, <2>3
<1>9. ASSUME Reset(u) PROVE DataOK'
  <2>1. flag' \in BOOLEAN /\ content' \in BOOLEAN
    BY <1>9, <1>t, Zenon DEF Reset, database
  <2>2. table' \in [Names -> Table \union {ABSENT}]
    BY <1>9, <1>t DEF Reset, TInv, database
  <2>3. /\ schema' \in Schemas /\ leader' \in Units
        /\ blank' \subseteq Units /\ configured' \subseteq Units
        /\ faults' \in 0..MaxFaults /\ updates' \in 0..MaxUpdates
    BY <1>9, <1>t DEF Reset, Schemas, bounds, database
  <2>. QED
    BY <2>1, <2>2, <2>3
<1>10. ASSUME ResetFails(u) PROVE DataOK'
  <2>1. flag' \in BOOLEAN /\ content' \in BOOLEAN
    BY <1>10, <1>t, Zenon DEF ResetFails, database
  <2>2. table' \in [Names -> Table \union {ABSENT}]
    BY <1>10, <1>t DEF ResetFails, TInv, database
  <2>3. /\ schema' \in Schemas /\ leader' \in Units
        /\ blank' \subseteq Units /\ configured' \subseteq Units
        /\ faults' \in 0..MaxFaults /\ updates' \in 0..MaxUpdates
    BY <1>10, <1>t, <1>c DEF ResetFails, Schemas, bounds, database, Has
  <2>. QED
    BY <2>1, <2>2, <2>3
<1>11. ASSUME RestoreUserSettings(u) PROVE DataOK'
  BY <1>11, <1>t, <1>0 DEF RestoreUserSettings, bounds
<1>12. ASSUME SetFlag(u) PROVE DataOK'
  <2>1. flag' \in BOOLEAN /\ content' \in BOOLEAN
    BY <1>12, <1>t, Zenon DEF SetFlag, database
  <2>2. table' \in [Names -> Table \union {ABSENT}]
    BY <1>12, <1>t DEF SetFlag, TInv, database
  <2>3. /\ schema' \in Schemas /\ leader' \in Units
        /\ blank' \subseteq Units /\ configured' \subseteq Units
        /\ faults' \in 0..MaxFaults /\ updates' \in 0..MaxUpdates
    BY <1>12, <1>t DEF SetFlag, Schemas, bounds, database
  <2>. QED
    BY <2>1, <2>2, <2>3
<1>13. ASSUME RequestedUpdate(u) PROVE DataOK'
  <2>1. updates' \in 0..MaxUpdates
    BY <1>13, <1>t, BoundsAssumption DEF RequestedUpdate
  <2>. QED
    BY <1>13, <2>1, <1>t, <1>0 DEF RequestedUpdate
<1>14. ASSUME UpdateSucceeds(u) PROVE DataOK'
  <2>1. flag' \in BOOLEAN /\ content' \in BOOLEAN
    BY <1>14, <1>t, Zenon DEF UpdateSucceeds, database
  <2>2. table' \in [Names -> Table \union {ABSENT}]
    <3>1. PICK migrated \in SUBSET Names :
              table' = [n \in Names |-> [Created[n] EXCEPT !.native = @ \/ n \in migrated]]
      BY <1>14 DEF UpdateSucceeds
    <3>2. \A n \in Names : Created[n] \in Table
      BY CreatedTypes DEF TInv
    <3>3. \A t \in Table : \A b \in BOOLEAN : [t EXCEPT !.native = b] \in Table
      BY DEF Table
    <3>4. \A n \in Names : (Created[n].native \/ n \in migrated) \in BOOLEAN
      OBVIOUS
    <3>5. \A n \in Names : [Created[n] EXCEPT !.native = @ \/ n \in migrated] \in Table
      BY <3>2, <3>3, <3>4
    <3>. QED
      BY <3>1, <3>5
  <2>3. /\ schema' \in Schemas /\ leader' \in Units
        /\ blank' \subseteq Units /\ configured' \subseteq Units
        /\ faults' \in 0..MaxFaults /\ updates' \in 0..MaxUpdates
    BY <1>14, <1>t DEF UpdateSucceeds, Schemas, bounds, database
  <2>. QED
    BY <2>1, <2>2, <2>3
<1>15. ASSUME UpdateFails(u) PROVE DataOK'
  BY <1>15, <1>t, <1>0, <1>c DEF UpdateFails, bounds, Has
<1>16. ASSUME InspectTable(u) PROVE DataOK'
  BY <1>16, <1>t, <1>0, Inspecting DEF bounds
<1>17. ASSUME AddColumn(u) PROVE DataOK'
  <2>1. flag' \in BOOLEAN /\ content' \in BOOLEAN
    BY <1>17, <1>t, Zenon DEF AddColumn, database, Alter
  <2>2. table' \in [Names -> Table \union {ABSENT}]
    <3>1. AtTable(u) \in Names
      BY <1>17, PositionNames, PositionTypes
      DEF TInv, Positioned, AddColumn, Statements, Drops, AtTable
    <3>2. Current(u) \in Table
      BY <1>17, <3>1, <1>t DEF AddColumn, CanAddColumn, Exists, Current
    <3>3. AddColumnTo(Current(u)) \in Table
      BY <3>2, StatementTypes
    <3>. QED
      BY <1>17, <3>1, <3>3, <1>t DEF AddColumn, Alter
  <2>3. /\ schema' \in Schemas /\ leader' \in Units
        /\ blank' \subseteq Units /\ configured' \subseteq Units
        /\ faults' \in 0..MaxFaults /\ updates' \in 0..MaxUpdates
    BY <1>17, <1>t DEF AddColumn, Schemas, bounds, database, Alter
  <2>. QED
    BY <2>1, <2>2, <2>3
<1>18. ASSUME AddKey(u) PROVE DataOK'
  <2>1. flag' \in BOOLEAN /\ content' \in BOOLEAN
    BY <1>18, <1>t, Zenon DEF AddKey, database, Alter
  <2>2. table' \in [Names -> Table \union {ABSENT}]
    <3>1. AtTable(u) \in Names
      BY <1>18, PositionNames, PositionTypes
      DEF TInv, Positioned, AddKey, Statements, Drops, AtTable
    <3>2. Current(u) \in Table
      BY <1>18, <3>1, <1>t DEF AddKey, CanAddKey, Exists, Current
    <3>3. AddKeyTo(Current(u)) \in Table
      BY <3>2, StatementTypes
    <3>. QED
      BY <1>18, <3>1, <3>3, <1>t DEF AddKey, Alter
  <2>3. /\ schema' \in Schemas /\ leader' \in Units
        /\ blank' \subseteq Units /\ configured' \subseteq Units
        /\ faults' \in 0..MaxFaults /\ updates' \in 0..MaxUpdates
    BY <1>18, <1>t DEF AddKey, Schemas, bounds, database, Alter
  <2>. QED
    BY <2>1, <2>2, <2>3
<1>19. ASSUME SetDefault(u) PROVE DataOK'
  <2>1. flag' \in BOOLEAN /\ content' \in BOOLEAN
    BY <1>19, <1>t, Zenon DEF SetDefault, database, Alter
  <2>2. table' \in [Names -> Table \union {ABSENT}]
    <3>1. AtTable(u) \in Names
      BY <1>19, PositionNames, PositionTypes
      DEF TInv, Positioned, SetDefault, Statements, Drops, AtTable
    <3>2. Current(u) \in Table
      BY <1>19, <3>1, <1>t DEF SetDefault, CanSetDefault, Exists, Current
    <3>3. SetDefaultOf(Current(u)) \in Table
      BY <3>2, StatementTypes
    <3>. QED
      BY <1>19, <3>1, <3>3, <1>t DEF SetDefault, Alter
  <2>3. /\ schema' \in Schemas /\ leader' \in Units
        /\ blank' \subseteq Units /\ configured' \subseteq Units
        /\ faults' \in 0..MaxFaults /\ updates' \in 0..MaxUpdates
    BY <1>19, <1>t DEF SetDefault, Schemas, bounds, database, Alter
  <2>. QED
    BY <2>1, <2>2, <2>3
<1>20. ASSUME DropKey(u) PROVE DataOK'
  <2>1. flag' \in BOOLEAN /\ content' \in BOOLEAN
    BY <1>20, <1>t, Zenon DEF DropKey, database, Alter
  <2>2. table' \in [Names -> Table \union {ABSENT}]
    <3>1. AtTable(u) \in Names
      BY <1>20, PositionNames, PositionTypes
      DEF TInv, Positioned, DropKey, Statements, Drops, AtTable
    <3>2. Current(u) \in Table
      BY <1>20, <3>1, <1>t DEF DropKey, CanDropKey, Exists, Current
    <3>3. DropKeyOf(Current(u)) \in Table
      BY <3>2, StatementTypes
    <3>. QED
      BY <1>20, <3>1, <3>3, <1>t DEF DropKey, Alter
  <2>3. /\ schema' \in Schemas /\ leader' \in Units
        /\ blank' \subseteq Units /\ configured' \subseteq Units
        /\ faults' \in 0..MaxFaults /\ updates' \in 0..MaxUpdates
    BY <1>20, <1>t DEF DropKey, Schemas, bounds, database, Alter
  <2>. QED
    BY <2>1, <2>2, <2>3
<1>21. ASSUME DropColumn(u) PROVE DataOK'
  <2>1. flag' \in BOOLEAN /\ content' \in BOOLEAN
    BY <1>21, <1>t, Zenon DEF DropColumn, database, Alter
  <2>2. table' \in [Names -> Table \union {ABSENT}]
    <3>1. AtTable(u) \in Names
      BY <1>21, PositionNames, PositionTypes
      DEF TInv, Positioned, DropColumn, Statements, Drops, AtTable
    <3>2. Current(u) \in Table
      BY <1>21, <3>1, <1>t DEF DropColumn, CanDropColumn, Exists, Current
    <3>3. DropColumnOf(Current(u)) \in Table
      BY <3>2, StatementTypes
    <3>. QED
      BY <1>21, <3>1, <3>3, <1>t DEF DropColumn, Alter
  <2>3. /\ schema' \in Schemas /\ leader' \in Units
        /\ blank' \subseteq Units /\ configured' \subseteq Units
        /\ faults' \in 0..MaxFaults /\ updates' \in 0..MaxUpdates
    BY <1>21, <1>t DEF DropColumn, Schemas, bounds, database, Alter
  <2>. QED
    BY <2>1, <2>2, <2>3
<1>22. ASSUME StatementFails(u) PROVE DataOK'
  BY <1>22, <1>t, <1>0, <1>c DEF StatementFails, bounds, Rejected, Has
<1>23. ASSUME DropFails(u) PROVE DataOK'
  BY <1>23, <1>t, <1>0, <1>c DEF DropFails, bounds, Rejected, Has
<1>24. ASSUME KeysDone(u) PROVE DataOK'
  BY <1>24, <1>t, <1>0 DEF KeysDone, bounds
<1>25. ASSUME ConvertEngines(u) PROVE DataOK'
  BY <1>25, <1>t, <1>0 DEF ConvertEngines, bounds
<1>26. ASSUME GiveUp(u) PROVE DataOK'
  BY <1>26, <1>t, <1>0, <1>c DEF GiveUp, bounds, Has
<1>27. ASSUME Crash(u) PROVE DataOK'
  BY <1>27, <1>t, <1>0, <1>c DEF Crash, bounds, Has
<1>28. ASSUME Elect(u) PROVE DataOK'
  BY <1>28, <1>t, <1>c DEF Elect, CountFault, database
<1>u. ASSUME UsersWrite PROVE DataOK'
  <2>1. PICK n \in Names : Insertable(table[n]) /\ table' = [table EXCEPT ![n].rows = TRUE]
    BY <1>u DEF UsersWrite
  <2>2. table[n] \in Table
    BY <2>1, <1>t DEF Insertable, Exists
  <2>3. [table[n] EXCEPT !.rows = TRUE] \in Table
    BY <2>2 DEF Table
  <2>4. table' \in [Names -> Table \union {ABSENT}]
    BY <2>1, <2>3, <1>t
  <2>5. flag' \in BOOLEAN /\ content' \in BOOLEAN
    BY <1>u, <1>t, Zenon DEF UsersWrite
  <2>. QED
    BY <1>u, <1>t, <2>4, <2>5 DEF UsersWrite, bounds
<1>. QED
  BY <1>u, <1>1, <1>2, <1>3, <1>4, <1>5, <1>6, <1>7, <1>8, <1>9, <1>10, <1>11, <1>12, <1>13,
      <1>14, <1>15, <1>16, <1>17, <1>18, <1>19, <1>20, <1>21, <1>22, <1>23, <1>24, <1>25,
      <1>26, <1>27, <1>28
  DEF Waiting, Installing, Updating, Failing

LEMMA TypesStep ==
    ASSUME TInv, NEW u \in Units
    PROVE  /\ Proceed(u) \/ Waiting(u) \/ Installing(u) \/ Updating(u) \/ Failing(u) => TInv'
           /\ UsersWrite => TInv'
<1>t. /\ HookFacts(hook[u]) /\ Positioned /\ Attempting /\ pc[u] \in Steps
      /\ pc \in [Units -> Steps] /\ hook \in [Units -> Hooks]
  BY HookTypes DEF TInv, TypeOK
<1>d. /\ Proceed(u) \/ Waiting(u) \/ Installing(u) \/ Updating(u) \/ Failing(u) => DataOK'
      /\ UsersWrite => DataOK'
  BY DataStep
<1>q. ASSUME DataOK', pc' \in [Units -> Steps], hook' \in [Units -> Hooks], Positioned', Attempting'
      PROVE  TInv'
  BY <1>q DEF TInv, TypeOK, DataOK
<1>m. ASSUME pc[u] \in Statements, NEW step \in Statements, Stays(u, step)
      PROVE  pc' \in [Units -> Steps] /\ hook' \in [Units -> Hooks] /\ Positioned' /\ Attempting'
  BY <1>m, <1>t DEF Goes, SameAim, Stays, Positioned, Attempting, AfterUpdate, Statements, Drops
<1>1. ASSUME Proceed(u) PROVE TInv'
  <2>1. Stays(u, "idle")
    BY <1>1, Movements
  <2>2. pc' \in [Units -> Steps] /\ hook' \in [Units -> Hooks] /\ Positioned' /\ Attempting'
    BY <1>1, <2>1, <1>t
    DEF Proceed, Goes, SameAim, Stays, Forgets, Turns, Rewinds, Advances, Retries, HookFacts,
        Positioned, Attempting, AfterUpdate, Statements, Drops
  <2>. QED
    BY <1>1, <2>1, <2>2, <1>d, <1>q DEF Waiting, Installing, Updating, Failing
<1>2. ASSUME FindUninstalled(u) PROVE TInv'
  <2>1. Stays(u, "install")
    BY <1>2, Movements
  <2>2. pc' \in [Units -> Steps] /\ hook' \in [Units -> Hooks] /\ Positioned' /\ Attempting'
    BY <1>2, <2>1, <1>t
    DEF FindUninstalled, Step, Goes, SameAim, Stays, Forgets, Turns, Rewinds, Advances,
        Retries, HookFacts, Positioned, Attempting, AfterUpdate, Statements, Drops
  <2>. QED
    BY <1>2, <2>1, <2>2, <1>d, <1>q DEF Waiting, Installing, Updating, Failing
<1>3. ASSUME AwaitInstallation(u) PROVE TInv'
  <2>1. Stays(u, "wait")
    BY <1>3, Movements
  <2>2. pc' \in [Units -> Steps] /\ hook' \in [Units -> Hooks] /\ Positioned' /\ Attempting'
    BY <1>3, <2>1, <1>t
    DEF AwaitInstallation, Step, Goes, SameAim, Stays, Forgets, Turns, Rewinds, Advances,
        Retries, HookFacts, Positioned, Attempting, AfterUpdate, Statements, Drops
  <2>. QED
    BY <1>3, <2>1, <2>2, <1>d, <1>q DEF Waiting, Installing, Updating, Failing
<1>4. ASSUME FindInstalled(u) PROVE TInv'
  <2>1. Stays(u, "idle")
    BY <1>4, Movements
  <2>2. pc' \in [Units -> Steps] /\ hook' \in [Units -> Hooks] /\ Positioned' /\ Attempting'
    BY <1>4, <2>1, <1>t
    DEF FindInstalled, Step, Goes, SameAim, Stays, Forgets, Turns, Rewinds, Advances, Retries,
        HookFacts, Positioned, Attempting, AfterUpdate, Statements, Drops
  <2>. QED
    BY <1>4, <2>1, <2>2, <1>d, <1>q DEF Waiting, Installing, Updating, Failing
<1>5. ASSUME TimeOut(u) PROVE TInv'
  <2>1. Stays(u, "idle")
    BY <1>5, Movements
  <2>2. pc' \in [Units -> Steps] /\ hook' \in [Units -> Hooks] /\ Positioned' /\ Attempting'
    BY <1>5, <2>1, <1>t
    DEF TimeOut, Step, Goes, SameAim, Stays, Forgets, Turns, Rewinds, Advances, Retries,
        HookFacts, Positioned, Attempting, AfterUpdate, Statements, Drops
  <2>. QED
    BY <1>5, <2>1, <2>2, <1>d, <1>q DEF Waiting, Installing, Updating, Failing
<1>6. ASSUME StartInstall(u) PROVE TInv'
  <2>1. (Goes(u, "attempt") /\ hook'[u].empty = DatabaseIsEmpty /\ hook'[u].then = "idle")
    BY <1>6, Movements
  <2>2. pc' \in [Units -> Steps] /\ hook' \in [Units -> Hooks] /\ Positioned' /\ Attempting'
    BY <1>6, <2>1, <1>t
    DEF StartInstall, Step, Goes, SameAim, Stays, Forgets, Turns, Rewinds, Advances, Retries,
        HookFacts, Positioned, Attempting, AfterUpdate, Statements, Drops
  <2>. QED
    BY <1>6, <2>1, <2>2, <1>d, <1>q DEF Waiting, Installing, Updating, Failing
<1>7. ASSUME InstallSucceeds(u) PROVE TInv'
  <2>1. Stays(u, "restore")
    BY <1>7, Movements
  <2>2. pc' \in [Units -> Steps] /\ hook' \in [Units -> Hooks] /\ Positioned' /\ Attempting'
    BY <1>7, <2>1, <1>t
    DEF InstallSucceeds, Step, Goes, SameAim, Stays, Forgets, Turns, Rewinds, Advances,
        Retries, HookFacts, Positioned, Attempting, AfterUpdate, Statements, Drops
  <2>. QED
    BY <1>7, <2>1, <2>2, <1>d, <1>q DEF Waiting, Installing, Updating, Failing
<1>8. ASSUME InstallFails(u) PROVE TInv'
  <2>1. (hook[u].attempt = MaxAttempts /\ Forgets(u, "idle")) \/ (hook[u].attempt < MaxAttempts /\ Turns(u, IF hook[u].empty THEN "reset" ELSE "update", "attempt"))
    BY <1>8, Movements
  <2>2. pc' \in [Units -> Steps] /\ hook' \in [Units -> Hooks] /\ Positioned' /\ Attempting'
    BY <1>8, <2>1, <1>t
    DEF InstallFails, Goes, SameAim, Stays, Forgets, Turns, Rewinds, Advances, Retries,
        HookFacts, Positioned, Attempting, AfterUpdate, Statements, Drops
  <2>. QED
    BY <1>8, <2>1, <2>2, <1>d, <1>q DEF Waiting, Installing, Updating, Failing
<1>9. ASSUME Reset(u) PROVE TInv'
  <2>1. Retries(u)
    BY <1>9, Movements
  <2>2. pc' \in [Units -> Steps] /\ hook' \in [Units -> Hooks] /\ Positioned' /\ Attempting'
    BY <1>9, <2>1, <1>t
    DEF Reset, Goes, SameAim, Stays, Forgets, Turns, Rewinds, Advances, Retries, HookFacts,
        Positioned, Attempting, AfterUpdate, Statements, Drops
  <2>. QED
    BY <1>9, <2>1, <2>2, <1>d, <1>q DEF Waiting, Installing, Updating, Failing
<1>10. ASSUME ResetFails(u) PROVE TInv'
  <2>1. Forgets(u, "idle")
    BY <1>10, Movements
  <2>2. pc' \in [Units -> Steps] /\ hook' \in [Units -> Hooks] /\ Positioned' /\ Attempting'
    BY <1>10, <2>1, <1>t
    DEF ResetFails, Goes, SameAim, Stays, Forgets, Turns, Rewinds, Advances, Retries,
        HookFacts, Positioned, Attempting, AfterUpdate, Statements, Drops
  <2>. QED
    BY <1>10, <2>1, <2>2, <1>d, <1>q DEF Waiting, Installing, Updating, Failing
<1>11. ASSUME RestoreUserSettings(u) PROVE TInv'
  <2>1. Turns(u, "update", "flag")
    BY <1>11, Movements
  <2>2. pc' \in [Units -> Steps] /\ hook' \in [Units -> Hooks] /\ Positioned' /\ Attempting'
    BY <1>11, <2>1, <1>t
    DEF RestoreUserSettings, Step, Goes, SameAim, Stays, Forgets, Turns, Rewinds, Advances,
        Retries, HookFacts, Positioned, Attempting, AfterUpdate, Statements, Drops
  <2>. QED
    BY <1>11, <2>1, <2>2, <1>d, <1>q DEF Waiting, Installing, Updating, Failing
<1>12. ASSUME SetFlag(u) PROVE TInv'
  <2>1. Forgets(u, "idle")
    BY <1>12, Movements
  <2>2. pc' \in [Units -> Steps] /\ hook' \in [Units -> Hooks] /\ Positioned' /\ Attempting'
    BY <1>12, <2>1, <1>t
    DEF SetFlag, Goes, SameAim, Stays, Forgets, Turns, Rewinds, Advances, Retries, HookFacts,
        Positioned, Attempting, AfterUpdate, Statements, Drops
  <2>. QED
    BY <1>12, <2>1, <2>2, <1>d, <1>q DEF Waiting, Installing, Updating, Failing
<1>13. ASSUME RequestedUpdate(u) PROVE TInv'
  <2>1. Forgets(u, "update")
    BY <1>13, Movements
  <2>2. pc' \in [Units -> Steps] /\ hook' \in [Units -> Hooks] /\ Positioned' /\ Attempting'
    BY <1>13, <2>1, <1>t
    DEF RequestedUpdate, Step, Goes, SameAim, Stays, Forgets, Turns, Rewinds, Advances,
        Retries, HookFacts, Positioned, Attempting, AfterUpdate, Statements, Drops
  <2>. QED
    BY <1>13, <2>1, <2>2, <1>d, <1>q DEF Waiting, Installing, Updating, Failing
<1>14. ASSUME UpdateSucceeds(u) PROVE TInv'
  <2>1. Rewinds(u, "keys")
    BY <1>14, Movements
  <2>2. pc' \in [Units -> Steps] /\ hook' \in [Units -> Hooks] /\ Positioned' /\ Attempting'
    BY <1>14, <2>1, <1>t
    DEF UpdateSucceeds, Step, Goes, SameAim, Stays, Forgets, Turns, Rewinds, Advances, Retries,
        HookFacts, Positioned, Attempting, AfterUpdate, Statements, Drops
  <2>. QED
    BY <1>14, <2>1, <2>2, <1>d, <1>q DEF Waiting, Installing, Updating, Failing
<1>15. ASSUME UpdateFails(u) PROVE TInv'
  <2>1. (hook[u].then # "attempt" /\ Forgets(u, "idle")) \/ (hook[u].then = "attempt" /\ Retries(u))
    BY <1>15, Movements
  <2>2. pc' \in [Units -> Steps] /\ hook' \in [Units -> Hooks] /\ Positioned' /\ Attempting'
    BY <1>15, <2>1, <1>t
    DEF UpdateFails, Goes, SameAim, Stays, Forgets, Turns, Rewinds, Advances, Retries,
        HookFacts, Positioned, Attempting, AfterUpdate, Statements, Drops
  <2>. QED
    BY <1>15, <2>1, <2>2, <1>d, <1>q DEF Waiting, Installing, Updating, Failing
<1>16. ASSUME InspectTable(u) PROVE TInv'
  <2>1. pc' \in [Units -> Steps] /\ hook' \in [Units -> Hooks]
    BY <1>16, Inspecting DEF Goes, SameAim, Stays, Forgets, Turns, Rewinds, Advances, Retries
  <2>a. pc[u] = "keys"
    BY <1>16 DEF InspectTable
  <2>2. Positioned' /\ Attempting'
    <3>0. /\ \A v \in Units : v # u => pc'[v] = pc[v] /\ hook'[v] = hook[v]
          /\ pc'[u] \in {"attempt", "idle"} \/ (pc'[u] # "reset" /\ SameAim(u))
      BY <1>16, Inspecting DEF Goes, Stays, Forgets, Advances, Retries
    <3>1. Attempting'
      BY <2>a, <1>t, <3>0 DEF SameAim, Attempting, AfterUpdate, Statements, Drops
    <3>2. pc'[u] \in Statements \union Drops =>
              hook'[u].at = hook[u].at /\ hook[u].at \in DOMAIN Tables
      BY <1>16, <2>a, Inspecting
      DEF Goes, Stays, Forgets, Advances, Retries, Statements, Drops
    <3>3. Positioned'
      BY <3>0, <3>2, <1>t DEF Positioned
    <3>. QED
      BY <3>1, <3>3
  <2>. QED
    BY <1>16, <2>1, <2>2, <1>d, <1>q DEF Waiting, Installing, Updating, Failing
<1>17. ASSUME AddColumn(u) PROVE TInv'
  <2>1. Stays(u, "key")
    BY <1>17, Movements
  <2>2. pc' \in [Units -> Steps] /\ hook' \in [Units -> Hooks] /\ Positioned' /\ Attempting'
    BY <1>17, <2>1, <1>m DEF AddColumn, Statements
  <2>. QED
    BY <1>17, <2>1, <2>2, <1>d, <1>q DEF Waiting, Installing, Updating, Failing
<1>18. ASSUME AddKey(u) PROVE TInv'
  <2>1. Stays(u, "default")
    BY <1>18, Movements
  <2>2. pc' \in [Units -> Steps] /\ hook' \in [Units -> Hooks] /\ Positioned' /\ Attempting'
    BY <1>18, <2>1, <1>m DEF AddKey, Statements
  <2>. QED
    BY <1>18, <2>1, <2>2, <1>d, <1>q DEF Waiting, Installing, Updating, Failing
<1>19. ASSUME SetDefault(u) PROVE TInv'
  <2>1. Advances(u)
    BY <1>19, Movements
  <2>2. pc' \in [Units -> Steps] /\ hook' \in [Units -> Hooks] /\ Positioned' /\ Attempting'
    BY <1>19, <2>1, <1>t
    DEF SetDefault, Statements, Drops, Goes, SameAim, Stays, Forgets, Turns, Rewinds, Advances,
        Retries, HookFacts, Positioned, Attempting, AfterUpdate
  <2>. QED
    BY <1>19, <2>1, <2>2, <1>d, <1>q DEF Waiting, Installing, Updating, Failing
<1>20. ASSUME DropKey(u) PROVE TInv'
  <2>1. Stays(u, "drop-column")
    BY <1>20, Movements
  <2>2. pc' \in [Units -> Steps] /\ hook' \in [Units -> Hooks] /\ Positioned' /\ Attempting'
    <3>1. Attempting'
      BY <1>20, <2>1, <1>t
      DEF DropKey, Goes, SameAim, Stays, Attempting, AfterUpdate, Statements, Drops
    <3>2. Positioned'
      BY <1>20, <2>1, <1>t DEF DropKey, Goes, SameAim, Stays, Positioned, Statements, Drops
    <3>. QED
      BY <3>1, <3>2, <2>1 DEF Goes, Stays
  <2>. QED
    BY <1>20, <2>1, <2>2, <1>d, <1>q DEF Waiting, Installing, Updating, Failing
<1>21. ASSUME DropColumn(u) PROVE TInv'
  <2>1. Advances(u)
    BY <1>21, Movements
  <2>2. pc' \in [Units -> Steps] /\ hook' \in [Units -> Hooks] /\ Positioned' /\ Attempting'
    BY <1>21, <2>1, <1>t
    DEF DropColumn, Statements, Drops, Goes, SameAim, Stays, Forgets, Turns, Rewinds, Advances,
        Retries, HookFacts, Positioned, Attempting, AfterUpdate
  <2>. QED
    BY <1>21, <2>1, <2>2, <1>d, <1>q DEF Waiting, Installing, Updating, Failing
<1>22. ASSUME StatementFails(u) PROVE TInv'
  <2>1. Forgets(u, "idle") \/ Rewinds(u, "keys")
    BY <1>22, Movements
  <2>2. pc' \in [Units -> Steps] /\ hook' \in [Units -> Hooks] /\ Positioned' /\ Attempting'
    BY <1>22, <2>1, <1>t
    DEF StatementFails, Statements, Drops, Goes, SameAim, Stays, Forgets, Turns, Rewinds,
        Advances, Retries, HookFacts, Positioned, Attempting, AfterUpdate
  <2>. QED
    BY <1>22, <2>1, <2>2, <1>d, <1>q DEF Waiting, Installing, Updating, Failing
<1>23. ASSUME DropFails(u) PROVE TInv'
  <2>1. Advances(u)
    BY <1>23, Movements
  <2>2. pc' \in [Units -> Steps] /\ hook' \in [Units -> Hooks] /\ Positioned' /\ Attempting'
    BY <1>23, <2>1, <1>t
    DEF DropFails, Statements, Drops, Goes, SameAim, Stays, Forgets, Turns, Rewinds, Advances,
        Retries, HookFacts, Positioned, Attempting, AfterUpdate
  <2>. QED
    BY <1>23, <2>1, <2>2, <1>d, <1>q DEF Waiting, Installing, Updating, Failing
<1>24. ASSUME KeysDone(u) PROVE TInv'
  <2>1. Stays(u, "engine")
    BY <1>24, Movements
  <2>2. pc' \in [Units -> Steps] /\ hook' \in [Units -> Hooks] /\ Positioned' /\ Attempting'
    BY <1>24, <2>1, <1>t
    DEF KeysDone, Step, Goes, SameAim, Stays, Forgets, Turns, Rewinds, Advances, Retries,
        HookFacts, Positioned, Attempting, AfterUpdate, Statements, Drops
  <2>. QED
    BY <1>24, <2>1, <2>2, <1>d, <1>q DEF Waiting, Installing, Updating, Failing
<1>25. ASSUME ConvertEngines(u) PROVE TInv'
  <2>1. (hook[u].then # "attempt" /\ Stays(u, hook[u].then)) \/ (hook[u].then = "attempt" /\ Retries(u))
    BY <1>25, Movements
  <2>2. pc' \in [Units -> Steps] /\ hook' \in [Units -> Hooks] /\ Positioned' /\ Attempting'
    <3>1. Attempting'
      BY <1>25, <2>1, <1>t
      DEF ConvertEngines, Goes, SameAim, Stays, Forgets, Turns, Rewinds, Advances, Retries,
          HookFacts, Purposes, Attempting, AfterUpdate, Statements, Drops
    <3>2. Positioned'
      BY <1>25, <2>1, <1>t
      DEF ConvertEngines, Goes, SameAim, Stays, Forgets, Turns, Rewinds, Advances, Retries,
          HookFacts, Purposes, Positioned, Statements, Drops
    <3>. QED
      BY <3>1, <3>2, <2>1 DEF Goes, SameAim, Stays, Forgets, Turns, Rewinds, Advances, Retries
  <2>. QED
    BY <1>25, <2>1, <2>2, <1>d, <1>q DEF Waiting, Installing, Updating, Failing
<1>26. ASSUME GiveUp(u) PROVE TInv'
  <2>1. Forgets(u, "idle")
    BY <1>26, Movements
  <2>2. pc' \in [Units -> Steps] /\ hook' \in [Units -> Hooks] /\ Positioned' /\ Attempting'
    <3>1. Attempting'
      BY <1>26, <2>1, <1>t
      DEF GiveUp, Goes, Forgets, HookFacts, Attempting, AfterUpdate, Statements, Drops
    <3>2. Positioned'
      BY <1>26, <2>1, <1>t DEF GiveUp, Goes, Forgets, HookFacts, Positioned, Statements, Drops
    <3>. QED
      BY <3>1, <3>2, <2>1 DEF Goes, Forgets
  <2>. QED
    BY <1>26, <2>1, <2>2, <1>d, <1>q DEF Waiting, Installing, Updating, Failing
<1>27. ASSUME Crash(u) PROVE TInv'
  <2>1. Forgets(u, "idle")
    BY <1>27, Movements
  <2>2. pc' \in [Units -> Steps] /\ hook' \in [Units -> Hooks] /\ Positioned' /\ Attempting'
    <3>1. Attempting'
      BY <1>27, <2>1, <1>t
      DEF Crash, Goes, Forgets, HookFacts, Attempting, AfterUpdate, Statements, Drops
    <3>2. Positioned'
      BY <1>27, <2>1, <1>t DEF Crash, Goes, Forgets, HookFacts, Positioned, Statements, Drops
    <3>. QED
      BY <3>1, <3>2, <2>1 DEF Goes, Forgets
  <2>. QED
    BY <1>27, <2>1, <2>2, <1>d, <1>q DEF Waiting, Installing, Updating, Failing
<1>28. ASSUME Elect(u) PROVE TInv'
  <2>1. UNCHANGED <<pc, hook>>
    BY <1>28 DEF Elect
  <2>2. pc' \in [Units -> Steps] /\ hook' \in [Units -> Hooks] /\ Positioned' /\ Attempting'
    BY <2>1, <1>t DEF Positioned, Attempting, AfterUpdate
  <2>. QED
    BY <1>28, <2>1, <2>2, <1>d, <1>q DEF Waiting, Installing, Updating, Failing
<1>u. ASSUME UsersWrite PROVE TInv'
  <2>1. UNCHANGED <<pc, hook>>
    BY <1>u DEF UsersWrite
  <2>2. pc' \in [Units -> Steps] /\ hook' \in [Units -> Hooks] /\ Positioned' /\ Attempting'
    BY <2>1, <1>t DEF Positioned, Attempting, AfterUpdate
  <2>. QED
    BY <1>u, <2>2, <1>d, <1>q
<1>. QED
  BY <1>u, <1>1, <1>2, <1>3, <1>4, <1>5, <1>6, <1>7, <1>8, <1>9, <1>10, <1>11, <1>12, <1>13,
      <1>14, <1>15, <1>16, <1>17, <1>18, <1>19, <1>20, <1>21, <1>22, <1>23, <1>24, <1>25,
      <1>26, <1>27, <1>28
  DEF Waiting, Installing, Updating, Failing

----------------------------------------------------------------------------
(* The invariant.                                                          *)

\* What a statement keeps of a table, and what it adds.
LEMMA StatementEffects ==
    ASSUME NEW t \in Table
    PROVE  /\ \A k \in {AddColumnTo(t), AddKeyTo(t), SetDefaultOf(t)} :
                  (Good(t) => Good(k)) /\ (Compliant(t) => Compliant(k))
           /\ AddColumnTo(t).column
           /\ t.column => AddKeyTo(t).column /\ AddKeyTo(t).index
           /\ t.column /\ t.index => Good(SetDefaultOf(t))
           /\ t.native => /\ Good(DropKeyOf(t)) /\ Compliant(DropKeyOf(t)) /\ DropKeyOf(t).native
                          /\ Good(DropColumnOf(t)) /\ Compliant(DropColumnOf(t))
BY DEF Table, Good, Compliant, AddColumnTo, AddKeyTo, SetDefaultOf, DropKeyOf, DropColumnOf

LEMMA InvariantStep ==
    ASSUME LeaseHolds, IInv, NEW u \in Units
    PROVE  /\ Proceed(u) \/ Waiting(u) \/ Installing(u) \/ Updating(u) \/ Failing(u) => IInv'
           /\ UsersWrite => IInv'
<1>t. /\ pc \in [Units -> Steps] /\ hook \in [Units -> Hooks] /\ HookFacts(hook[u])
      /\ table \in [Names -> Table \union {ABSENT}]
      /\ leader \in Units
  BY HookTypes DEF IInv, TInv, TypeOK
<1>i. OneBusy /\ EmptyMeansEmpty /\ Settings /\ Updated /\ InstalledIsComplete
  BY DEF IInv
<1>n. \A i \in DOMAIN Tables : Tables[i] \in Names
  BY DEF Names
<1>d. /\ Proceed(u) \/ Waiting(u) \/ Installing(u) \/ Updating(u) \/ Failing(u) => TInv'
      /\ UsersWrite => TInv'
  BY TypesStep DEF IInv
<1>p. ASSUME UNCHANGED <<schema, table>>, NEW step, Goes(u, step)
      PROVE  \A v \in Units : v # u => UpdatedBy(v)'
  BY <1>p, <1>i DEF Goes, Updated, UpdatedBy, AfterUpdate, AtATable, Current, AtTable
<1>b. ASSUME Busy(u), NEW step, Goes(u, step)
      PROVE  \A v \in Units : v # u => UpdatedBy(v)'
  BY <1>b, <1>i DEF Goes, UpdatedBy, AfterUpdate, OneBusy, Busy, Statements, Drops
<1>a. ASSUME NEW step, Goes(u, step), step \in {"idle", "install", "wait", "attempt", "reset", "restore", "update"}
      PROVE  UpdatedBy(u)'
  BY <1>a DEF Goes, UpdatedBy, AfterUpdate, Statements, Drops
<1>s. ASSUME pc[u] \in Statements \union Drops
      PROVE  /\ hook[u].at \in DOMAIN Tables /\ AtTable(u) \in Names /\ Busy(u)
             /\ Current(u) \in Table
             /\ UpdatedBy(u) /\ AfterUpdate(u) /\ AtATable(u)
  <2>1. hook[u].at \in DOMAIN Tables /\ AtTable(u) \in Names
    BY <1>s, <1>n DEF IInv, TInv, Positioned, AtTable
  <2>2. UpdatedBy(u) /\ AfterUpdate(u) /\ AtATable(u) /\ Busy(u)
    BY <1>s, <1>i DEF Updated, AfterUpdate, AtATable, Busy, Statements, Drops
  <2>. QED
    BY <2>1, <2>2, <1>t DEF UpdatedBy, Exists, Current
<1>1. ASSUME Proceed(u) PROVE IInv'
  <2>1. Stays(u, "idle")
    BY <1>1, Movements DEF IInv
  <2>2. OneBusy'
    BY <1>1, <2>1, <1>t, <1>i
    DEF database, Stays, SameAim, Goes, Proceed, OneBusy, Busy, Statements, Drops
  <2>3. EmptyMeansEmpty'
    BY <1>1, <2>1, <1>t, <1>i
    DEF database, Stays, SameAim, Goes, Proceed, EmptyMeansEmpty, OneBusy, Busy, Settings,
        HookFacts, Purposes, Statements, Drops
  <2>4. Settings'
    BY <1>1, <2>1, <1>t, <1>i
    DEF database, Stays, SameAim, Goes, Proceed, Settings, OneBusy, EmptyMeansEmpty, Busy,
        AfterUpdate, Statements, Drops, HookFacts, Purposes
  <2>5. Updated'
    <3>1. UNCHANGED <<schema, table>>
      BY <1>1 DEF Proceed, database
    <3>. QED
      BY <2>1, <3>1, <1>p, <1>a DEF Updated, Stays, SameAim, Goes
  <2>6. InstalledIsComplete'
    BY <1>1, <2>1, <1>t, <1>i
    DEF database, Stays, SameAim, Goes, Proceed, InstalledIsComplete, Updated, UpdatedBy,
        Settings, OneBusy, EmptyMeansEmpty, Busy, AfterUpdate, Good, Compliant, Exists
  <2>. QED
    BY <1>1, <2>2, <2>3, <2>4, <2>5, <2>6, <1>d DEF IInv, Waiting, Installing, Updating, Failing
<1>2. ASSUME FindUninstalled(u) PROVE IInv'
  <2>1. Stays(u, "install")
    BY <1>2, Movements DEF IInv
  <2>2. OneBusy'
    BY <1>2, <2>1, <1>t, <1>i
    DEF database, Stays, SameAim, Goes, FindUninstalled, Step, OneBusy, Busy, Statements, Drops
  <2>3. EmptyMeansEmpty'
    BY <1>2, <2>1, <1>t, <1>i
    DEF database, Stays, SameAim, Goes, FindUninstalled, Step, EmptyMeansEmpty, OneBusy, Busy,
        Settings, HookFacts, Purposes, Statements, Drops
  <2>4. Settings'
    BY <1>2, <2>1, <1>t, <1>i
    DEF database, Stays, SameAim, Goes, FindUninstalled, Step, Settings, OneBusy,
        EmptyMeansEmpty, Busy, AfterUpdate, Statements, Drops, HookFacts, Purposes
  <2>5. Updated'
    <3>1. UNCHANGED <<schema, table>>
      BY <1>2 DEF FindUninstalled, database
    <3>. QED
      BY <2>1, <3>1, <1>p, <1>a DEF Updated, Stays, SameAim, Goes
  <2>6. InstalledIsComplete'
    BY <1>2, <2>1, <1>t, <1>i
    DEF database, Stays, SameAim, Goes, FindUninstalled, Step, InstalledIsComplete, Updated,
        UpdatedBy, Settings, OneBusy, EmptyMeansEmpty, Busy, AfterUpdate, Good, Compliant,
        Exists
  <2>. QED
    BY <1>2, <2>2, <2>3, <2>4, <2>5, <2>6, <1>d DEF IInv, Waiting, Installing, Updating, Failing
<1>3. ASSUME AwaitInstallation(u) PROVE IInv'
  <2>1. Stays(u, "wait")
    BY <1>3, Movements DEF IInv
  <2>2. OneBusy'
    BY <1>3, <2>1, <1>t, <1>i
    DEF database, Stays, SameAim, Goes, AwaitInstallation, Step, OneBusy, Busy, Statements,
        Drops
  <2>3. EmptyMeansEmpty'
    BY <1>3, <2>1, <1>t, <1>i
    DEF database, Stays, SameAim, Goes, AwaitInstallation, Step, EmptyMeansEmpty, OneBusy,
        Busy, Settings, HookFacts, Purposes, Statements, Drops
  <2>4. Settings'
    BY <1>3, <2>1, <1>t, <1>i
    DEF database, Stays, SameAim, Goes, AwaitInstallation, Step, Settings, OneBusy,
        EmptyMeansEmpty, Busy, AfterUpdate, Statements, Drops, HookFacts, Purposes
  <2>5. Updated'
    <3>1. UNCHANGED <<schema, table>>
      BY <1>3 DEF AwaitInstallation, database
    <3>. QED
      BY <2>1, <3>1, <1>p, <1>a DEF Updated, Stays, SameAim, Goes
  <2>6. InstalledIsComplete'
    BY <1>3, <2>1, <1>t, <1>i
    DEF database, Stays, SameAim, Goes, AwaitInstallation, Step, InstalledIsComplete, Updated,
        UpdatedBy, Settings, OneBusy, EmptyMeansEmpty, Busy, AfterUpdate, Good, Compliant,
        Exists
  <2>. QED
    BY <1>3, <2>2, <2>3, <2>4, <2>5, <2>6, <1>d DEF IInv, Waiting, Installing, Updating, Failing
<1>4. ASSUME FindInstalled(u) PROVE IInv'
  <2>1. Stays(u, "idle")
    BY <1>4, Movements DEF IInv
  <2>2. OneBusy'
    BY <1>4, <2>1, <1>t, <1>i
    DEF database, Stays, SameAim, Goes, FindInstalled, Step, OneBusy, Busy, Statements, Drops
  <2>3. EmptyMeansEmpty'
    BY <1>4, <2>1, <1>t, <1>i
    DEF database, Stays, SameAim, Goes, FindInstalled, Step, EmptyMeansEmpty, OneBusy, Busy,
        Settings, HookFacts, Purposes, Statements, Drops
  <2>4. Settings'
    BY <1>4, <2>1, <1>t, <1>i
    DEF database, Stays, SameAim, Goes, FindInstalled, Step, Settings, OneBusy,
        EmptyMeansEmpty, Busy, AfterUpdate, Statements, Drops, HookFacts, Purposes
  <2>5. Updated'
    <3>1. UNCHANGED <<schema, table>>
      BY <1>4 DEF FindInstalled, database
    <3>. QED
      BY <2>1, <3>1, <1>p, <1>a DEF Updated, Stays, SameAim, Goes
  <2>6. InstalledIsComplete'
    BY <1>4, <2>1, <1>t, <1>i
    DEF database, Stays, SameAim, Goes, FindInstalled, Step, InstalledIsComplete, Updated,
        UpdatedBy, Settings, OneBusy, EmptyMeansEmpty, Busy, AfterUpdate, Good, Compliant,
        Exists
  <2>. QED
    BY <1>4, <2>2, <2>3, <2>4, <2>5, <2>6, <1>d DEF IInv, Waiting, Installing, Updating, Failing
<1>5. ASSUME TimeOut(u) PROVE IInv'
  <2>1. Stays(u, "idle")
    BY <1>5, Movements DEF IInv
  <2>2. OneBusy'
    BY <1>5, <2>1, <1>t, <1>i
    DEF database, Stays, SameAim, Goes, TimeOut, Step, OneBusy, Busy, Statements, Drops
  <2>3. EmptyMeansEmpty'
    BY <1>5, <2>1, <1>t, <1>i
    DEF database, Stays, SameAim, Goes, TimeOut, Step, EmptyMeansEmpty, OneBusy, Busy,
        Settings, HookFacts, Purposes, Statements, Drops
  <2>4. Settings'
    BY <1>5, <2>1, <1>t, <1>i
    DEF database, Stays, SameAim, Goes, TimeOut, Step, Settings, OneBusy, EmptyMeansEmpty,
        Busy, AfterUpdate, Statements, Drops, HookFacts, Purposes
  <2>5. Updated'
    <3>1. UNCHANGED <<schema, table>>
      BY <1>5 DEF TimeOut, database
    <3>. QED
      BY <2>1, <3>1, <1>p, <1>a DEF Updated, Stays, SameAim, Goes
  <2>6. InstalledIsComplete'
    BY <1>5, <2>1, <1>t, <1>i
    DEF database, Stays, SameAim, Goes, TimeOut, Step, InstalledIsComplete, Updated, UpdatedBy,
        Settings, OneBusy, EmptyMeansEmpty, Busy, AfterUpdate, Good, Compliant, Exists
  <2>. QED
    BY <1>5, <2>2, <2>3, <2>4, <2>5, <2>6, <1>d DEF IInv, Waiting, Installing, Updating, Failing
<1>6. ASSUME StartInstall(u) PROVE IInv'
  <2>1. (Goes(u, "attempt") /\ hook'[u].empty = DatabaseIsEmpty /\ hook'[u].then = "idle")
    BY <1>6, Movements DEF IInv
  <2>2. OneBusy'
    BY <1>6, <2>1, <1>t, <1>i
    DEF database, Goes, StartInstall, Step, OneBusy, Busy, DatabaseIsEmpty, Statements, Drops
  <2>3. EmptyMeansEmpty'
    BY <1>6, <2>1, <1>t, <1>i
    DEF database, Goes, StartInstall, Step, EmptyMeansEmpty, OneBusy, Busy, Settings,
        HookFacts, Purposes, DatabaseIsEmpty, Statements, Drops
  <2>4. Settings'
    BY <1>6, <2>1, <1>t, <1>i
    DEF database, Goes, StartInstall, Step, Settings, OneBusy, EmptyMeansEmpty, Busy,
        AfterUpdate, DatabaseIsEmpty, Statements, Drops, HookFacts, Purposes
  <2>5. Updated'
    <3>1. UNCHANGED <<schema, table>>
      BY <1>6 DEF StartInstall, database
    <3>. QED
      BY <2>1, <3>1, <1>p, <1>a DEF Updated, Goes
  <2>6. InstalledIsComplete'
    BY <1>6, <2>1, <1>t, <1>i
    DEF database, Goes, StartInstall, Step, InstalledIsComplete, Updated, UpdatedBy, Settings,
        OneBusy, EmptyMeansEmpty, Busy, AfterUpdate, DatabaseIsEmpty, Good, Compliant, Exists
  <2>. QED
    BY <1>6, <2>2, <2>3, <2>4, <2>5, <2>6, <1>d DEF IInv, Waiting, Installing, Updating, Failing
<1>7. ASSUME InstallSucceeds(u) PROVE IInv'
  <2>1. Stays(u, "restore")
    BY <1>7, Movements DEF IInv
  <2>2. OneBusy'
    BY <1>7, <2>1, <1>t, <1>i
    DEF database, Stays, SameAim, Goes, InstallSucceeds, Step, OneBusy, Busy, Statements, Drops
  <2>3. EmptyMeansEmpty'
    BY <1>7, <2>1, <1>t, <1>i
    DEF database, Stays, SameAim, Goes, InstallSucceeds, Step, EmptyMeansEmpty, OneBusy, Busy,
        Settings, HookFacts, Purposes, Statements, Drops
  <2>4. Settings'
    BY <1>7, <2>1, <1>t, <1>i
    DEF database, Stays, SameAim, Goes, InstallSucceeds, Step, Settings, OneBusy,
        EmptyMeansEmpty, Busy, AfterUpdate, Statements, Drops, HookFacts, Purposes
  <2>5. Updated'
    <3>1. Busy(u)
      BY <1>7 DEF InstallSucceeds, Busy, Step
    <3>. QED
      BY <2>1, <3>1, <1>b, <1>a DEF Updated, Stays, SameAim, Goes
  <2>6. InstalledIsComplete'
    BY <1>7, <2>1, <1>t, <1>i, CreatedTypes
    DEF database, Stays, SameAim, Goes, InstallSucceeds, Step, InstalledIsComplete, Updated,
        UpdatedBy, Settings, OneBusy, EmptyMeansEmpty, Busy, AfterUpdate, Good, Compliant,
        Exists, IInv, TInv, TypeOK
  <2>. QED
    BY <1>7, <2>2, <2>3, <2>4, <2>5, <2>6, <1>d DEF IInv, Waiting, Installing, Updating, Failing
<1>8. ASSUME InstallFails(u) PROVE IInv'
  <2>1. (hook[u].attempt = MaxAttempts /\ Forgets(u, "idle")) \/ (hook[u].attempt < MaxAttempts /\ Turns(u, IF hook[u].empty THEN "reset" ELSE "update", "attempt"))
    BY <1>8, Movements DEF IInv
  <2>2. OneBusy'
    BY <1>8, <2>1, <1>t, <1>i
    DEF database, Forgets, Turns, Goes, InstallFails, OneBusy, Busy, Statements, Drops
  <2>3. EmptyMeansEmpty'
    BY <1>8, <2>1, <1>t, <1>i
    DEF database, Forgets, Turns, Goes, InstallFails, EmptyMeansEmpty, OneBusy, Busy, Settings,
        HookFacts, Purposes, Statements, Drops
  <2>4. Settings'
    BY <1>8, <2>1, <1>t, <1>i
    DEF database, Forgets, Turns, Goes, InstallFails, Settings, OneBusy, EmptyMeansEmpty, Busy,
        AfterUpdate, Statements, Drops, HookFacts, Purposes
  <2>5. Updated'
    <3>1. Busy(u)
      BY <1>8 DEF InstallFails, Busy
    <3>. QED
      BY <2>1, <3>1, <1>b, <1>a DEF Updated, Forgets, Turns, Goes
  <2>6. InstalledIsComplete'
    BY <1>8, <2>1, <1>t, <1>i, CreatedTypes
    DEF database, Forgets, Turns, Goes, InstallFails, InstalledIsComplete, Updated, UpdatedBy,
        Settings, OneBusy, EmptyMeansEmpty, Busy, AfterUpdate, Good, Compliant, Exists, IInv,
        TInv, TypeOK
  <2>. QED
    BY <1>8, <2>2, <2>3, <2>4, <2>5, <2>6, <1>d DEF IInv, Waiting, Installing, Updating, Failing
<1>9. ASSUME Reset(u) PROVE IInv'
  <2>1. Retries(u)
    BY <1>9, Movements DEF IInv
  <2>2. OneBusy'
    BY <1>9, <2>1, <1>t, <1>i
    DEF database, Retries, Goes, Reset, OneBusy, Busy, Statements, Drops
  <2>3. EmptyMeansEmpty'
    BY <1>9, <2>1, <1>t, <1>i
    DEF database, Retries, Goes, Reset, EmptyMeansEmpty, OneBusy, Busy, Settings, HookFacts,
        Purposes, Statements, Drops
  <2>4. Settings'
    BY <1>9, <2>1, <1>t, <1>i
    DEF database, Retries, Goes, Reset, Settings, OneBusy, EmptyMeansEmpty, Busy, AfterUpdate,
        Statements, Drops, HookFacts, Purposes
  <2>5. Updated'
    <3>1. Busy(u)
      BY <1>9 DEF Reset, Busy
    <3>. QED
      BY <2>1, <3>1, <1>b, <1>a DEF Updated, Retries, Goes
  <2>6. InstalledIsComplete'
    BY <1>9, <2>1, <1>t, <1>i
    DEF database, Retries, Goes, Reset, InstalledIsComplete, Updated, UpdatedBy, Settings,
        OneBusy, EmptyMeansEmpty, Busy, AfterUpdate, Good, Compliant, Exists
  <2>. QED
    BY <1>9, <2>2, <2>3, <2>4, <2>5, <2>6, <1>d DEF IInv, Waiting, Installing, Updating, Failing
<1>10. ASSUME ResetFails(u) PROVE IInv'
  <2>1. Forgets(u, "idle")
    BY <1>10, Movements DEF IInv
  <2>2. OneBusy'
    BY <1>10, <2>1, <1>t, <1>i
    DEF database, Forgets, Goes, ResetFails, OneBusy, Busy, Statements, Drops
  <2>3. EmptyMeansEmpty'
    BY <1>10, <2>1, <1>t, <1>i
    DEF database, Forgets, Goes, ResetFails, EmptyMeansEmpty, OneBusy, Busy, Settings,
        HookFacts, Purposes, Statements, Drops
  <2>4. Settings'
    BY <1>10, <2>1, <1>t, <1>i
    DEF database, Forgets, Goes, ResetFails, Settings, OneBusy, EmptyMeansEmpty, Busy,
        AfterUpdate, Statements, Drops, HookFacts, Purposes
  <2>5. Updated'
    <3>1. Busy(u)
      BY <1>10 DEF ResetFails, Busy
    <3>. QED
      BY <2>1, <3>1, <1>b, <1>a DEF Updated, Forgets, Goes
  <2>6. InstalledIsComplete'
    BY <1>10, <2>1, <1>t, <1>i
    DEF database, Forgets, Goes, ResetFails, InstalledIsComplete, Updated, UpdatedBy, Settings,
        OneBusy, EmptyMeansEmpty, Busy, AfterUpdate, Good, Compliant, Exists
  <2>. QED
    BY <1>10, <2>2, <2>3, <2>4, <2>5, <2>6, <1>d
    DEF IInv, Waiting, Installing, Updating, Failing
<1>11. ASSUME RestoreUserSettings(u) PROVE IInv'
  <2>1. Turns(u, "update", "flag")
    BY <1>11, Movements DEF IInv
  <2>2. OneBusy'
    BY <1>11, <2>1, <1>t, <1>i
    DEF database, Turns, Goes, RestoreUserSettings, Step, OneBusy, Busy, Statements, Drops
  <2>3. EmptyMeansEmpty'
    BY <1>11, <2>1, <1>t, <1>i
    DEF database, Turns, Goes, RestoreUserSettings, Step, EmptyMeansEmpty, OneBusy, Busy,
        Settings, HookFacts, Purposes, Statements, Drops
  <2>4. Settings'
    BY <1>11, <2>1, <1>t, <1>i
    DEF database, Turns, Goes, RestoreUserSettings, Step, Settings, OneBusy, EmptyMeansEmpty,
        Busy, AfterUpdate, Statements, Drops, HookFacts, Purposes
  <2>5. Updated'
    <3>1. UNCHANGED <<schema, table>>
      BY <1>11 DEF RestoreUserSettings, database
    <3>. QED
      BY <2>1, <3>1, <1>p, <1>a DEF Updated, Turns, Goes
  <2>6. InstalledIsComplete'
    BY <1>11, <2>1, <1>t, <1>i
    DEF database, Turns, Goes, RestoreUserSettings, Step, InstalledIsComplete, Updated,
        UpdatedBy, Settings, OneBusy, EmptyMeansEmpty, Busy, AfterUpdate, Good, Compliant,
        Exists
  <2>. QED
    BY <1>11, <2>2, <2>3, <2>4, <2>5, <2>6, <1>d
    DEF IInv, Waiting, Installing, Updating, Failing
<1>12. ASSUME SetFlag(u) PROVE IInv'
  <2>1. Forgets(u, "idle")
    BY <1>12, Movements DEF IInv
  <2>2. OneBusy'
    BY <1>12, <2>1, <1>t, <1>i
    DEF database, Forgets, Goes, SetFlag, OneBusy, Busy, Statements, Drops
  <2>3. EmptyMeansEmpty'
    BY <1>12, <2>1, <1>t, <1>i
    DEF database, Forgets, Goes, SetFlag, EmptyMeansEmpty, OneBusy, Busy, Settings, HookFacts,
        Purposes, Statements, Drops
  <2>4. Settings'
    BY <1>12, <2>1, <1>t, <1>i
    DEF database, Forgets, Goes, SetFlag, Settings, OneBusy, EmptyMeansEmpty, Busy,
        AfterUpdate, Statements, Drops, HookFacts, Purposes
  <2>5. Updated'
    <3>1. UNCHANGED <<schema, table>>
      BY <1>12 DEF SetFlag, database
    <3>. QED
      BY <2>1, <3>1, <1>p, <1>a DEF Updated, Forgets, Goes
  <2>6. InstalledIsComplete'
    BY <1>12, <2>1, <1>t, <1>i
    DEF database, Forgets, Goes, SetFlag, InstalledIsComplete, Updated, UpdatedBy, Settings,
        OneBusy, EmptyMeansEmpty, Busy, AfterUpdate, Good, Compliant, Exists
  <2>. QED
    BY <1>12, <2>2, <2>3, <2>4, <2>5, <2>6, <1>d
    DEF IInv, Waiting, Installing, Updating, Failing
<1>13. ASSUME RequestedUpdate(u) PROVE IInv'
  <2>1. Forgets(u, "update")
    BY <1>13, Movements DEF IInv
  <2>2. OneBusy'
    BY <1>13, <2>1, <1>t, <1>i
    DEF database, Forgets, Goes, RequestedUpdate, Step, OneBusy, Busy, Statements, Drops
  <2>3. EmptyMeansEmpty'
    BY <1>13, <2>1, <1>t, <1>i
    DEF database, Forgets, Goes, RequestedUpdate, Step, EmptyMeansEmpty, OneBusy, Busy,
        Settings, HookFacts, Purposes, Statements, Drops
  <2>4. Settings'
    BY <1>13, <2>1, <1>t, <1>i
    DEF database, Forgets, Goes, RequestedUpdate, Step, Settings, OneBusy, EmptyMeansEmpty,
        Busy, AfterUpdate, Statements, Drops, HookFacts, Purposes
  <2>5. Updated'
    <3>1. UNCHANGED <<schema, table>>
      BY <1>13 DEF RequestedUpdate, database
    <3>. QED
      BY <2>1, <3>1, <1>p, <1>a DEF Updated, Forgets, Goes
  <2>6. InstalledIsComplete'
    BY <1>13, <2>1, <1>t, <1>i
    DEF database, Forgets, Goes, RequestedUpdate, Step, InstalledIsComplete, Updated,
        UpdatedBy, Settings, OneBusy, EmptyMeansEmpty, Busy, AfterUpdate, Good, Compliant,
        Exists
  <2>. QED
    BY <1>13, <2>2, <2>3, <2>4, <2>5, <2>6, <1>d
    DEF IInv, Waiting, Installing, Updating, Failing
<1>14. ASSUME UpdateSucceeds(u) PROVE IInv'
  <2>1. Rewinds(u, "keys")
    BY <1>14, Movements DEF IInv
  <2>2. OneBusy'
    BY <1>14, <2>1, <1>t, <1>i
    DEF database, Rewinds, SameAim, Goes, UpdateSucceeds, Step, OneBusy, Busy, Statements, Drops
  <2>3. EmptyMeansEmpty'
    BY <1>14, <2>1, <1>t, <1>i
    DEF database, Rewinds, SameAim, Goes, UpdateSucceeds, Step, EmptyMeansEmpty, OneBusy, Busy,
        Settings, HookFacts, Purposes, Statements, Drops
  <2>4. Settings'
    BY <1>14, <2>1, <1>t, <1>i
    DEF database, Rewinds, SameAim, Goes, UpdateSucceeds, Step, Settings, OneBusy,
        EmptyMeansEmpty, Busy, AfterUpdate, Statements, Drops, HookFacts, Purposes
  <2>0. /\ \A n \in Names : table'[n] \in Table /\ Exists(table'[n])
        /\ \A n \in Names : (Exists(table[n]) /\ Compliant(table[n])) => Compliant(table'[n])
    <3>1. PICK migrated \in SUBSET Names :
              table' = [n \in Names |-> [Created[n] EXCEPT !.native = @ \/ n \in migrated]]
      BY <1>14 DEF UpdateSucceeds
    <3>2. \A n \in Names : table'[n] = [Created[n] EXCEPT !.native = @ \/ n \in migrated] /\ Created[n] \in Table
      BY <3>1, CreatedTypes DEF IInv, TInv
    <3>4. \A n \in Names : Exists(table[n]) => Created[n] = table[n]
      BY CreatedTypes DEF IInv, TInv
    <3>5. \A t \in Table : Exists(t)
      BY AbsentAssumption DEF Exists
    <3>6. ASSUME NEW n \in Names PROVE table'[n] \in Table /\ (Compliant(Created[n]) => Compliant(table'[n]))
      <4>1. PICK k \in Table : k = Created[n] /\ table'[n] = [k EXCEPT !.native = @ \/ n \in migrated]
        BY <3>2
      <4>2. n \in migrated => table'[n] = [k EXCEPT !.native = TRUE]
        BY <4>1
      <4>3. n \notin migrated => table'[n] = k
        BY <4>1 DEF Table
      <4>. QED
        BY <4>1, <4>2, <4>3 DEF Table, Compliant
    <3>. QED
      BY <3>4, <3>5, <3>6
  <2>5. Updated'
    <3>1. Busy(u)
      BY <1>14 DEF UpdateSucceeds, Busy, Step
    <3>2. UpdatedBy(u)'
      BY <1>14, <2>0, <2>1, <1>i, <1>t, PositionTypes
      DEF UpdateSucceeds, Step, Rewinds, SameAim, Goes, UpdatedBy, Settings, AfterUpdate,
          AtATable, Statements, Drops
    <3>. QED
      BY <2>1, <3>1, <3>2, <1>b DEF Updated, Rewinds
  <2>6. InstalledIsComplete'
    BY <1>14, <2>0, <1>i DEF UpdateSucceeds, InstalledIsComplete
  <2>. QED
    BY <1>14, <2>2, <2>3, <2>4, <2>5, <2>6, <1>d
    DEF IInv, Waiting, Installing, Updating, Failing
<1>15. ASSUME UpdateFails(u) PROVE IInv'
  <2>1. (hook[u].then # "attempt" /\ Forgets(u, "idle")) \/ (hook[u].then = "attempt" /\ Retries(u))
    BY <1>15, Movements DEF IInv
  <2>2. OneBusy'
    BY <1>15, <2>1, <1>t, <1>i
    DEF database, Forgets, Retries, Goes, UpdateFails, OneBusy, Busy, Statements, Drops
  <2>3. EmptyMeansEmpty'
    BY <1>15, <2>1, <1>t, <1>i
    DEF database, Forgets, Retries, Goes, UpdateFails, EmptyMeansEmpty, OneBusy, Busy,
        Settings, HookFacts, Purposes, Statements, Drops
  <2>4. Settings'
    BY <1>15, <2>1, <1>t, <1>i
    DEF database, Forgets, Retries, Goes, UpdateFails, Settings, OneBusy, EmptyMeansEmpty,
        Busy, AfterUpdate, Statements, Drops, HookFacts, Purposes
  <2>5. Updated'
    <3>1. UNCHANGED <<schema, table>>
      BY <1>15 DEF UpdateFails, database
    <3>. QED
      BY <2>1, <3>1, <1>p, <1>a DEF Updated, Forgets, Retries, Goes
  <2>6. InstalledIsComplete'
    BY <1>15, <2>1, <1>t, <1>i
    DEF database, Forgets, Retries, Goes, UpdateFails, InstalledIsComplete, Updated, UpdatedBy,
        Settings, OneBusy, EmptyMeansEmpty, Busy, AfterUpdate, Good, Compliant, Exists
  <2>. QED
    BY <1>15, <2>2, <2>3, <2>4, <2>5, <2>6, <1>d
    DEF IInv, Waiting, Installing, Updating, Failing
<1>16. ASSUME InspectTable(u) PROVE IInv'
  <2>1. /\ hook[u].at \in DOMAIN Tables
        /\ UNCHANGED <<database, leader, blank, configured, bounds>>
        /\ \/ /\ Exists(Current(u)) => Good(Current(u))
              /\ Advances(u)
           \/ Exists(Current(u)) /\ Current(u).native /\ Stays(u, "drop-key")
           \/ Current(u).column /\ Current(u).index /\ Stays(u, "default")
           \/ Current(u).column /\ Stays(u, "key")
           \/ Stays(u, "column")
           \/ hook[u].then # "attempt" /\ Forgets(u, "idle")
           \/ /\ hook[u].then = "attempt"
              /\ Retries(u)
        /\ pc[u] = "keys"
    BY <1>16, Inspecting DEF IInv, InspectTable
  <2>2. OneBusy'
    BY <2>1, <1>t, <1>i, <1>n
    DEF database, Goes, SameAim, Stays, Forgets, Turns, Rewinds, Advances, Retries, OneBusy,
        Busy, Statements, Drops
  <2>3. EmptyMeansEmpty'
    BY <2>1, <1>t, <1>i, <1>n
    DEF database, Goes, SameAim, Stays, Forgets, Turns, Rewinds, Advances, Retries,
        EmptyMeansEmpty, OneBusy, Busy, Settings, HookFacts, Purposes, Statements, Drops
  <2>4. Settings'
    BY <2>1, <1>t, <1>i, <1>n
    DEF database, Goes, SameAim, Stays, Forgets, Turns, Rewinds, Advances, Retries, Settings,
        OneBusy, EmptyMeansEmpty, Busy, AfterUpdate, Statements, Drops, HookFacts, Purposes
  <2>5. Updated'
    <3>1. UNCHANGED <<schema, table>>
      BY <1>16, <2>1 DEF InspectTable, database
    <3>0. /\ hook[u].then # "attempt" => schema = "full"
          /\ \A n \in Names : Exists(table[n])
          /\ \A i \in DOMAIN Tables : i < hook[u].at => Good(table[Tables[i]])
          /\ Current(u) = table[Tables[hook[u].at]] /\ Exists(Current(u))
      BY <2>1, <1>i DEF Updated, UpdatedBy, AfterUpdate, AtATable, Current, AtTable, Names
    <3>a. ASSUME Good(Current(u)), Advances(u) PROVE UpdatedBy(u)'
      <4>1. \A i \in DOMAIN Tables : i < hook'[u].at => Good(table'[Tables[i]])
        BY <3>a, <3>0, <3>1, <2>1, PositionTypes DEF Advances
      <4>. QED
        BY <4>1, <3>a, <3>0, <3>1 DEF Advances, Goes, SameAim, UpdatedBy, Statements, Drops
    <3>b. ASSUME NEW step \in Statements \union Drops, Stays(u, step),
                 step = "drop-key" => Current(u).native,
                 step \in {"default", "key"} => Current(u).column,
                 step = "default" => Current(u).index,
                 step # "drop-column"
          PROVE  UpdatedBy(u)'
      <4>1. Current(u)' = Current(u)
        BY <3>b, <3>1 DEF Stays, Current, AtTable
      <4>. QED
        BY <4>1, <3>b, <3>0, <3>1 DEF Stays, Goes, SameAim, UpdatedBy, Statements, Drops
    <3>c. ASSUME Forgets(u, "idle") \/ Retries(u) PROVE UpdatedBy(u)'
      BY <3>c DEF Forgets, Retries, Goes, UpdatedBy, AfterUpdate, Statements, Drops
    <3>2. UpdatedBy(u)'
      BY <2>1, <3>0, <3>a, <3>b, <3>c DEF Statements, Drops
    <3>. QED
      BY <2>1, <3>1, <3>2, <1>p
      DEF Updated, Goes, SameAim, Stays, Forgets, Turns, Rewinds, Advances, Retries
  <2>6. InstalledIsComplete'
    BY <2>1, <1>t, <1>i, <1>n
    DEF database, Goes, SameAim, Stays, Forgets, Turns, Rewinds, Advances, Retries,
        InstalledIsComplete, Updated, UpdatedBy, Settings, OneBusy, EmptyMeansEmpty, Busy,
        AfterUpdate, Good, Compliant, Exists, Current, AtTable
  <2>. QED
    BY <1>16, <2>2, <2>3, <2>4, <2>5, <2>6, <1>d
    DEF IInv, Waiting, Installing, Updating, Failing
<1>17. ASSUME AddColumn(u) PROVE IInv'
  <2>1. Stays(u, "key")
    BY <1>17, Movements DEF IInv
  <2>2. OneBusy'
    BY <1>17, <2>1, <1>t, <1>i, <1>n
    DEF database, Stays, SameAim, Goes, AddColumn, Alter, OneBusy, Busy, Statements, Drops
  <2>3. EmptyMeansEmpty'
    BY <1>17, <2>1, <1>t, <1>i, <1>n
    DEF database, Stays, SameAim, Goes, AddColumn, Alter, EmptyMeansEmpty, OneBusy, Busy,
        Settings, HookFacts, Purposes, Statements, Drops
  <2>4. Settings'
    BY <1>17, <2>1, <1>t, <1>i, <1>n
    DEF database, Stays, SameAim, Goes, AddColumn, Alter, Settings, OneBusy, EmptyMeansEmpty,
        Busy, AfterUpdate, Statements, Drops, HookFacts, Purposes
  <2>0. /\ pc[u] \in Statements \union Drops
        /\ table' = [table EXCEPT ![AtTable(u)] = AddColumnTo(Current(u))]
        /\ UNCHANGED <<schema, flag>>
    BY <1>17 DEF AddColumn, Alter, Statements, Drops
  <2>a. AtTable(u) \in Names /\ Current(u) \in Table /\ Current(u) = table[AtTable(u)]
    BY <2>0, <1>s DEF Current
  <2>b. TRUE
    BY <1>17, <2>0, <1>s DEF AddColumn, UpdatedBy, AfterUpdate, Drops
  <2>c. /\ \A n \in Names : Exists(table[n]) => Exists(table'[n])
        /\ \A n \in Names : Good(table[n]) => Good(table'[n])
        /\ \A n \in Names : Compliant(table[n]) => Compliant(table'[n])
        /\ table'[AtTable(u)] = AddColumnTo(Current(u))
    BY <2>0, <2>a, <2>b, <1>t, StatementTypes, StatementEffects DEF Exists
  <2>5. Updated'
    <3>1. Current(u)' = table'[Tables[hook'[u].at]]
      BY DEF Current, AtTable
    <3>2. UpdatedBy(u)'
      BY <2>0, <2>1, <2>a, <2>b, <2>c, <3>1, <1>s, <1>n, <1>t, PositionTypes, StatementEffects
      DEF Stays, SameAim, Goes, UpdatedBy, AfterUpdate, AtATable, Statements, Drops, AtTable
    <3>. QED
      BY <2>0, <2>1, <3>2, <1>s, <1>b DEF Updated, Stays, SameAim, Goes
  <2>6. InstalledIsComplete'
    BY <2>0, <2>c, <1>i DEF InstalledIsComplete
  <2>. QED
    BY <1>17, <2>2, <2>3, <2>4, <2>5, <2>6, <1>d
    DEF IInv, Waiting, Installing, Updating, Failing
<1>18. ASSUME AddKey(u) PROVE IInv'
  <2>1. Stays(u, "default")
    BY <1>18, Movements DEF IInv
  <2>2. OneBusy'
    BY <1>18, <2>1, <1>t, <1>i, <1>n
    DEF database, Stays, SameAim, Goes, AddKey, Alter, OneBusy, Busy, Statements, Drops
  <2>3. EmptyMeansEmpty'
    BY <1>18, <2>1, <1>t, <1>i, <1>n
    DEF database, Stays, SameAim, Goes, AddKey, Alter, EmptyMeansEmpty, OneBusy, Busy,
        Settings, HookFacts, Purposes, Statements, Drops
  <2>4. Settings'
    BY <1>18, <2>1, <1>t, <1>i, <1>n
    DEF database, Stays, SameAim, Goes, AddKey, Alter, Settings, OneBusy, EmptyMeansEmpty,
        Busy, AfterUpdate, Statements, Drops, HookFacts, Purposes
  <2>0. /\ pc[u] \in Statements \union Drops
        /\ table' = [table EXCEPT ![AtTable(u)] = AddKeyTo(Current(u))]
        /\ UNCHANGED <<schema, flag>>
    BY <1>18 DEF AddKey, Alter, Statements, Drops
  <2>a. AtTable(u) \in Names /\ Current(u) \in Table /\ Current(u) = table[AtTable(u)]
    BY <2>0, <1>s DEF Current
  <2>b. Current(u).column
    BY <1>18, <2>0, <1>s DEF AddKey, UpdatedBy, AfterUpdate, Drops
  <2>c. /\ \A n \in Names : Exists(table[n]) => Exists(table'[n])
        /\ \A n \in Names : Good(table[n]) => Good(table'[n])
        /\ \A n \in Names : Compliant(table[n]) => Compliant(table'[n])
        /\ table'[AtTable(u)] = AddKeyTo(Current(u))
    BY <2>0, <2>a, <2>b, <1>t, StatementTypes, StatementEffects DEF Exists
  <2>5. Updated'
    <3>1. Current(u)' = table'[Tables[hook'[u].at]]
      BY DEF Current, AtTable
    <3>2. UpdatedBy(u)'
      BY <2>0, <2>1, <2>a, <2>b, <2>c, <3>1, <1>s, <1>n, <1>t, PositionTypes, StatementEffects
      DEF Stays, SameAim, Goes, UpdatedBy, AfterUpdate, AtATable, Statements, Drops, AtTable
    <3>. QED
      BY <2>0, <2>1, <3>2, <1>s, <1>b DEF Updated, Stays, SameAim, Goes
  <2>6. InstalledIsComplete'
    BY <2>0, <2>c, <1>i DEF InstalledIsComplete
  <2>. QED
    BY <1>18, <2>2, <2>3, <2>4, <2>5, <2>6, <1>d
    DEF IInv, Waiting, Installing, Updating, Failing
<1>19. ASSUME SetDefault(u) PROVE IInv'
  <2>1. Advances(u)
    BY <1>19, Movements DEF IInv
  <2>2. OneBusy'
    BY <1>19, <2>1, <1>t, <1>i, <1>n
    DEF database, Advances, SameAim, Goes, SetDefault, Alter, OneBusy, Busy, Statements, Drops
  <2>3. EmptyMeansEmpty'
    BY <1>19, <2>1, <1>t, <1>i, <1>n
    DEF database, Advances, SameAim, Goes, SetDefault, Alter, EmptyMeansEmpty, OneBusy, Busy,
        Settings, HookFacts, Purposes, Statements, Drops
  <2>4. Settings'
    <3>1. /\ UNCHANGED <<blank, configured, flag>>
          /\ pc[u] \in Statements \union Drops /\ pc'[u] = "keys" /\ hook'[u].then = hook[u].then
          /\ \A v \in Units : v # u => pc'[v] = pc[v] /\ hook'[v] = hook[v]
      BY <1>19, <2>1 DEF SetDefault, Alter, Advances, SameAim, Goes, Statements, Drops
    <3>. QED
      BY <3>1, <1>i DEF Settings, AfterUpdate, Statements, Drops
  <2>0. /\ pc[u] \in Statements \union Drops
        /\ table' = [table EXCEPT ![AtTable(u)] = SetDefaultOf(Current(u))]
        /\ UNCHANGED <<schema, flag>>
    BY <1>19 DEF SetDefault, Alter, Statements, Drops
  <2>a. AtTable(u) \in Names /\ Current(u) \in Table /\ Current(u) = table[AtTable(u)]
    BY <2>0, <1>s DEF Current
  <2>b. Current(u).column /\ Current(u).index
    BY <1>19, <2>0, <1>s DEF SetDefault, UpdatedBy, AfterUpdate, Drops
  <2>c. /\ \A n \in Names : Exists(table[n]) => Exists(table'[n])
        /\ \A n \in Names : Good(table[n]) => Good(table'[n])
        /\ \A n \in Names : Compliant(table[n]) => Compliant(table'[n])
        /\ table'[AtTable(u)] = SetDefaultOf(Current(u))
    BY <2>0, <2>a, <2>b, <1>t, StatementTypes, StatementEffects DEF Exists
  <2>5. Updated'
    <3>1. Current(u)' = table'[Tables[hook'[u].at]]
      BY DEF Current, AtTable
    <3>2. UpdatedBy(u)'
      BY <2>0, <2>1, <2>a, <2>b, <2>c, <3>1, <1>s, <1>n, <1>t, PositionTypes, StatementEffects
      DEF Advances, SameAim, Goes, UpdatedBy, AfterUpdate, AtATable, Statements, Drops, AtTable
    <3>. QED
      BY <2>0, <2>1, <3>2, <1>s, <1>b DEF Updated, Advances, SameAim, Goes
  <2>6. InstalledIsComplete'
    BY <2>0, <2>c, <1>i DEF InstalledIsComplete
  <2>. QED
    BY <1>19, <2>2, <2>3, <2>4, <2>5, <2>6, <1>d
    DEF IInv, Waiting, Installing, Updating, Failing
<1>20. ASSUME DropKey(u) PROVE IInv'
  <2>1. Stays(u, "drop-column")
    BY <1>20, Movements DEF IInv
  <2>2. OneBusy'
    BY <1>20, <2>1, <1>t, <1>i, <1>n
    DEF database, Stays, SameAim, Goes, DropKey, Alter, OneBusy, Busy, Statements, Drops
  <2>3. EmptyMeansEmpty'
    BY <1>20, <2>1, <1>t, <1>i, <1>n
    DEF database, Stays, SameAim, Goes, DropKey, Alter, EmptyMeansEmpty, OneBusy, Busy,
        Settings, HookFacts, Purposes, Statements, Drops
  <2>4. Settings'
    BY <1>20, <2>1, <1>t, <1>i, <1>n
    DEF database, Stays, SameAim, Goes, DropKey, Alter, Settings, OneBusy, EmptyMeansEmpty,
        Busy, AfterUpdate, Statements, Drops, HookFacts, Purposes
  <2>0. /\ pc[u] \in Statements \union Drops
        /\ table' = [table EXCEPT ![AtTable(u)] = DropKeyOf(Current(u))]
        /\ UNCHANGED <<schema, flag>>
    BY <1>20 DEF DropKey, Alter, Statements, Drops
  <2>a. AtTable(u) \in Names /\ Current(u) \in Table /\ Current(u) = table[AtTable(u)]
    BY <2>0, <1>s DEF Current
  <2>b. Current(u).native
    BY <1>20, <2>0, <1>s DEF DropKey, UpdatedBy, AfterUpdate, Drops
  <2>c. /\ \A n \in Names : Exists(table[n]) => Exists(table'[n])
        /\ \A n \in Names : Good(table[n]) => Good(table'[n])
        /\ \A n \in Names : Compliant(table[n]) => Compliant(table'[n])
        /\ table'[AtTable(u)] = DropKeyOf(Current(u))
    BY <2>0, <2>a, <2>b, <1>t, StatementTypes, StatementEffects DEF Exists
  <2>5. Updated'
    <3>1. Current(u)' = table'[Tables[hook'[u].at]]
      BY DEF Current, AtTable
    <3>2. UpdatedBy(u)'
      BY <2>0, <2>1, <2>a, <2>b, <2>c, <3>1, <1>s, <1>n, <1>t, PositionTypes, StatementEffects
      DEF Stays, SameAim, Goes, UpdatedBy, AfterUpdate, AtATable, Statements, Drops, AtTable
    <3>. QED
      BY <2>0, <2>1, <3>2, <1>s, <1>b DEF Updated, Stays, SameAim, Goes
  <2>6. InstalledIsComplete'
    BY <2>0, <2>c, <1>i DEF InstalledIsComplete
  <2>. QED
    BY <1>20, <2>2, <2>3, <2>4, <2>5, <2>6, <1>d
    DEF IInv, Waiting, Installing, Updating, Failing
<1>21. ASSUME DropColumn(u) PROVE IInv'
  <2>1. Advances(u)
    BY <1>21, Movements DEF IInv
  <2>2. OneBusy'
    BY <1>21, <2>1, <1>t, <1>i, <1>n
    DEF database, Advances, SameAim, Goes, DropColumn, Alter, OneBusy, Busy, Statements, Drops
  <2>3. EmptyMeansEmpty'
    BY <1>21, <2>1, <1>t, <1>i, <1>n
    DEF database, Advances, SameAim, Goes, DropColumn, Alter, EmptyMeansEmpty, OneBusy, Busy,
        Settings, HookFacts, Purposes, Statements, Drops
  <2>4. Settings'
    <3>1. /\ UNCHANGED <<blank, configured, flag>>
          /\ pc[u] \in Statements \union Drops /\ pc'[u] = "keys" /\ hook'[u].then = hook[u].then
          /\ \A v \in Units : v # u => pc'[v] = pc[v] /\ hook'[v] = hook[v]
      BY <1>21, <2>1 DEF DropColumn, Alter, Advances, SameAim, Goes, Statements, Drops
    <3>. QED
      BY <3>1, <1>i DEF Settings, AfterUpdate, Statements, Drops
  <2>0. /\ pc[u] \in Statements \union Drops
        /\ table' = [table EXCEPT ![AtTable(u)] = DropColumnOf(Current(u))]
        /\ UNCHANGED <<schema, flag>>
    BY <1>21 DEF DropColumn, Alter, Statements, Drops
  <2>a. AtTable(u) \in Names /\ Current(u) \in Table /\ Current(u) = table[AtTable(u)]
    BY <2>0, <1>s DEF Current
  <2>b. Current(u).native
    BY <1>21, <2>0, <1>s DEF DropColumn, UpdatedBy, AfterUpdate, Drops
  <2>c. /\ \A n \in Names : Exists(table[n]) => Exists(table'[n])
        /\ \A n \in Names : Good(table[n]) => Good(table'[n])
        /\ \A n \in Names : Compliant(table[n]) => Compliant(table'[n])
        /\ table'[AtTable(u)] = DropColumnOf(Current(u))
    BY <2>0, <2>a, <2>b, <1>t, StatementTypes, StatementEffects DEF Exists
  <2>5. Updated'
    <3>1. Current(u)' = table'[Tables[hook'[u].at]]
      BY DEF Current, AtTable
    <3>2. UpdatedBy(u)'
      BY <2>0, <2>1, <2>a, <2>b, <2>c, <3>1, <1>s, <1>n, <1>t, PositionTypes, StatementEffects
      DEF Advances, SameAim, Goes, UpdatedBy, AfterUpdate, AtATable, Statements, Drops, AtTable
    <3>. QED
      BY <2>0, <2>1, <3>2, <1>s, <1>b DEF Updated, Advances, SameAim, Goes
  <2>6. InstalledIsComplete'
    BY <2>0, <2>c, <1>i DEF InstalledIsComplete
  <2>. QED
    BY <1>21, <2>2, <2>3, <2>4, <2>5, <2>6, <1>d
    DEF IInv, Waiting, Installing, Updating, Failing
<1>22. ASSUME StatementFails(u) PROVE IInv'
  <2>1. Forgets(u, "idle") \/ Rewinds(u, "keys")
    BY <1>22, Movements DEF IInv
  <2>2. OneBusy'
    BY <1>22, <2>1, <1>t, <1>i
    DEF database, Forgets, Rewinds, SameAim, Goes, StatementFails, OneBusy, Busy, Statements,
        Drops
  <2>3. EmptyMeansEmpty'
    BY <1>22, <2>1, <1>t, <1>i
    DEF database, Forgets, Rewinds, SameAim, Goes, StatementFails, EmptyMeansEmpty, OneBusy,
        Busy, Settings, HookFacts, Purposes, Statements, Drops
  <2>4. Settings'
    BY <1>22, <2>1, <1>t, <1>i
    DEF database, Forgets, Rewinds, SameAim, Goes, StatementFails, Settings, OneBusy,
        EmptyMeansEmpty, Busy, AfterUpdate, Statements, Drops, HookFacts, Purposes
  <2>5. Updated'
    <3>1. UNCHANGED <<schema, table>>
      BY <1>22, <2>1 DEF StatementFails, database
    <3>2. UpdatedBy(u)'
      BY <1>22, <2>1, <1>s, <3>1, PositionTypes
      DEF StatementFails, Forgets, Rewinds, SameAim, Goes, UpdatedBy, AfterUpdate, AtATable,
          Statements, Drops
    <3>. QED
      BY <2>1, <3>1, <3>2, <1>p DEF Updated, Forgets, Rewinds, SameAim, Goes
  <2>6. InstalledIsComplete'
    BY <1>22, <2>1, <1>t, <1>i
    DEF database, Forgets, Rewinds, SameAim, Goes, StatementFails, InstalledIsComplete,
        Updated, UpdatedBy, Settings, OneBusy, EmptyMeansEmpty, Busy, AfterUpdate, Statements,
        Drops, Good, Compliant, Exists
  <2>. QED
    BY <1>22, <2>2, <2>3, <2>4, <2>5, <2>6, <1>d
    DEF IInv, Waiting, Installing, Updating, Failing
<1>23. ASSUME DropFails(u) PROVE IInv'
  <2>1. Advances(u)
    BY <1>23, Movements DEF IInv
  <2>2. OneBusy'
    BY <1>23, <2>1, <1>t, <1>i
    DEF database, Advances, SameAim, Goes, DropFails, OneBusy, Busy, Statements, Drops
  <2>3. EmptyMeansEmpty'
    BY <1>23, <2>1, <1>t, <1>i
    DEF database, Advances, SameAim, Goes, DropFails, EmptyMeansEmpty, OneBusy, Busy, Settings,
        HookFacts, Purposes, Statements, Drops
  <2>4. Settings'
    BY <1>23, <2>1, <1>t, <1>i
    DEF database, Advances, SameAim, Goes, DropFails, Settings, OneBusy, EmptyMeansEmpty, Busy,
        AfterUpdate, Statements, Drops, HookFacts, Purposes
  <2>5. Updated'
    <3>1. UNCHANGED <<schema, table>>
      BY <1>23, <2>1 DEF DropFails, database
    <3>2. UpdatedBy(u)'
      BY <1>23, <2>1, <1>s, <1>t, <3>1, PositionTypes
      DEF DropFails, Advances, SameAim, Goes, UpdatedBy, AfterUpdate, AtATable, Statements,
          Drops, Good, Compliant, Current, AtTable
    <3>. QED
      BY <2>1, <3>1, <3>2, <1>p DEF Updated, Advances, SameAim, Goes
  <2>6. InstalledIsComplete'
    BY <1>23, <2>1, <1>t, <1>i
    DEF database, Advances, SameAim, Goes, DropFails, InstalledIsComplete, Updated, UpdatedBy,
        Settings, OneBusy, EmptyMeansEmpty, Busy, AfterUpdate, Statements, Drops, Good,
        Compliant, Exists, Current, AtTable
  <2>. QED
    BY <1>23, <2>2, <2>3, <2>4, <2>5, <2>6, <1>d
    DEF IInv, Waiting, Installing, Updating, Failing
<1>24. ASSUME KeysDone(u) PROVE IInv'
  <2>1. Stays(u, "engine")
    BY <1>24, Movements DEF IInv
  <2>2. OneBusy'
    BY <1>24, <2>1, <1>t, <1>i
    DEF database, Stays, SameAim, Goes, KeysDone, Step, OneBusy, Busy, Statements, Drops
  <2>3. EmptyMeansEmpty'
    BY <1>24, <2>1, <1>t, <1>i
    DEF database, Stays, SameAim, Goes, KeysDone, Step, EmptyMeansEmpty, OneBusy, Busy,
        Settings, HookFacts, Purposes, Statements, Drops
  <2>4. Settings'
    BY <1>24, <2>1, <1>t, <1>i
    DEF database, Stays, SameAim, Goes, KeysDone, Step, Settings, OneBusy, EmptyMeansEmpty,
        Busy, AfterUpdate, Statements, Drops, HookFacts, Purposes
  <2>5. Updated'
    <3>1. UNCHANGED <<schema, table>>
      BY <1>24, <2>1 DEF KeysDone, database
    <3>2. UpdatedBy(u)'
      <4>1. /\ pc[u] = "keys" /\ hook[u].at > Len(Tables) /\ hook[u].at \in Nat
            /\ pc'[u] = "engine" /\ hook'[u].then = hook[u].then
        BY <1>24, <2>1, <1>t, PositionTypes DEF KeysDone, Step, Stays, SameAim, Goes, HookFacts
      <4>2. \A n \in Names : \E i \in DOMAIN Tables : n = Tables[i] /\ i < hook[u].at
        BY <4>1, PositionTypes DEF Names
      <4>3. /\ hook[u].then # "attempt" => schema = "full"
            /\ \A n \in Names : Exists(table[n])
            /\ \A i \in DOMAIN Tables : i < hook[u].at => Good(table[Tables[i]])
        BY <4>1, <1>i DEF Updated, UpdatedBy, AfterUpdate, AtATable
      <4>4. \A n \in Names : Good(table[n])
        BY <4>2, <4>3
      <4>. QED
        BY <3>1, <4>1, <4>3, <4>4 DEF UpdatedBy, AfterUpdate, AtATable, Statements, Drops
    <3>. QED
      BY <2>1, <3>1, <3>2, <1>p DEF Updated, Stays, SameAim, Goes
  <2>6. InstalledIsComplete'
    BY <1>24, <2>1, <1>t, <1>i
    DEF database, Stays, SameAim, Goes, KeysDone, Step, InstalledIsComplete, Updated,
        UpdatedBy, Settings, OneBusy, EmptyMeansEmpty, Busy, AfterUpdate, Good, Compliant,
        Exists
  <2>. QED
    BY <1>24, <2>2, <2>3, <2>4, <2>5, <2>6, <1>d
    DEF IInv, Waiting, Installing, Updating, Failing
<1>25. ASSUME ConvertEngines(u) PROVE IInv'
  <2>1. (hook[u].then # "attempt" /\ Stays(u, hook[u].then)) \/ (hook[u].then = "attempt" /\ Retries(u))
    BY <1>25, Movements DEF IInv
  <2>2. OneBusy'
    BY <1>25, <2>1, <1>t, <1>i
    DEF database, Stays, Retries, SameAim, Goes, ConvertEngines, OneBusy, Busy, Statements,
        Drops
  <2>3. EmptyMeansEmpty'
    BY <1>25, <2>1, <1>t, <1>i
    DEF database, Stays, Retries, SameAim, Goes, ConvertEngines, EmptyMeansEmpty, OneBusy,
        Busy, Settings, HookFacts, Purposes, Statements, Drops
  <2>4. Settings'
    BY <1>25, <2>1, <1>t, <1>i
    DEF database, Stays, Retries, SameAim, Goes, ConvertEngines, Settings, OneBusy,
        EmptyMeansEmpty, Busy, AfterUpdate, Statements, Drops, HookFacts, Purposes
  <2>5. Updated'
    <3>1. UNCHANGED <<schema, table>>
      BY <1>25, <2>1 DEF ConvertEngines, database
    <3>2. UpdatedBy(u)'
      BY <1>25, <2>1, <1>i, <1>t
      DEF ConvertEngines, Stays, Retries, SameAim, Goes, Updated, UpdatedBy, AfterUpdate,
          AtATable, Statements, Drops, HookFacts, Purposes, database
    <3>. QED
      BY <2>1, <3>1, <3>2, <1>p DEF Updated, Stays, Retries, SameAim, Goes
  <2>6. InstalledIsComplete'
    BY <1>25, <2>1, <1>t, <1>i
    DEF database, Stays, Retries, SameAim, Goes, ConvertEngines, InstalledIsComplete, Updated,
        UpdatedBy, Settings, OneBusy, EmptyMeansEmpty, Busy, AfterUpdate, Good, Compliant,
        Exists
  <2>. QED
    BY <1>25, <2>2, <2>3, <2>4, <2>5, <2>6, <1>d
    DEF IInv, Waiting, Installing, Updating, Failing
<1>26. ASSUME GiveUp(u) PROVE IInv'
  <2>1. Forgets(u, "idle")
    BY <1>26, Movements DEF IInv
  <2>2. OneBusy'
    BY <1>26, <2>1, <1>t, <1>i
    DEF database, Forgets, Goes, GiveUp, OneBusy, Busy, Statements, Drops
  <2>3. EmptyMeansEmpty'
    BY <1>26, <2>1, <1>t, <1>i
    DEF database, Forgets, Goes, GiveUp, EmptyMeansEmpty, OneBusy, Busy, Settings, HookFacts,
        Purposes, Statements, Drops
  <2>4. Settings'
    BY <1>26, <2>1, <1>t, <1>i
    DEF database, Forgets, Goes, GiveUp, Settings, OneBusy, EmptyMeansEmpty, Busy, AfterUpdate,
        Statements, Drops, HookFacts, Purposes
  <2>5. Updated'
    <3>1. UNCHANGED <<schema, table>>
      BY <1>26 DEF GiveUp, database
    <3>. QED
      BY <2>1, <3>1, <1>p, <1>a DEF Updated, Forgets, Goes
  <2>6. InstalledIsComplete'
    BY <1>26, <2>1, <1>t, <1>i
    DEF database, Forgets, Goes, GiveUp, InstalledIsComplete, Updated, UpdatedBy, Settings,
        OneBusy, EmptyMeansEmpty, Busy, AfterUpdate, Good, Compliant, Exists
  <2>. QED
    BY <1>26, <2>2, <2>3, <2>4, <2>5, <2>6, <1>d
    DEF IInv, Waiting, Installing, Updating, Failing
<1>27. ASSUME Crash(u) PROVE IInv'
  <2>1. Forgets(u, "idle")
    BY <1>27, Movements DEF IInv
  <2>2. OneBusy'
    BY <1>27, <2>1, <1>t, <1>i
    DEF database, Forgets, Goes, Crash, OneBusy, Busy, Statements, Drops
  <2>3. EmptyMeansEmpty'
    BY <1>27, <2>1, <1>t, <1>i
    DEF database, Forgets, Goes, Crash, EmptyMeansEmpty, OneBusy, Busy, Settings, HookFacts,
        Purposes, Statements, Drops
  <2>4. Settings'
    BY <1>27, <2>1, <1>t, <1>i
    DEF database, Forgets, Goes, Crash, Settings, OneBusy, EmptyMeansEmpty, Busy, AfterUpdate,
        Statements, Drops, HookFacts, Purposes
  <2>5. Updated'
    <3>1. UNCHANGED <<schema, table>>
      BY <1>27 DEF Crash, database
    <3>. QED
      BY <2>1, <3>1, <1>p, <1>a DEF Updated, Forgets, Goes
  <2>6. InstalledIsComplete'
    BY <1>27, <2>1, <1>t, <1>i
    DEF database, Forgets, Goes, Crash, InstalledIsComplete, Updated, UpdatedBy, Settings,
        OneBusy, EmptyMeansEmpty, Busy, AfterUpdate, Good, Compliant, Exists
  <2>. QED
    BY <1>27, <2>2, <2>3, <2>4, <2>5, <2>6, <1>d
    DEF IInv, Waiting, Installing, Updating, Failing
<1>28. ASSUME Elect(u) PROVE IInv'
  <2>1. pc[leader] = "idle" /\ UNCHANGED <<pc, hook, database, blank, configured>>
    BY <1>28 DEF Elect, Has, LeaseHolds
  <2>2. OneBusy'
    BY <2>1, <1>t, <1>i
    DEF database, Goes, SameAim, Stays, Forgets, Turns, Rewinds, Advances, Retries, OneBusy,
        Busy, Statements, Drops
  <2>3. EmptyMeansEmpty'
    BY <2>1, <1>t, <1>i
    DEF database, Goes, SameAim, Stays, Forgets, Turns, Rewinds, Advances, Retries,
        EmptyMeansEmpty, OneBusy, Busy, Settings, HookFacts, Purposes, Statements, Drops
  <2>4. Settings'
    BY <2>1, <1>t, <1>i
    DEF database, Goes, SameAim, Stays, Forgets, Turns, Rewinds, Advances, Retries, Settings,
        OneBusy, EmptyMeansEmpty, Busy, AfterUpdate, Statements, Drops, HookFacts, Purposes
  <2>5. Updated'
    BY <2>1, <1>i DEF Updated, UpdatedBy, AfterUpdate, AtATable, Current, AtTable, database
  <2>6. InstalledIsComplete'
    BY <2>1, <1>t, <1>i
    DEF database, Goes, SameAim, Stays, Forgets, Turns, Rewinds, Advances, Retries,
        InstalledIsComplete, Updated, UpdatedBy, Settings, OneBusy, EmptyMeansEmpty, Busy,
        AfterUpdate, Good, Compliant, Exists
  <2>. QED
    BY <1>28, <2>2, <2>3, <2>4, <2>5, <2>6, <1>d
    DEF IInv, Waiting, Installing, Updating, Failing
<1>u. ASSUME UsersWrite PROVE IInv'
  <2>1. UNCHANGED <<schema, flag, leader, pc, hook, blank, configured>> /\ flag /\ configured # {}
    BY <1>u DEF UsersWrite
  <2>2. PICK w \in Names : table' = [table EXCEPT ![w].rows = TRUE]
    BY <1>u DEF UsersWrite
  <2>3. /\ OneBusy' /\ EmptyMeansEmpty' /\ Settings'
    BY <2>1, <1>i DEF OneBusy, EmptyMeansEmpty, Settings, Busy, AfterUpdate
  <2>4. Updated' /\ InstalledIsComplete'
    <3>1. \A m \in Names : Exists(table[m]) =>
              /\ Exists(table'[m])
              /\ Compliant(table[m]) => Compliant(table'[m])
              /\ Good(table[m]) => Good(table'[m])
              /\ table[m].column => table'[m].column
              /\ table[m].index => table'[m].index
              /\ table[m].native => table'[m].native
      <4>1. \A t \in Table : LET k == [t EXCEPT !.rows = TRUE] IN
                /\ k \in Table
                /\ k.column = t.column /\ k.index = t.index /\ k.native = t.native
                /\ k.default = t.default
        BY DEF Table
      <4>2. \A t \in Table : Exists(t)
        BY AbsentAssumption DEF Exists
      <4>3. \A m \in Names : Exists(table[m]) => table[m] \in Table
        BY <1>t DEF Exists
      <4>. QED
        BY <2>2, <4>1, <4>2, <4>3, <1>t DEF Good, Compliant
    <3>2. InstalledIsComplete'
      BY <2>1, <3>1, <1>i DEF InstalledIsComplete
    <3>3. ASSUME NEW v \in Units, AfterUpdate(v)
          PROVE  /\ AtATable(v) => AtTable(v) \in Names \/ pc[v] = "keys"
                 /\ \A n \in Names : Exists(table[n])
                 /\ UpdatedBy(v)
      BY <3>3, <1>i, <1>n DEF Updated, UpdatedBy, AtATable, AtTable, IInv, TInv, Positioned
    <3>4. ASSUME NEW v \in Units
          PROVE  UpdatedBy(v)'
      <4>1. pc'[v] = pc[v] /\ hook'[v] = hook[v] /\ schema' = schema
        BY <2>1
      <4>2. Current(v) = table[AtTable(v)] /\ Current(v)' = table'[AtTable(v)]
        BY <4>1 DEF Current, AtTable
      <4>. QED
        BY <3>1, <3>3, <4>1, <4>2, <1>n DEF UpdatedBy, AfterUpdate, AtATable, Statements, Drops
    <3>. QED
      BY <3>2, <3>4 DEF Updated
  <2>. QED
    BY <1>u, <2>3, <2>4, <1>d DEF IInv
<1>. QED
  BY <1>u, <1>1, <1>2, <1>3, <1>4, <1>5, <1>6, <1>7, <1>8, <1>9, <1>10, <1>11, <1>12, <1>13,
      <1>14, <1>15, <1>16, <1>17, <1>18, <1>19, <1>20, <1>21, <1>22, <1>23, <1>24, <1>25,
      <1>26, <1>27, <1>28
  DEF Waiting, Installing, Updating, Failing

LEMMA Invariant == ASSUME LeaseHolds PROVE Spec => []IInv
<1>1. Init => IInv
  <2>. SUFFICES ASSUME Init PROVE IInv
    OBVIOUS
  <2>1. TInv
    BY TypesInit
  <2>2. OneBusy /\ EmptyMeansEmpty /\ Settings /\ Updated
    BY DEF Init, OneBusy, EmptyMeansEmpty, Settings, Updated, UpdatedBy, Busy, AfterUpdate,
           Statements, Drops, NoHook
  <2>3. InstalledIsComplete
    BY DEF Init, InstalledIsComplete
  <2>. QED
    BY <2>1, <2>2, <2>3 DEF IInv
<1>2. IInv /\ [Next]_vars => IInv'
  <2>. SUFFICES ASSUME IInv, [Next]_vars PROVE IInv'
    OBVIOUS
  <2>1. CASE Next
    <3>1. PICK u \in Units :
            Proceed(u) \/ Waiting(u) \/ Installing(u) \/ Updating(u) \/ Failing(u) \/ UsersWrite
      BY <2>1, UnitsAssumption DEF Next
    <3>. QED
      BY <3>1, InvariantStep
  <2>2. CASE UNCHANGED vars
    BY <2>2
    DEF vars, database, bounds, IInv, TInv, TypeOK, Positioned, Attempting, OneBusy,
        EmptyMeansEmpty,
        Settings, Updated, UpdatedBy, InstalledIsComplete, Busy, AfterUpdate, AtATable,
        Current, AtTable
  <2>. QED
    BY <2>1, <2>2
<1>. QED
  BY <1>1, <1>2, PTL DEF Spec

----------------------------------------------------------------------------
(* The theorems.                                                           *)

\* The variables keep their types in every installation of the database.
THEOREM TypeCorrect == ASSUME LeaseHolds PROVE Spec => []TypeOK
<1>1. IInv => TypeOK
  BY DEF IInv, TInv
<1>. QED
  BY <1>1, Invariant, PTL

\* A database that carries the flag of _set_database_initialized has every table, each
\* acceptable to Group Replication, however many attempts, crashes and elections it took.
THEOREM InstalledCompletely == ASSUME LeaseHolds PROVE Spec => []InstalledIsComplete
<1>1. IInv => InstalledIsComplete
  BY DEF IInv
<1>. QED
  BY <1>1, Invariant, PTL

\* No unit serves the wiki under the settings blanked for an installation.
THEOREM NeverServedBlank == ASSUME LeaseHolds PROVE Spec => []NoServiceOnBlankSettings
<1>1. IInv => NoServiceOnBlankSettings
  BY DEF IInv, Settings, NoServiceOnBlankSettings
<1>. QED
  BY <1>1, Invariant, PTL

\* The schema update leaves tables that comply and, under a surrogate key, take inserts,
\* from whichever statement an earlier run was cut off at.
THEOREM KeysAreReconciled == ASSUME LeaseHolds PROVE Spec => []KeysReconciled
<1>1. IInv => KeysReconciled
  <2>. SUFFICES ASSUME IInv, NEW u \in Units, pc[u] = "engine", NEW n \in Names, Exists(table[n])
                PROVE  Compliant(table[n]) /\ (~table[n].native => Insertable(table[n]))
    BY DEF KeysReconciled
  <2>1. Good(table[n])
    BY DEF IInv, Updated, UpdatedBy, AfterUpdate
  <2>. QED
    BY <2>1 DEF Good, Insertable
<1>. QED
  BY <1>1, Invariant, PTL

\* Only an attempt that found the database empty resets it, and nothing that users wrote or
\* that was there before is in it then.
THEOREM ContentIsKept == ASSUME LeaseHolds PROVE Spec => ContentKept
<1>1. IInv /\ [Next]_vars => [content => content']_vars
  <2>. SUFFICES ASSUME IInv, Next, content PROVE content'
    BY DEF vars
  <2>1. ASSUME NEW u \in Units, Reset(u) \/ ResetFails(u) PROVE FALSE
    BY <2>1 DEF IInv, EmptyMeansEmpty, Busy, Reset, ResetFails
  <2>2. UNCHANGED content \/ content' = TRUE
    BY <2>1
    DEF Next, Waiting, Installing, Updating, Failing, database, Proceed, FindUninstalled,
        AwaitInstallation,
        FindInstalled, TimeOut, StartInstall, InstallSucceeds, InstallFails, RestoreUserSettings,
        SetFlag, RequestedUpdate, UpdateSucceeds, UpdateFails, InspectTable, AddColumn, AddKey, SetDefault,
        DropKey, DropColumn, Alter, StatementFails, DropFails, KeysDone, ConvertEngines, GiveUp, Crash,
        Elect, UsersWrite
  <2>. QED
    BY <2>2
<1>. QED
  BY <1>1, Invariant, PTL DEF Spec, ContentKept

\* No step, the statements of a reconciliation cut off anywhere included, takes the last
\* compliant key from a table that keeps existing.
THEOREM ComplianceIsKept == ASSUME LeaseHolds PROVE Spec => ComplianceKept
<1>1. IInv /\ [Next]_vars => [KeepsCompliance]_vars
  <2>. SUFFICES ASSUME IInv, Next PROVE KeepsCompliance
    BY DEF vars
  <2>t. table \in [Names -> Table \union {ABSENT}] /\ TypeOK
    BY DEF IInv, TInv, TypeOK
  <2>e. \A t \in Table : Exists(t)
    BY AbsentAssumption DEF Exists
  <2>1. CASE UNCHANGED table
    BY <2>1 DEF KeepsCompliance
  <2>2. ASSUME NEW u \in Units, InstallSucceeds(u) \/ InstallFails(u) PROVE KeepsCompliance
    <3>1. \A n \in Names : Exists(table[n]) => Created[n] = table[n]
      BY <2>t, CreatedTypes
    <3>2. \A n \in Names : table'[n] = Created[n] \/ table'[n] = table[n]
      BY <2>2, <2>t, CreatedTypes DEF InstallSucceeds, InstallFails
    <3>. QED
      BY <3>1, <3>2 DEF KeepsCompliance
  <2>3. ASSUME NEW u \in Units, Reset(u) \/ ResetFails(u) PROVE KeepsCompliance
    <3>1. \A n \in Names : table'[n] = ABSENT \/ table'[n] = table[n]
      BY <2>3, <2>t DEF Reset, ResetFails
    <3>. QED
      BY <3>1 DEF KeepsCompliance, Exists
  <2>4. ASSUME NEW u \in Units, UpdateSucceeds(u) PROVE KeepsCompliance
    <3>1. PICK migrated \in SUBSET Names :
              table' = [n \in Names |-> [Created[n] EXCEPT !.native = @ \/ n \in migrated]]
      BY <2>4 DEF UpdateSucceeds
    <3>2. \A n \in Names : Exists(table[n]) => Created[n] = table[n] /\ table[n] \in Table
      BY <2>t, CreatedTypes DEF Exists
    <3>3. \A t \in Table : \A m \in BOOLEAN : Compliant(t) => Compliant([t EXCEPT !.native = @ \/ m])
      BY DEF Table, Compliant
    <3>. QED
      BY <3>1, <3>2, <3>3 DEF KeepsCompliance
  <2>5. ASSUME NEW u \in Units,
               AddColumn(u) \/ AddKey(u) \/ SetDefault(u) \/ DropKey(u) \/ DropColumn(u)
        PROVE  KeepsCompliance
    <3>1. hook[u].at \in DOMAIN Tables /\ AtTable(u) \in Names
      BY <2>5 DEF IInv, TInv, Positioned, AddColumn, AddKey, SetDefault, DropKey, DropColumn,
                  Statements, Drops, AtTable, Names
    <3>2. /\ Current(u) = table[AtTable(u)] /\ Exists(Current(u)) /\ Current(u) \in Table
      BY <2>5, <2>t, <3>1
      DEF Current, Exists, AddColumn, AddKey, SetDefault, DropKey, DropColumn,
         CanAddColumn, CanAddKey, CanSetDefault, CanDropKey, CanDropColumn
    <3>3. DropKey(u) \/ DropColumn(u) => Current(u).native
      BY DEF DropKey, DropColumn, Drops, IInv, Updated, UpdatedBy, AfterUpdate
    <3>4. PICK t \in Table :
              /\ table' = [table EXCEPT ![AtTable(u)] = t]
              /\ Compliant(Current(u)) => Compliant(t)
      BY <2>5, <3>2, <3>3, StatementTypes, StatementEffects
      DEF AddColumn, AddKey, SetDefault, DropKey, DropColumn, Alter
    <3>. QED
      BY <2>t, <3>1, <3>2, <3>4 DEF KeepsCompliance
  <2>6. CASE UsersWrite
    <3>1. PICK n \in Names : Insertable(table[n]) /\ table' = [table EXCEPT ![n].rows = TRUE]
      BY <2>6 DEF UsersWrite
    <3>2. \A t \in Table : Compliant(t) => Compliant([t EXCEPT !.rows = TRUE])
      BY DEF Table, Compliant
    <3>3. table[n] \in Table
      BY <3>1, <2>t DEF Insertable, Exists
    <3>. QED
      BY <3>1, <3>2, <3>3, <2>t DEF KeepsCompliance
  <2>. QED
    BY <2>1, <2>2, <2>3, <2>4, <2>5, <2>6
    DEF Next, Waiting, Installing, Updating, Failing, database, Proceed, FindUninstalled,
        AwaitInstallation,
        FindInstalled, TimeOut, StartInstall, RestoreUserSettings,
        SetFlag, RequestedUpdate, UpdateFails, InspectTable,
        StatementFails, DropFails, KeysDone, ConvertEngines, GiveUp, Crash, Elect
<1>. QED
  BY <1>1, Invariant, PTL DEF Spec, ComplianceKept

=============================================================================
