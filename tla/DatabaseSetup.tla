--------------------------- MODULE DatabaseSetup ----------------------------
(***************************************************************************)
(* How the units of the application set up the database they share: the    *)
(* leader runs the installation script, retries it, updates the schema,    *)
(* makes the tables acceptable to Group Replication and finally creates a  *)
(* flag table; the other units wait for the flag.                          *)
(*                                                                         *)
(* The database and the tables are shared and nothing but the flag orders  *)
(* the units.  Every step of a hook that reads or changes the database is  *)
(* an action; what a hook remembers is lost when it ends.                  *)
(***************************************************************************)
EXTENDS SurrogateKeys, Naturals, Sequences

CONSTANTS
    Units,
    Tables,       \* PRIMARY_KEY_LESS_TABLES, in order
    MaxAttempts,  \* INSTALL_MAX_ATTEMPTS
    MaxFaults,    \* bound: how many faults and elections happen
    MaxUpdates,   \* bound: how many schema updates are requested
    Faults

FaultKinds ==
    { "script-failure",    \* a maintenance script exits with an error
      "statement-failure", \* the server rejects a statement, or its lock wait times out
      "database-down",     \* an operation fails until _db_retry_deco gives up
      "crash",             \* the hook dies
      "lease-expiry" }     \* a leader is replaced while its hook still runs

ASSUME UnitsAssumption == Units # {}
ASSUME TablesAssumption == Tables \in Seq(STRING)
ASSUME AttemptsAssumption == MaxAttempts \in Nat \ {0}
ASSUME BoundsAssumption == MaxFaults \in Nat /\ MaxUpdates \in Nat
ASSUME FaultsAssumption == Faults \subseteq FaultKinds
ASSUME AbsentAssumption == ABSENT \notin Table

VARIABLES
    schema,     \* MediaWiki's tables: none, some, the core's, or those of extensions too
    flag,       \* the table mediawiki_charm_setup exists
    content,    \* the database holds what no installation attempt has created
    table,      \* the tables without a primary key
    leader,
    pc,         \* the next step of each unit's hook
    hook,       \* what each unit's hook remembers
    blank,      \* the units whose user settings are blanked for the installation
    configured, \* the units that went on to serve the wiki
    faults, updates

database == <<schema, flag, content, table>>
bounds == <<faults, updates>>
vars == <<database, leader, pc, hook, blank, configured, bounds>>

Schemas == {"none", "partial", "core", "full"}
Names == {Tables[i] : i \in DOMAIN Tables}
Statements == {"column", "key", "default"}
Drops == {"drop-key", "drop-column"}
Steps == {"idle", "install", "wait", "attempt", "reset", "restore", "update", "keys",
          "engine", "flag"} \union Statements \union Drops

\* What follows a schema update: another attempt, the flag, or the end of the hook.
Purposes == {"attempt", "flag", "idle"}

\* attempt: its number; empty: database_empty_at_install_start; then: the purpose of the
\* schema update; at: the position in PRIMARY_KEY_LESS_TABLES.
Hooks == [attempt : 1..MaxAttempts, empty : BOOLEAN, then : Purposes,
          at : 1..(Len(Tables) + 1)]
NoHook == [attempt |-> 1, empty |-> FALSE, then |-> "idle", at |-> 1]

TypeOK ==
    /\ schema \in Schemas
    /\ flag \in BOOLEAN /\ content \in BOOLEAN
    /\ table \in [Names -> Table \union {ABSENT}]
    /\ leader \in Units
    /\ pc \in [Units -> Steps]
    /\ hook \in [Units -> Hooks]
    /\ blank \subseteq Units /\ configured \subseteq Units
    /\ faults \in 0..MaxFaults /\ updates \in 0..MaxUpdates

\* The database is empty, or holds tables that were there before the charm.
Init ==
    /\ schema = "none"
    /\ flag = FALSE
    /\ content \in BOOLEAN
    /\ table = [n \in Names |-> ABSENT]
    /\ leader \in Units
    /\ pc = [u \in Units |-> "idle"]
    /\ hook = [u \in Units |-> NoHook]
    /\ blank = {} /\ configured = {}
    /\ faults = 0 /\ updates = 0

----------------------------------------------------------------------------
Has(fault) == fault \in Faults /\ faults < MaxFaults
CountFault == faults' = faults + 1 /\ UNCHANGED updates

Step(u, from, to) == pc[u] = from /\ pc' = [pc EXCEPT ![u] = to]
Remember(u, h) == hook' = [hook EXCEPT ![u] = h]

\* The hook ends with a status; what it remembered is gone.
End(u) == pc' = [pc EXCEPT ![u] = "idle"] /\ Remember(u, NoHook)

DatabaseIsEmpty == schema = "none" /\ ~flag /\ ~content

\* _reconcile_configuration finds the flag: the unit writes its settings and goes on.
Proceed(u) ==
    /\ pc[u] = "idle"
    /\ flag
    /\ u \notin configured
    /\ configured' = configured \union {u}
    /\ blank' = blank \ {u}
    /\ UNCHANGED <<database, leader, pc, hook, bounds>>

\* It finds no flag, writes the settings of a schema update and calls _install.
FindUninstalled(u) ==
    /\ ~flag
    /\ Step(u, "idle", "install")
    /\ blank' = blank \ {u}
    /\ UNCHANGED <<database, leader, hook, configured, bounds>>

\* Mutant: tables that were there before are not told from those of a failed attempt.
StartInstallAnyway(u) ==
    /\ u = leader
    /\ Step(u, "install", "attempt")
    /\ Remember(u, [NoHook EXCEPT !.empty = TRUE])
    /\ blank' = blank \union {u}
    /\ UNCHANGED <<database, leader, configured, bounds>>

\* The leader remembers whether the database is empty and blanks its user settings.
StartInstall(u) ==
    /\ u = leader
    /\ Step(u, "install", "attempt")
    /\ Remember(u, [NoHook EXCEPT !.empty = DatabaseIsEmpty])
    /\ blank' = blank \union {u}
    /\ UNCHANGED <<database, leader, configured, bounds>>

AwaitInstallation(u) ==
    /\ u # leader
    /\ Step(u, "install", "wait")
    /\ UNCHANGED <<database, leader, hook, blank, configured, bounds>>

FindInstalled(u) ==
    /\ flag
    /\ Step(u, "wait", "idle")
    /\ configured' = configured \union {u}
    /\ UNCHANGED <<database, leader, hook, blank, bounds>>

TimeOut(u) ==
    /\ Step(u, "wait", "idle")
    /\ UNCHANGED <<database, leader, hook, blank, configured, bounds>>

\* Tables that are missing are created as MediaWiki ships them.
Created == [n \in Names |-> IF Exists(table[n]) THEN table[n] ELSE Fresh]

\* installPreConfigured succeeds.
InstallSucceeds(u) ==
    /\ Step(u, "attempt", "restore")
    /\ schema' = IF schema = "full" THEN "full" ELSE "core"
    /\ table' = Created
    /\ UNCHANGED <<flag, content, leader, hook, blank, configured, bounds>>

\* Mutant: the loop over the attempts does one too many.
OneAttemptMore(u) == hook[u].attempt > MaxAttempts

LastAttempt(u) == hook[u].attempt = MaxAttempts

\* It fails, having created some of the tables.  Another attempt is prepared by dropping
\* them, if the database was empty, or else by a schema update.
InstallFails(u) ==
    /\ Has("script-failure")
    /\ pc[u] = "attempt"
    /\ \E some \in SUBSET Names :
          table' = [n \in Names |-> IF n \in some THEN Created[n] ELSE table[n]]
    /\ schema' = IF schema = "none" THEN "partial" ELSE schema
    /\ IF LastAttempt(u)
       THEN End(u)
       ELSE /\ pc' = [pc EXCEPT ![u] = IF hook[u].empty THEN "reset" ELSE "update"]
            /\ Remember(u, [hook[u] EXCEPT !.then = "attempt"])
    /\ CountFault
    /\ UNCHANGED <<flag, content, leader, blank, configured>>

NextAttempt(u) ==
    /\ pc' = [pc EXCEPT ![u] = "attempt"]
    /\ Remember(u, [hook[u] EXCEPT !.attempt = @ + 1])

\* _reset_partially_initialized_database drops every base table.
Reset(u) ==
    /\ pc[u] = "reset"
    /\ schema' = "none"
    /\ flag' = FALSE /\ content' = FALSE
    /\ table' = [n \in Names |-> ABSENT]
    /\ NextAttempt(u)
    /\ UNCHANGED <<leader, blank, configured, bounds>>

\* Some tables are dropped, then the server fails for good.
ResetFails(u) ==
    /\ Has("database-down")
    /\ pc[u] = "reset"
    /\ \E some \in SUBSET Names :
          table' = [n \in Names |-> IF n \in some THEN ABSENT ELSE table[n]]
    /\ schema' = IF schema = "none" THEN "none" ELSE "partial"
    /\ flag' \in {flag, FALSE}
    /\ content' \in {content, FALSE}
    /\ End(u)
    /\ CountFault
    /\ UNCHANGED <<leader, blank, configured>>

\* Mutant: the schema is updated under the blank settings.
RestoreNothing(u) ==
    /\ Step(u, "restore", "update")
    /\ Remember(u, [hook[u] EXCEPT !.then = "flag"])
    /\ UNCHANGED <<database, leader, blank, configured, bounds>>

\* _push_user_settings, before the schema update that creates the tables of extensions.
RestoreUserSettings(u) ==
    /\ Step(u, "restore", "update")
    /\ Remember(u, [hook[u] EXCEPT !.then = "flag"])
    /\ blank' = blank \ {u}
    /\ UNCHANGED <<database, leader, configured, bounds>>

\* reconcile_operation_mode: a schema update was requested of the leader.
RequestedUpdate(u) ==
    /\ u = leader /\ u \in configured
    /\ flag
    /\ updates < MaxUpdates
    /\ Step(u, "idle", "update")
    /\ Remember(u, NoHook)
    /\ updates' = updates + 1
    /\ UNCHANGED <<database, leader, blank, configured, faults>>

\* update_database_schema: update.php migrates the tables.  The MediaWiki version at hand
\* may give some of them a key of their own.
UpdateSucceeds(u) ==
    /\ schema # "none"
    /\ Step(u, "update", "keys")
    /\ schema' = IF u \in blank /\ schema # "full" THEN "core" ELSE "full"
    /\ \E migrated \in SUBSET Names :
          table' = [n \in Names |->
                       [Created[n] EXCEPT !.native = @ \/ n \in migrated]]
    /\ Remember(u, [hook[u] EXCEPT !.at = 1])
    /\ UNCHANGED <<flag, content, leader, blank, configured, bounds>>

\* MediaWikiInstallError: a retry of the installation goes on to its next attempt.
Raise(u) == IF hook[u].then = "attempt" THEN NextAttempt(u) ELSE End(u)

UpdateFails(u) ==
    /\ pc[u] = "update"
    /\ \/ schema = "none" /\ UNCHANGED bounds
       \/ Has("script-failure") /\ CountFault
    /\ Raise(u)
    /\ UNCHANGED <<database, leader, blank, configured>>

----------------------------------------------------------------------------
(* _reconcile_primary_key_compatibility, one table after the other.        *)

AtTable(u) == Tables[hook[u].at]
Current(u) == table[AtTable(u)]

GoTo(u, step) == pc' = [pc EXCEPT ![u] = step] /\ UNCHANGED hook
NextTable(u) ==
    /\ pc' = [pc EXCEPT ![u] = "keys"]
    /\ Remember(u, [hook[u] EXCEPT !.at = @ + 1])

\* Mutant: a table without a compliant key is taken for one without the column.
InspectTableByKeys(u) ==
    /\ pc[u] = "keys"
    /\ hook[u].at <= Len(Tables)
    /\ IF ~Exists(Current(u)) \/ Compliant(Current(u)) THEN NextTable(u) ELSE GoTo(u, "column")
    /\ UNCHANGED <<database, leader, blank, configured, bounds>>

\* What the table looks like decides which statement comes next.
InspectTable(u) ==
    /\ pc[u] = "keys"
    /\ hook[u].at <= Len(Tables)
    /\ LET t == Current(u) IN
          CASE ~Exists(t)                       -> NextTable(u)
            [] Exists(t) /\ Redundant(t)        -> GoTo(u, "drop-key")
            [] Exists(t) /\ Incomplete(t)       -> GoTo(u, IF t.index THEN "default" ELSE "key")
            [] Exists(t) /\ ~t.column /\ ~t.native ->
                  IF t.rows THEN Raise(u) ELSE GoTo(u, "column")
            [] OTHER                            -> NextTable(u)
    /\ UNCHANGED <<database, leader, blank, configured, bounds>>

\* A statement that the server accepts.
Alter(u, changed) ==
    /\ table' = [table EXCEPT ![AtTable(u)] = changed]
    /\ UNCHANGED <<schema, flag, content, leader, blank, configured, bounds>>

AddColumn(u) ==
    /\ pc[u] = "column"
    /\ CanAddColumn(Current(u))
    /\ Alter(u, AddColumnTo(Current(u)))
    /\ GoTo(u, "key")

AddKey(u) ==
    /\ pc[u] = "key"
    /\ CanAddKey(Current(u))
    /\ Alter(u, AddKeyTo(Current(u)))
    /\ GoTo(u, "default")

SetDefault(u) ==
    /\ pc[u] = "default"
    /\ CanSetDefault(Current(u))
    /\ Alter(u, SetDefaultOf(Current(u)))
    /\ NextTable(u)

DropKey(u) ==
    /\ pc[u] = "drop-key"
    /\ CanDropKey(Current(u))
    /\ Alter(u, DropKeyOf(Current(u)))
    /\ GoTo(u, "drop-column")

DropColumn(u) ==
    /\ pc[u] = "drop-column"
    /\ CanDropColumn(Current(u))
    /\ Alter(u, DropColumnOf(Current(u)))
    /\ NextTable(u)

Acceptable(step, t) ==
    CASE step = "column"      -> CanAddColumn(t)
      [] step = "key"         -> CanAddKey(t)
      [] step = "default"     -> CanSetDefault(t)
      [] step = "drop-key"    -> CanDropKey(t)
      [] step = "drop-column" -> CanDropColumn(t)

\* The server rejects a statement: because of the table, or for a reason of its own.
Rejected(u) ==
    \/ ~Acceptable(pc[u], Current(u)) /\ UNCHANGED bounds
    \/ Has("statement-failure") /\ CountFault

\* _db_retry_deco starts over with the first table, or gives up.
StatementFails(u) ==
    /\ pc[u] \in Statements
    /\ Rejected(u)
    /\ \/ pc' = [pc EXCEPT ![u] = "keys"] /\ Remember(u, [hook[u] EXCEPT !.at = 1])
       \/ End(u)
    /\ UNCHANGED <<database, leader, blank, configured>>

\* A drop that fails is logged, and the surrogate stays.
DropFails(u) ==
    /\ pc[u] \in Drops
    /\ Rejected(u)
    /\ NextTable(u)
    /\ UNCHANGED <<database, leader, blank, configured>>

KeysDone(u) ==
    /\ hook[u].at > Len(Tables)
    /\ Step(u, "keys", "engine")
    /\ UNCHANGED <<database, leader, hook, blank, configured, bounds>>

\* _reconcile_storage_engine, and the end of update_database_schema.
ConvertEngines(u) ==
    /\ pc[u] = "engine"
    /\ IF hook[u].then = "attempt" THEN NextAttempt(u)
       ELSE GoTo(u, hook[u].then)
    /\ UNCHANGED <<database, leader, blank, configured, bounds>>

\* _set_database_initialized; the hook goes on to configure and serve.
SetFlag(u) ==
    /\ pc[u] = "flag"
    /\ flag' = TRUE
    /\ End(u)
    /\ configured' = configured \union {u}
    /\ UNCHANGED <<schema, content, table, leader, blank, bounds>>

\* An operation on the database fails for as long as it is retried, and the hook is blocked.
GiveUp(u) ==
    /\ Has("database-down")
    /\ pc[u] \in {"install", "wait", "keys", "engine", "flag"}
    /\ End(u)
    /\ CountFault
    /\ UNCHANGED <<database, leader, blank, configured>>

Crash(u) ==
    /\ Has("crash")
    /\ pc[u] # "idle"
    /\ End(u)
    /\ CountFault
    /\ UNCHANGED <<database, leader, blank, configured>>

\* Juju elects another leader: after the hook of the old one or, when its lease expires,
\* during it.
Elect(u) ==
    /\ u # leader
    /\ faults < MaxFaults
    /\ pc[leader] = "idle" \/ Has("lease-expiry")
    /\ leader' = u
    /\ CountFault
    /\ UNCHANGED <<database, pc, hook, blank, configured>>

\* The wiki is served and written to.
UsersWrite ==
    /\ configured # {} /\ flag /\ schema = "full"
    /\ \E n \in Names :
          /\ Insertable(table[n])
          /\ table' = [table EXCEPT ![n].rows = TRUE]
    /\ content' = TRUE
    /\ UNCHANGED <<schema, flag, leader, pc, hook, blank, configured, bounds>>

Waiting(u) == FindUninstalled(u) \/ AwaitInstallation(u) \/ FindInstalled(u) \/ TimeOut(u)
Installing(u) ==
    \/ StartInstall(u) \/ InstallSucceeds(u) \/ InstallFails(u)
    \/ Reset(u) \/ ResetFails(u) \/ RestoreUserSettings(u) \/ SetFlag(u)
Updating(u) ==
    \/ RequestedUpdate(u) \/ UpdateSucceeds(u) \/ UpdateFails(u)
    \/ InspectTable(u) \/ AddColumn(u) \/ AddKey(u) \/ SetDefault(u)
    \/ DropKey(u) \/ DropColumn(u) \/ StatementFails(u) \/ DropFails(u)
    \/ KeysDone(u) \/ ConvertEngines(u)
Failing(u) == GiveUp(u) \/ Crash(u) \/ Elect(u)

Next ==
    \/ \E u \in Units : Proceed(u) \/ Waiting(u) \/ Installing(u) \/ Updating(u) \/ Failing(u)
    \/ UsersWrite

\* A hook that runs takes its next step, and scripts fail only so many times.  That a unit
\* which does not serve is given another event is an assumption: the charm has no timer, and a
\* hook that ends as blocked has spent its event.
Fairness ==
    \A u \in Units :
        /\ WF_vars(Proceed(u)) /\ WF_vars(Waiting(u)) /\ WF_vars(Installing(u))
        /\ WF_vars(pc[u] # "idle" /\ Updating(u))
Spec == Init /\ [][Next]_vars
FairSpec == Spec /\ Fairness

----------------------------------------------------------------------------
(* Properties.                                                             *)

\* The hook of u is in the part of an installation or schema update that only a leader runs.
Busy(u) == pc[u] \notin {"idle", "install", "wait"}

\* The flag is the last thing an installation creates: whatever crashes, retries and
\* elections came before, a database that carries it has every table of MediaWiki and of its
\* extensions, each acceptable to Group Replication.  The code behaviour is the order of
\* steps in _install, and that the flag is what lets other units proceed.
InstalledIsComplete ==
    flag =>
        /\ schema = "full"
        /\ \A n \in Names : Exists(table[n]) /\ Compliant(table[n])

\* The settings blanked for an installation never reach a unit that serves the wiki: a hook
\* that died in between is followed by one that writes them again.
NoServiceOnBlankSettings == configured \intersect blank = {}

\* When update_database_schema has been through the tables, every one complies and, unless
\* MediaWiki's own key has superseded the surrogate, takes inserts, from whichever of the
\* separate statements an earlier run was cut off at.
KeysReconciled ==
    \A u \in Units : pc[u] = "engine" =>
        \A n \in Names : Exists(table[n]) =>
            /\ Compliant(table[n])
            /\ ~table[n].native => Insertable(table[n])

\* What an installation attempt did not create, tables that were there before the charm or
\* what users have written, is never dropped: _install resets only a database that was empty
\* when it began.
ContentKept == [][content => content']_vars

\* No statement takes from a table the last key that Group Replication accepts: the
\* surrogate is dropped only where MediaWiki's own key remains.
KeepsCompliance ==
    \A n \in Names :
        (Exists(table[n]) /\ Compliant(table[n]) /\ Exists(table'[n])) => Compliant(table'[n])
ComplianceKept == [][KeepsCompliance]_vars

\* As long as further events arrive, every unit comes to serve the wiki: timeouts of the units
\* that wait, failed attempts, crashes and elections delay the installation but leave no
\* database that no later hook can finish.
EventuallyServed == <>[](configured = Units)

=============================================================================
