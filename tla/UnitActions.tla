----------------------------- MODULE UnitActions -----------------------------
(***************************************************************************)
(* The actions with which an operator works on the wiki through a unit:    *)
(* users, maintenance scripts, and what becomes of the requests for an     *)
(* operation of all units (charm.py).  The requests themselves, and how    *)
(* the units go through the operations, are in OperationCoordination.      *)
(*                                                                         *)
(* The state is the wiki's users, each a password and groups, the mode of  *)
(* the application, the modes of its units, and how this unit's last       *)
(* reconciliation ended.  An action ends with an outcome: failed, and what *)
(* it shows, a text and perhaps a password.                                *)
(***************************************************************************)
EXTENDS LogRedaction, OperationMode

NoPassword == << >>
Fails(text) == [failed |-> TRUE, password |-> NoPassword, output |-> text]
Succeeds(text) == [Fails(text) EXCEPT !.failed = FALSE]
Ends(state, outcome) == [state |-> state, outcome |-> outcome]

Runs(op) == op.action \in {"create-and-promote", "run-maintenance-script"}

\* _reconciliation comes to its end, ends early with a status for the unit, or raises.
Endings == {"complete", "status", "raises"}
IsAlone(op) == op.action = "force-reconciliation" /\ ~op.all

MayAnswer(op) == op.answer \in {"in time", "late", "none"}

\* A state that an action meets, and an action: every user has a password, and a new one is not
\* blank; what a command prints is a text.
IsState(state) ==
    /\ state = [users |-> state.users, mode |-> state.mode, unitModes |-> state.unitModes,
                ended |-> state.ended]
    /\ \A username \in DOMAIN state.users : state.users[username].password # NoPassword
IsOperation(op) ==
    /\ Runs(op) \/ op.action \in {"update-database", "force-reconciliation", "set-maintenance-mode"}
    /\ IsAlone(op) => op.ends \in Endings
    /\ Runs(op) => MayAnswer(op) /\ IsSequence(op.prints)
    /\ op.action = "create-and-promote" => op.fresh # NoPassword /\ {op.generate, op.force} \subseteq BOOLEAN

----------------------------------------------------------------------------
(* Commands in the container.                                              *)

WithUser(users, username, user) ==
    [u \in DOMAIN users \union {username} |-> IF u = username THEN user ELSE users[u]]

\* createAndPromote, of which nothing is in the repository: what it does if it comes to its end.
Account(state, op, password) ==
    LET exists == op.username \in DOMAIN state.users
        old == IF exists THEN state.users[op.username] ELSE [password |-> NoPassword, groups |-> {}]
        new == [password |-> IF password = NoPassword THEN old.password ELSE password,
                groups |-> old.groups \union op.groups]
    IN IF (exists /\ ~op.force) \/ (~exists /\ password = NoPassword)
       THEN [state |-> state, code |-> 1]
       ELSE [state |-> [state EXCEPT !.users = WithUser(@, op.username, new)], code |-> 0]

\* Another maintenance script leaves the users alone, and may fail.
Script(state, op) == [state |-> state, code |-> op.code]

\* ContainerService._run_cli: a command that is not answered in time has run, or not; whatever is
\* put out is masked.  raised is what the caller has to handle.
RunCli(state, op, effect, values) ==
    CASE op.answer = "in time" -> [state |-> effect.state, code |-> effect.code, raised |-> FALSE,
                                   output |-> Redacted(op.prints, values)]
      [] op.answer = "late"    -> [state |-> effect.state, code |-> 0, raised |-> TRUE,
                                   output |-> << >>]
      [] op.answer = "none"    -> [state |-> state, code |-> 0, raised |-> TRUE, output |-> << >>]

\* CommandExecResult.raise_for_status, with what stderr has to say.
RaiseForStatus(result) == [result EXCEPT !.raised = @ \/ result.code # 0]

----------------------------------------------------------------------------
(* Users.                                                                  *)

\* Mutant: the script's exit code is not looked at.
CreateRegardless(state, op, values) ==
    LET password == IF op.generate THEN op.fresh ELSE NoPassword
    IN [result |-> RunCli(state, op, Account(state, op, password), values \union {password}),
        password |-> password]

\* MediaWiki.create_and_promote_user: the password is registered before it is used.
CreateAndPromoteUser(state, op, values) ==
    LET password == IF op.generate THEN op.fresh ELSE NoPassword
        result == RunCli(state, op, Account(state, op, password), values \union {password})
    IN [result |-> RaiseForStatus(result), password |-> password]

\* _on_create_and_promote_user.
OnCreateAndPromoteUser(state, op, values) ==
    IF ~op.generate /\ ~op.force THEN Ends(state, Fails(<< >>))
    ELSE LET created == CreateAndPromoteUser(state, op, values)
             result == created.result
         IN Ends(result.state,
                 IF result.raised THEN Fails(result.output)
                 ELSE [Succeeds(<< >>) EXCEPT !.password = created.password])

----------------------------------------------------------------------------
(* Maintenance scripts.                                                    *)

\* What of a script's name and arguments is refused.
Refused(op) ==
    \/ op.script \in {"absolute", "traversal", "php", "unlisted"}
    \/ op.args = "unparsable"
    \/ op.args \in {"--conf", "--globals", "--wiki"}

\* _on_run_maintenance_script.
OnRunMaintenanceScript(state, op, values) ==
    IF Refused(op) THEN Ends(state, Fails(<< >>))
    ELSE LET result == RunCli(state, op, Script(state, op), values)
         IN Ends(result.state,
                 IF result.raised \/ result.code # 0 THEN Fails(result.output)
                 ELSE Succeeds(result.output))

----------------------------------------------------------------------------
(* Requests for all units.                                                 *)

UnitsAreNormal(state) == \A m \in Range(state.unitModes) : m \in {NORMAL, ABSENT}

\* _on_update_database.  A request that there is already is made again.
OnUpdateDatabase(state, op) ==
    IF /\ op.leads /\ op.related
       /\ state.mode \in {NORMAL, DATABASE_UPDATE}
       /\ UnitsAreNormal(state)
    THEN Ends([state EXCEPT !.mode = DATABASE_UPDATE], Succeeds(<< >>))
    ELSE Ends(state, Fails(<< >>))

\* _on_force_reconciliation.  Of this unit alone it is a reconciliation, which is what counts here
\* of it; one that ends with a status is reported like one that comes to its end.
OnForceReconciliation(state, op) ==
    IF IsAlone(op)
    THEN Ends([state EXCEPT !.ended = op.ends],
              IF op.ends = "raises" THEN Fails(<< >>) ELSE Succeeds(<< >>))
    ELSE IF op.leads /\ op.related /\ state.mode = NORMAL /\ UnitsAreNormal(state)
    THEN Ends([state EXCEPT !.mode = FORCE_RECONCILIATION], Succeeds(<< >>))
    ELSE Ends(state, Fails(<< >>))

\* _report_maintenance_mode: the output is whether maintenance is requested.
ReportMaintenanceMode(state, op) ==
    Ends(state, IF ~op.leads \/ ~op.related \/ state.mode = UNKNOWN THEN Fails(<< >>)
                ELSE Succeeds(IF state.mode = MAINTENANCE THEN <<"enabled">> ELSE << >>))

Act(state, op, values) ==
    CASE op.action = "create-and-promote"     -> OnCreateAndPromoteUser(state, op, values)
      [] op.action = "run-maintenance-script" -> OnRunMaintenanceScript(state, op, values)
      [] op.action = "update-database"        -> OnUpdateDatabase(state, op)
      [] op.action = "force-reconciliation"   -> OnForceReconciliation(state, op)
      [] op.action = "set-maintenance-mode"   -> ReportMaintenanceMode(state, op)

=============================================================================
