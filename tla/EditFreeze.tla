----------------------------- MODULE EditFreeze -----------------------------
(***************************************************************************)
(* What the database-update operation promises, without hooks, databags or *)
(* leaders: the application is frozen on request, each unit promises not   *)
(* to accept edits for as long as it is frozen, the schema update runs     *)
(* only under the promise of every unit, and the application thaws only    *)
(* after an update that ran to its end under that promise.                 *)
(***************************************************************************)
CONSTANT Units

VARIABLES
    frozen,    \* whether a database update is requested
    accepts,   \* the units that serve the wiki with settings that accept edits
    promised,  \* the units that promised to accept none
    update     \* "none", "running" or "done"

vars == <<frozen, accepts, promised, update>>

Init ==
    /\ frozen = FALSE
    /\ accepts = {}
    /\ promised = {}
    /\ update = "none"

Freeze ==
    /\ ~frozen
    /\ frozen' = TRUE
    /\ UNCHANGED <<accepts, promised, update>>

\* A unit bound by no promise serves whatever settings it likes.
Serve(u) ==
    /\ u \notin promised
    /\ accepts' \in {accepts \union {u}, accepts \ {u}}
    /\ UNCHANGED <<frozen, promised, update>>

Promise(u) ==
    /\ frozen
    /\ u \notin accepts
    /\ promised' = promised \union {u}
    /\ UNCHANGED <<frozen, accepts, update>>

\* The unit that runs the update gives its own promise by doing so.
Run(u) ==
    /\ frozen
    /\ update = "none"
    /\ u \notin accepts
    /\ promised' = promised \union {u}
    /\ promised' = Units
    /\ update' = "running"
    /\ UNCHANGED <<frozen, accepts>>

Finish ==
    /\ update = "running"
    /\ update' = "done"
    /\ UNCHANGED <<frozen, accepts, promised>>

\* The update fails, or its outcome is lost, and it will have to be run again.
Withdraw(u) ==
    /\ update \in {"running", "done"}
    /\ update' = "none"
    /\ promised' \in {promised, promised \ {u}}
    /\ UNCHANGED <<frozen, accepts>>

Thaw ==
    /\ update = "done"
    /\ frozen' = FALSE
    /\ promised' = {}
    /\ update' = "none"
    /\ UNCHANGED accepts

Next ==
    \/ Freeze \/ Finish \/ Thaw
    \/ \E u \in Units : Serve(u) \/ Promise(u) \/ Run(u) \/ Withdraw(u)

Spec == Init /\ [][Next]_vars
=============================================================================
