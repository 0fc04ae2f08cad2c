------------------------ MODULE EditFreezeRefinement ------------------------
(***************************************************************************)
(* The peer protocol of OperationCoordination implements EditFreeze, as    *)
(* long as no unit joins and leadership moves between idle units only.     *)
(***************************************************************************)
EXTENDS OperationCoordination

Frozen == appMode = DATABASE_UPDATE

Accepting == {u \in Units : site[u] \notin {DOWN, DATABASE_UPDATE}}

CompletesUpdate(u) == pc[u] = "completing" /\ snap[u] = DATABASE_UPDATE

Promised ==
    {u \in Units : Frozen /\ \/ unitMode[u] = DATABASE_UPDATE
                             \/ pc[u] = "updating"
                             \/ CompletesUpdate(u)}

UpdateStage ==
    IF \E u \in Units : pc[u] = "updating" THEN "running"
    ELSE IF \E u \in Units : CompletesUpdate(u) THEN "done" ELSE "none"

Freezing == INSTANCE EditFreeze WITH
    frozen <- Frozen, accepts <- Accepting, promised <- Promised, update <- UpdateStage

\* Every behaviour of the units is one that EditFreeze allows: the schema update runs
\* under the promise of every unit, a promise is kept until the operation is over, and
\* the operation ends only after an update that ran to its end.
ImplementsEditFreeze == Freezing!Spec
=============================================================================
