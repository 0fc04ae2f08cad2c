--------------------------- MODULE SurrogateKeys ----------------------------
(***************************************************************************)
(* A table that MediaWiki ships without a primary key, as Group            *)
(* Replication sees it, and the statements by which the charm gives it a   *)
(* surrogate key.  Each statement is DDL and commits on its own.           *)
(***************************************************************************)

CONSTANT ABSENT  \* the table does not exist

\* native: MediaWiki's own primary key or non-null unique key; column, index, default: the
\* charm's mw_charm_gr_key, the unique key over it and its default; rows: it holds rows.
Table == [native : BOOLEAN, column : BOOLEAN, index : BOOLEAN, default : BOOLEAN,
          rows : BOOLEAN]

Fresh == [native |-> FALSE, column |-> FALSE, index |-> FALSE, default |-> FALSE,
          rows |-> FALSE]

Exists(t) == t # ABSENT

\* _group_replication_keys: what Group Replication requires before it accepts a write.
Compliant(t) == t.native \/ (t.column /\ t.index)

\* Mutant: any compliant key makes the surrogate redundant, the surrogate's own included.
RedundantByAnyKey(t) == t.column /\ Compliant(t)

\* A compliant key that does not include the charm's column makes that column redundant.
Redundant(t) == t.column /\ t.native

\* Mutant: a surrogate with its unique key passes for complete.
IncompleteWithoutKey(t) == t.column /\ ~t.native /\ ~t.index

\* _complete_surrogate_key has something to add.
Incomplete(t) == t.column /\ ~t.native /\ ~(t.index /\ t.default)

\* A row can be inserted: the table complies, and the NOT NULL column has a default.
Insertable(t) == Exists(t) /\ Compliant(t) /\ (t.column => t.default)

\* The statements, each with what the server requires of the table.
CanAddColumn(t) == Exists(t) /\ ~t.column /\ ~t.rows
AddColumnTo(t) == [t EXCEPT !.column = TRUE]

CanAddKey(t) == Exists(t) /\ t.column /\ ~t.index
AddKeyTo(t) == [t EXCEPT !.index = TRUE]

CanSetDefault(t) == Exists(t) /\ t.column
SetDefaultOf(t) == [t EXCEPT !.default = TRUE]

CanDropKey(t) == Exists(t) /\ t.index
DropKeyOf(t) == [t EXCEPT !.index = FALSE]

CanDropColumn(t) == Exists(t) /\ t.column
DropColumnOf(t) == [t EXCEPT !.column = FALSE, !.default = FALSE]

=============================================================================
