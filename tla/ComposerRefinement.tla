------------------------- MODULE ComposerRefinement -------------------------
(***************************************************************************)
(* The hooks of ComposerSync implement ComposerAgreement, as long as every *)
(* failed composer run leaves its mark.                                    *)
(***************************************************************************)
EXTENDS ComposerSync

\* MISSING is also what is not there of a pair or a plan.
ASSUME NothingAssumption ==
    MISSING \notin [config : Configs, lock : Locks]
            \union [config : Configs, follows : Locks \union {MISSING}, leads : BOOLEAN]

LocksFor == [c \in Configs |-> {l \in Locks : l.resolves = c.composer}]
BareConfigs == {c \in Configs : c.composer = NoDependencies}

Published ==
    IF MISSING \in {published.hash, published.lock} THEN MISSING
    ELSE [config |-> published.hash, lock |-> published.lock]

Plan(u) ==
    IF pc[u] = "idle" THEN MISSING
    ELSE [config |-> task[u].config, follows |-> task[u].lock, leads |-> task[u].leads]

\* What comes after the settings are rendered is to start the services with them.
Ready(u) ==
    IF pc[u] = "rendered" THEN [config |-> settings[u], lock |-> packages[u]] ELSE MISSING

Agreement == INSTANCE ComposerAgreement WITH
    Fits      <- LocksFor,
    Bare      <- BareConfigs,
    None      <- MISSING,
    published <- Published,
    plan      <- [u \in Units |-> Plan(u)],
    ready     <- [u \in Units |-> Ready(u)]

\* Every behaviour of the units is one that ComposerAgreement allows: settings are only ever
\* served with whole packages that fit them, a follower's are those that it saw published,
\* and a leader publishes what it runs with itself, however hooks fail and leadership moves
\* (mediawiki/_core.py:262, mediawiki_peers.py:84).
ImplementsAgreement == Agreement!Spec
=============================================================================
