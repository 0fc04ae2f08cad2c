--------------------------- MODULE MCPendingWork ---------------------------
EXTENDS PendingWork, TLC

CONSTANTS a, b, i, j, c, d, e, k, l

\* d renews c with the same key, e comes with another.
MCKeyOf == c :> k @@ d :> k @@ e :> l

ContentSymmetry ==
    Permutations(Versions) \union Permutations(Images) \union Permutations({c, d})
=============================================================================
