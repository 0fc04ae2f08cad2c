--------------------------- MODULE MCIntegrations ---------------------------
EXTENDS Integrations, TLC
CONSTANTS u1, u2, r1, r2, c1, c2

UnitSymmetry == Permutations({u1, u2})

=============================================================================
