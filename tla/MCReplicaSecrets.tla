-------------------------- MODULE MCReplicaSecrets --------------------------
EXTENDS ReplicaSecrets, TLC
CONSTANTS u1, u2

=============================================================================
