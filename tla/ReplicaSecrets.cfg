SPECIFICATION FairSpec
CONSTANTS
    u1 = u1
    u2 = u2
    Units = {u1, u2}
    Fields = {"key", "saml-salt"}
    OldFields = {"key"}
    NONE = NONE
    MaxElections = 2
    MaxRotations = 2
    MaxFailures = 1
    Faults = {"hook-failure", "lease-loss"}
INVARIANTS
    ServedSecretsAreShared
PROPERTIES
    OnlyRotationChangesFields
    UnitsAgree
CHECK_DEADLOCK FALSE
