SPECIFICATION FairSpec
CONSTANTS
    u1 = u1
    u2 = u2
    Units = {u1, u2}
    Requests = {"database-update", "maintenance"}
    Faults = {"hook-error"}
PROPERTIES
    CoordinatedOperationCompletes
    UnitsConverge
CHECK_DEADLOCK FALSE
