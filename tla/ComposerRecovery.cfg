SPECIFICATION FairSpec
CONSTANTS
    u1 = u1
    u2 = u2
    Units = {u1, u2}
    none = none
    d1 = d1
    s1 = s1
    Dependencies = {none, d1}
    NoDependencies = none
    LocalSettings = {s1}
    MaxRelease = 1
    Modes = {"normal", "maintenance", "force-reconciliation"}
    Faults = {"composer-failure", "leader-change"}
    MISSING = MISSING
    FAILED = FAILED
    CLEARED = CLEARED
    PARTIAL = PARTIAL
PROPERTIES
    UnitsSynchronize
CHECK_DEADLOCK FALSE
