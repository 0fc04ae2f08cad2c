SPECIFICATION Spec
CONSTANTS
    u1 = u1
    u2 = u2
    Units = {u1, u2}
    none = none
    d1 = d1
    s1 = s1
    Dependencies = {none, d1}
    NoDependencies = none
    LocalSettings = {s1}
    MaxRelease = 1
    Modes = {"normal", "maintenance", "force-reconciliation"}
    Faults = {"composer-failure", "hook-error", "status-failure", "pod-restart", "leader-change", "lease-loss"}
    MISSING = MISSING
    FAILED = FAILED
    CLEARED = CLEARED
    PARTIAL = PARTIAL
SYMMETRY UnitSymmetry
INVARIANTS
    SettingsFindTheirPackages
    FollowersHoldLeaderPackages
PROPERTIES
    ImplementsAgreement
CHECK_DEADLOCK FALSE
