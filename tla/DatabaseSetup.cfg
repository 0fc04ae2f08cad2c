SPECIFICATION FairSpec
CONSTANTS
    ABSENT = ABSENT
    Units = {u1, u2}
    Tables <- TwoTables
    MaxAttempts = 2
    MaxFaults = 4
    MaxUpdates = 1
    Faults = {"script-failure", "statement-failure", "database-down", "crash"}
INVARIANTS
    InstalledIsComplete
    NoServiceOnBlankSettings
    KeysReconciled
PROPERTIES
    ContentKept
    ComplianceKept
    EventuallyServed
CHECK_DEADLOCK FALSE
