SPECIFICATION Spec
CONSTANTS
    u1 = u1
    u2 = u2
    Units = {u1, u2}
    Requests = {"database-update", "maintenance", "force-reconciliation"}
    Faults = {"hook-error", "status-failure", "database-failure", "pod-restart", "leader-change", "foreign-mode"}
SYMMETRY UnitSymmetry
INVARIANTS
    SchemaUpdateQuiesced
    UpdateProtected
    AcknowledgedUpdateIsApplied
PROPERTIES
    ForcedReconciliationIsComplete
    ImplementsEditFreeze
CHECK_DEADLOCK FALSE
