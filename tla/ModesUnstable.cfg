SPECIFICATION Spec
CONSTANTS
    u1 = u1
    u2 = u2
    Units = {u1, u2}
    Requests = {"database-update", "maintenance", "force-reconciliation"}
    Faults = {"hook-error", "status-failure", "database-failure", "pod-restart", "scale-up", "scale-down", "leader-change", "update-loss"}
SYMMETRY UnitSymmetry
INVARIANTS
    NoJobsUnderMaintenanceSettings
PROPERTIES
    ProtectionPrecedesIntent
CHECK_DEADLOCK FALSE
