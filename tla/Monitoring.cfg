SPECIFICATION Spec
SYMMETRY UnitSymmetry
INVARIANTS MonitoringIsCurrent ReportsAreCurrent
CHECK_DEADLOCK FALSE
CONSTANTS
    u1 = u1
    u2 = u2
    s1 = s1
    s2 = s2

    Units = {u1, u2}
    Servers = {s1, s2}
    Relations = {1, 2}
    Serves <- MCServes
    NONE = NONE
    Kinds = {"metrics-endpoint", "grafana-dashboard"}
    InvalidRevisions = {2}
    MaxChanges = 2
    MaxAccidents = 1
    Faults = {"hook-failure", "election", "replacement"}
