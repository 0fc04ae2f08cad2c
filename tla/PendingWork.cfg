SPECIFICATION Spec
CONSTANTS
    a = a
    b = b
    Versions = {a, b}
    Certificates = {c, d, e}
    c = c
    d = d
    e = e
    k = k
    l = l
    Keys = {k, l}
    KeyOf <- MCKeyOf
    NONE = NONE
    i = i
    j = j
    Images = {i, j}
    MaxChanges = 2
    Faults = {"hook-error", "status-failure", "refresh-failure", "site-failure", "service-failure", "pod-restart"}
INVARIANTS
    RestartsAreOwed
    RebuildIsOwed
    ReconciledWorkloadIsCurrent
CHECK_DEADLOCK FALSE
SYMMETRY ContentSymmetry
