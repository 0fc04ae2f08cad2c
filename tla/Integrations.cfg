SPECIFICATION Spec
CONSTANTS
    u1 = u1
    u2 = u2
    r1 = r1
    r2 = r2
    c1 = c1
    c2 = c2
    Units = {u1, u2}
    RemoteUnits = {r1, r2}
    Certificates = {c1, c2}
    Kinds = {"database", "s3", "smtp", "saml", "receive-ca-cert", "logging", "traefik-route"}
    NONE = NONE
    MaxRelations = 2
    MaxChanges = 2
    MaxAccidents = 1
    Faults = {"hook-failure", "replacement", "election", "status"}
SYMMETRY UnitSymmetry
INVARIANTS
    InputsAreFollowed
    PublicationsAreCurrent
CHECK_DEADLOCK FALSE
