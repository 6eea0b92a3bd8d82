SPECIFICATION Spec
CONSTANTS
    NONE = NONE
    Users = {s, a, b}
    Supers = {s}
    Admin = a
    Tenants = {t1, t2}
    FirstTenant = t1
    Granted = {"org_admin", "compliance_auditor"}
    Procs = {p1, p2}
    Limit = 1
    Window = 1
    Minutes = 1
    MaxClock = 2
    MaxCalls = 3
SYMMETRY Symmetry
CHECK_DEADLOCK FALSE
INVARIANTS
    GuessesBounded
    LogMatchesMembers
    AllowedSinceItBegan
