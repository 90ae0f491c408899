SPECIFICATION Spec
CONSTANTS
    A = A
    p = p
    Person = {p}
    ListAddr = {A}
    MaxId = 1
    r1 = r1
    r2 = r2
    Request = {r1, r2}
    Superadmin = "superadmin"
    InitList <- PublicList
    RoleChoice <- MCRoles
    SettingsChoice <- MCSettings
    Week = 1
    MaxDay = 2
    Limits <- MCTwoWeeks
INVARIANTS
    RefusedOnlyWithinWeek
CHECK_DEADLOCK FALSE
