SPECIFICATION Spec
CONSTANTS
    A = A
    p = p
    Person = {p}
    ListAddr = {A}
    MaxId = 1
    r1 = r1
    r2 = r2
    Request = {r1, r2}
    Superadmin = "superadmin"
SYMMETRY Symmetry
CONSTANTS
    InitList <- ClosedList
    RoleChoice <- MCRoles
    SettingsChoice <- MCSettings
    Week = 1
    MaxDay = 1
    Limits <- MCLimits
INVARIANTS
    TypeOK
    MembersWereAdmitted
    RolesWereGranted
    LogMatchesMembership
    OneMailPerWeek
PROPERTIES
    ConfirmKeepsRoles
CHECK_DEADLOCK FALSE
