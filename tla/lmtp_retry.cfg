SPECIFICATION Spec
CONSTANTS
    A = A
    B = B
    C = C
    p = p
    q = q
    Person = {p, q}
    ListAddr = {A, B}
    MaxId = 2
    Session = {"s1", "s2"}
    Mails = {"toBoth", "join", "leave"}
    Msg <- MCMsg
    InitList <- MCList
    InitMember <- MCMember
    InitKnown <- MCKnown
    SettingsChoice <- MCSettings
    RoleChoice <- MCRoles
    MaxMails = 1
    MaxTries = 2
    MaxFaults = 2
    MaxAdminOps = 1
INVARIANTS
    SessionInv
    OncePerTry
    AcceptedMeansHandled
PROPERTIES
    ImplementsPromise
CHECK_DEADLOCK FALSE
