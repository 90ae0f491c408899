SPECIFICATION Spec
CONSTANTS
    A = A
    B = B
    C = C
    p = p
    q = q
    Person = {p, q}
    ListAddr = {A, B}
    MaxId = 2
    Session = {"s1"}
    Mails = {"toOne", "toBoth", "twice", "byQ", "byTwo", "nobody", "badFrom", "badTo", "badMime", "garbage", "badId", "spam", "bcc", "loop", "ndr", "toBounce", "join", "joinBoth", "leave", "twoLeave", "sender", "onBehalf"}
    Msg <- MCMsg
    InitList <- MCList
    InitMember <- MCMember
    InitKnown <- MCKnown
    SettingsChoice <- MCSettings
    RoleChoice <- MCRoles
    MaxMails = 2
    MaxTries = 2
    MaxFaults = 1
    MaxAdminOps = 0
INVARIANTS
    TypeOK
    AcceptedMeansHandled
    OnlyFitForwarded
    NoFalseBounce
CHECK_DEADLOCK FALSE
