SPECIFICATION FairSpec
CONSTANTS
    A = A
    B = B
    C = C
    p = p
    q = q
    Person = {p, q}
    ListAddr = {A, B, C}
    MaxId = 2
    Session = {"s1"}
    Mails = {"byQ"}
    Msg <- MCMsg
    InitList <- OneList
    InitMember <- OneMember
    InitKnown <- NoKnown
    SettingsChoice <- MCSettings
    RoleChoice <- MCRoles
    MaxMails = 1
    MaxTries = 2
    MaxFaults = 1
    MaxAdminOps = 3
INVARIANTS
    ForwardJustified
    
PROPERTIES
    EveryMailSettles
CHECK_DEADLOCK FALSE
