SPECIFICATION Spec
CONSTANTS
    A = A
    B = B
    u = u
    v = v
    p = p
    Person = {u, v, p}
    ListAddr = {A, B}
    MaxId = 2
    Moderator = {u, v}
    File = {"f1"}
    From <- MCFrom
    InitList <- MCList
    InitMember <- MCMember
    SettingsChoice <- MCSettings
    Limits <- MCLimits
INVARIANTS
    TypeOK
    NoMailLost
    DecidedOnce
    DecisionsCarriedOut
    QueueBelongsToList
PROPERTIES
    ImplementsQueue
CHECK_DEADLOCK FALSE
