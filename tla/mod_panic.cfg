SPECIFICATION Spec
CONSTANTS
    A = A
    B = B
    u = u
    v = v
    p = p
    Person = {u, v, p}
    ListAddr = {A}
    MaxId = 1
    Moderator = {u, v}
    File = {"f1"}
    From <- MCFrom
    InitList <- MCList
    InitMember <- MCMember
    SettingsChoice <- MCSettings
    Limits <- MCNoLimits
INVARIANTS
    ErrIsEvaluated
CHECK_DEADLOCK FALSE
