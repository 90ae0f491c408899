SPECIFICATION FairSpec
CONSTANTS
    c1 = c1
    c2 = c2
    Conn = {c1, c2}
INVARIANTS
    TypeOK
    ServeEndsQuietly
    NoAnswerAfterClosing
    AnswersAreRight
PROPERTIES
    CloseEndsServing
    SilentClientsLeave
CHECK_DEADLOCK FALSE
