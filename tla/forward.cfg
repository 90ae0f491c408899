SPECIFICATION FairSpec
CONSTANTS
    Person = {"p", "q", "r"}
    ListAddr = {"A", "B"}
    Soft = 6
    Hard = 9
    Keys <- MCKeys
    Width <- MCWidth
    Word <- MCWord
    Joined <- MCJoined
    Cases <- MCCases
INVARIANTS
    TypeOK
    HiddenNotNamedAsSender
    HeaderSurvives
PROPERTIES
    EveryMailEnds
CHECK_DEADLOCK FALSE
