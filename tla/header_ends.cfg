SPECIFICATION Spec
CONSTANTS
    Person = {"p", "q", "r"}
    ListAddr = {"A", "B"}
    Soft = 6
    Hard = 9
    Keys <- MCKeys
    Width <- MCWidth
    Word <- MCWord
    Joined <- MCJoined
    Cases <- EmptyLast
INVARIANTS
    HeaderEnds
CHECK_DEADLOCK FALSE
