SPECIFICATION FairSpec
CONSTANTS
    t1 = t1
    t2 = t2
    c1 = c1
    c2 = c2
    Tx = {t1, t2}
    Caller = {c1, c2}
    MaxEntries = 2
    MaxFaults = 1
    Loads <- MCLoads
INVARIANTS
    TypeOK
    WaitedTransactionsComplete
    RepeatedOnlyIfCut
    ChangesAreLogged
    ReportedMeansWritten
    NoDescriptorLeft
PROPERTIES
    ProcessEnds
CHECK_DEADLOCK FALSE
