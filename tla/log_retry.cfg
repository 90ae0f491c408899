SPECIFICATION Spec
CONSTANTS
    c1 = c1
    c2 = c2
    Caller = {c1, c2}
    MaxEntries = 2
    MaxFaults = 2
SYMMETRY Symmetry
INVARIANT SecondTryCanSucceed
CHECK_DEADLOCK FALSE
