SPECIFICATION Spec
CONSTANTS
    Items = {m1, m2}
    Bad = bad
    Faults = {"reset"}
    MaxIncoming = 2
    MaxSends = 2
    MaxCloses = 2
INVARIANTS
    ClosedOnce
CHECK_DEADLOCK FALSE
