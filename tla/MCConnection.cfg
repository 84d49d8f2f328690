SPECIFICATION Spec
CONSTANTS
    Items = {m1, m2}
    Bad = bad
    Faults = {"fin", "reset", "lost"}
    MaxIncoming = 2
    MaxSends = 2
    MaxCloses = 2
INVARIANTS
    OneReadChain
    ReceivedInOrder
    WrittenInOrder
    StopReported
    ThrowsForCause
PROPERTIES
    StopIsFinal
    CloseIsReported
CHECK_DEADLOCK FALSE
