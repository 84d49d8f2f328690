SPECIFICATION Spec
CONSTANTS
    Users = {u1, u2}
    Transport = tr
    MaxMessages = 2
    MaxConnections = 2
    MaxReports = 1
    InitialWait = 1
    MaxWait = 1
SYMMETRY Symmetry
INVARIANTS
    OneInFlight
    QueueIsWatched
CHECK_DEADLOCK FALSE
