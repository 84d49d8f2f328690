SPECIFICATION Spec
CONSTANTS
    Users = {u1, u2}
    Transport = tr
    MaxMessages = 2
    MaxConnections = 1
    MaxReports = 1
    InitialWait = 1
    MaxWait = 1
INVARIANTS
    NothingIsLost
CHECK_DEADLOCK FALSE
