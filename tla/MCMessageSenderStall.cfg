SPECIFICATION Spec
CONSTANTS
    Users = {u1}
    Transport = tr
    MaxMessages = 1
    MaxConnections = 2
    MaxReports = 1
    InitialWait = 1
    MaxWait = 1
PROPERTIES
    ResumesAfterReconnect
CHECK_DEADLOCK FALSE
