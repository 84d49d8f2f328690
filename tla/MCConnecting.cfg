SPECIFICATION ConnectingSpec
CONSTANTS
    MaxConnections = 3
    MaxReports = 2
    InitialWait = 1
    MaxWait = 3
    Names = {"name"}
    V6Hosts = {"v6"}
    OtherHosts = {}
    Files = {"file", "long"}
    LongFiles = {"long"}
    TextLists <- MCTextLists
INVARIANTS
    TypeOK
    OneEffort
    CurrentIsUp
    StopLeavesOnlyALateOne
    OneChainPerConnect
    TriesEveryURI
    ChainThrowsAtUnusableURI
    URIsRoundTrip
PROPERTIES
    StopEndsConnecting
CHECK_DEADLOCK FALSE
