SPECIFICATION ServerSpec
CONSTANTS
    Texts <- MCTexts
    MaxURIs = 1
    Names = {"name"}
    V6Hosts = {"v6"}
    OtherHosts = {"other"}
    Files = {"file"}
    Unit = 2
    ReserveSize = 8
    MaxThreads = 2
    IndexLimit = 2
    TomlFiles <- MCTomlFiles
    MaxFiles = 2
    MaxEndpoints = 1
    MaxTraffic = 2
INVARIANTS
    AcceptChainAlive
    ContextsExist
PROPERTIES
    StopReturns
    ExceptionEndsRun
CHECK_DEADLOCK FALSE
