SPECIFICATION MCSpec
CONSTANTS
    NumIDs = 4
    Appended <- MCAppended
    Function <- MCFunction
    Invocations <- MCInvocations
    Foreign <- MCForeign
    Replies <- MCReplies
    MaxSent = 2
    MaxReplies = 1
    ReadBufferSize = 3
    Blocks = {b1, b2}
    MessageObjects = {m1, m2, m3}
    References = {r1, r2, r3}
    InitialCapacity = 2
    Sizes = {0, 1, 5}
    Memory = 8
    Word = 64
    NumBuffers = 2
INVARIANTS
    CallIsTransparent
    ReceivedAsSent
    ExecutedAndAnsweredOnce
    BlocksAreOwned
    WritesFit
    BuffersAreOwned
CHECK_DEADLOCK FALSE
