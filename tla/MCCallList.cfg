SPECIFICATION Spec
CONSTANTS
    MaxCalls = 2
    IdSpace = 2
    MaxReplies = 2
INVARIANTS
    ListHoldsOpenCalls
    ResultIsOwn
    SleepersAreNotified
    ReferenceIsValidAtStart
PROPERTIES
    ResultIsFinal
    EveryCallCompletes
    GetResultReturns
CHECK_DEADLOCK FALSE
