SPECIFICATION Spec
CONSTANTS
    Threads = {t1, t2}
    Transport = tr
    Requests = {request}
    Notifications = {notification}
    Responses = {response}
    Bad = bad
    Faults = {"reset"}
    MaxIncoming = 3
    MaxCloses = 1
INVARIANTS
    SingleWriter
    ResponsesInOrder
    QueueIsWatched
PROPERTIES
    RequestsAreAnswered
    AnswersRequestsOnce
CHECK_DEADLOCK FALSE
