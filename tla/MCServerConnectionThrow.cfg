SPECIFICATION Spec
CONSTANTS
    Threads = {t1, t2}
    Transport = tr
    Requests = {request}
    Notifications = {notification}
    Responses = {response}
    Bad = bad
    Faults = {}
    MaxIncoming = 2
    MaxCloses = 0
INVARIANTS
    NoHandlerThrows
CHECK_DEADLOCK FALSE
