SPECIFICATION FairSpec
CONSTANTS
    r = r
    a = a
    b = b
    x = x
    NULL = NULL
    Tasks = {r, a, b}
    Foreign = {}
    Root = r
    Prios = {1}
    MaxPrio = 3
    ULongMax = 2
    Calls <- QuietCalls
INVARIANT
    NoLostWakeup
PROPERTIES
    CallsAreBalanced
    WaiterWoken
