SPECIFICATION Spec
CONSTANTS
    r = r
    a = a
    b = b
    x = x
    NULL = NULL
    Tasks = {r, a}
    Foreign = {x}
    Root = r
    Prios = {1}
    MaxPrio = 3
    ULongMax = 2
    Calls <- AllCalls
INVARIANTS
    TypeOK
    MutualExclusion
    PriorityDiscipline
PROPERTY
    ImplementsLock
