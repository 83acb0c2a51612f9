SPECIFICATION Spec
CONSTANTS
    a = a
    b = b
    NoTask = NoTask
    Tasks = {a, b}
    MinPriority = 1
    MaxPriority = 99
    Requests <- SomePriorities
    Second = 6
    Tick = 2
    IntMax = 15
    Waits = {0, 1, 2, 3, 4, 5, 6, 7, 8, 9, 17}
    MaxStart = 13
    MaxClock = 30
CHECK_DEADLOCK FALSE
INVARIANTS
    ExpiredWhenDue
    NeverEarly
    SpinsOnlyOnTheSecond
    OrderKept
PROPERTY
    WaitEnds
