SPECIFICATION Spec
CONSTANTS
    a = a
    b = b
    c = c
    x = x
    NULL = NULL
    Tasks = {a, b, c}
    Foreign = {}
    Kinds = {"BINARY", "COUNTING", "MUTEX"}
    InitCounts = {0, 2}
    Waits = {"FOREVER", "TIMED"}
    SemCalls = {"semGive", "semTake", "semDelete"}
    MaxTokens = 2
    MaxRecursion = 2
    MaxDebt = 2
SYMMETRY Symmetry
CHECK_DEADLOCK FALSE
INVARIANTS
    TakesAreBacked
    OneOwner
