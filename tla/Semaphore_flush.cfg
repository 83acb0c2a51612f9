SPECIFICATION Spec
CONSTANTS
    a = a
    b = b
    c = c
    x = x
    NULL = NULL
    Tasks = {a, b, c}
    Foreign = {}
    Kinds = {"BINARY", "COUNTING", "MUTEX"}
    InitCounts = {0, 2}
    Waits = {"FOREVER", "TIMED", "NO_WAIT"}
    SemCalls = {"semGive", "semTake", "semFlush"}
    MaxTokens = 2
    MaxRecursion = 2
    MaxDebt = 2
SYMMETRY Symmetry
CHECK_DEADLOCK FALSE
INVARIANTS
    NoTokenLost
    NoStaleFlush
