SPECIFICATION FairSpec
CONSTANTS
    a = a
    b = b
    c = c
    x = x
    NULL = NULL
    Tasks = {a, b, c}
    Foreign = {}
    Kinds = {"BINARY", "COUNTING", "MUTEX"}
    InitCounts = {0, 2}
    Waits = {"FOREVER", "TIMED"}
    SemCalls = {"semGive", "semTake"}
    MaxTokens = 2
    MaxRecursion = 2
    MaxDebt = 2
INVARIANTS
    TypeOK
    NoLostWakeup
    TokensMatchReturns
    MutexExclusion
PROPERTIES
    ImplementsQueue
    QueueServes
