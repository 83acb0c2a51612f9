SPECIFICATION FairSpec
CONSTANTS
    r = r
    a = a
    b = b
    NULL = NULL
    Tasks = {r, a, b}
    Root = r
    Spawners = {r}
    Deleters = {r, a}
    Forcers = {r}
    Restarters = {r}
    Protectors = {a, b}
    Enders = {a, b}
    MaxSafe = 1
CHECK_DEADLOCK FALSE
INVARIANTS
    TypeOK
    ProtectedSpared
    TargetsLive
    UniqueIds
PROPERTIES
    PendedReturns
