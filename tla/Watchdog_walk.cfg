SPECIFICATION Spec
CONSTANTS
    a = a
    b = b
    exc = exc
    w1 = w1
    w2 = w2
    w3 = w3
    fn = fn
    NULL = NULL
    Tasks = {a}
    Restarters = {a}
    Exc = exc
    Wdogs = {w1, w2, w3}
    Funcs = {fn}
    Delays = {4}
    WdCalls = {"wdCreate", "wdStart", "wdCancel", "wdDelete", "selfRestart"}
CHECK_DEADLOCK FALSE
SYMMETRY Symmetry
INVARIANTS
    TypeOK
    LockedIsLive
    TickServesAll
    ServedOnce
