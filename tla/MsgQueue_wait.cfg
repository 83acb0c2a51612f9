SPECIFICATION Spec
CONSTANTS
    a = a
    b = b
    c = c
    m1 = m1
    m2 = m2
    NULL = NULL
    Tasks = {a, b, c}
    Prio <- Ranks
    Senders = {a, b}
    Receivers = {c}
    Counters = {}
    Deleters = {}
    Msgs = {m1}
    Sizes = {1}
    Orders = {"FIFO", "PRIORITY"}
    SendWaits = {"FOREVER", "TIMED"}
    RecvWaits = {"FOREVER", "NO_WAIT"}
    Pris = {"NORMAL"}
    Fits = {TRUE}
    MaxBacklog = 4
CHECK_DEADLOCK FALSE
INVARIANTS
    NoOverwrite
    OverfillBounded
