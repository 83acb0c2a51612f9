SPECIFICATION Spec
CONSTANTS
    a = a
    b = b
    c = c
    m1 = m1
    m2 = m2
    NULL = NULL
    Tasks = {a, b, c}
    Prio <- Ranks
    Senders = {a}
    Receivers = {b, c}
    Counters = {c}
    Deleters = {a, c}
    Msgs = {m1}
    Sizes = {0, 1}
    Orders = {"FIFO", "PRIORITY"}
    SendWaits = {"FOREVER"}
    RecvWaits = {"FOREVER", "TIMED"}
    Pris = {"NORMAL"}
    Fits = {TRUE, FALSE}
    MaxBacklog = 2
CHECK_DEADLOCK FALSE
INVARIANTS
    TypeOK
    NoSleepBesideMessage
    DrainedBeforeFree
