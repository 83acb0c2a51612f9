SPECIFICATION FairSpec
CONSTANTS
    a = a
    b = b
    c = c
    m1 = m1
    m2 = m2
    NULL = NULL
    Tasks = {a, b, c}
    Prio <- Ranks
    Senders = {a}
    Receivers = {b, c}
    Counters = {}
    Deleters = {}
    Msgs = {m1, m2}
    Sizes = {1}
    Orders = {"FIFO"}
    SendWaits = {"NO_WAIT"}
    RecvWaits = {"FOREVER", "TIMED"}
    Pris = {"NORMAL", "URGENT"}
    Fits = {TRUE}
    MaxBacklog = 3
PROPERTIES
    ImplementsChannel
    ReceiverServed
