SPECIFICATION FairSpec
CONSTANTS
    a = a
    b = b
    exc = exc
    w1 = w1
    w2 = w2
    w3 = w3
    fn = fn
    NULL = NULL
    Tasks = {a, b}
    Restarters = {a}
    Exc = exc
    Wdogs = {w1, w2}
    Funcs = {fn}
    Delays = {4}
    WdCalls = {"wdCreate", "wdStart", "wdCancel", "selfRestart"}
PROPERTIES
    TimersTick
    RestartHappens
