SPECIFICATION Spec
CONSTANTS
    n1 = n1
    d1 = d1  d2 = d2 d3 = d3
    stdio = stdio  rotating = rotating
    Names = {n1}
    Demands = {d1}
    Cancellable = {d1}
    Transports = {stdio, rotating}
    Stdio = {stdio}
    Rotating = {rotating}
    Attempts = 2
    MaxReloads = 2
    MayShutDown = FALSE
    NoEntry = NoEntry  NoServer = NoServer  NoDemand = NoDemand
CHECK_DEADLOCK FALSE
INVARIANTS
    EnabledIsServed
