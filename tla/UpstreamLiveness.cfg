SPECIFICATION FairSpec
CONSTANTS
    n1 = n1
    d1 = d1  d2 = d2
    stdio = stdio  rotating = rotating
    Names = {n1}
    Demands = {d1, d2}
    Cancellable = {d1}
    Transports = {stdio, rotating}
    Stdio = {stdio}
    Rotating = {rotating}
    Attempts = 2
    MaxReloads = 1
    MayShutDown = TRUE
    NoEntry = NoEntry  NoServer = NoServer  NoDemand = NoDemand
CHECK_DEADLOCK FALSE
PROPERTY Answered
