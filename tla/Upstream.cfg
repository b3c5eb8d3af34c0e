SPECIFICATION Spec
CONSTANTS
    n1 = n1
    d1 = d1  d2 = d2  d3 = d3 
    stdio = stdio  rotating = rotating
    Names = {n1}
    Demands = {d1, d2, d3}
    Cancellable = {d1, d2, d3}
    Transports = {stdio, rotating}
    Stdio = {stdio}
    Rotating = {rotating}
    Attempts = 3
    MaxReloads = 2
    MayShutDown = TRUE
    NoEntry = NoEntry  NoServer = NoServer  NoDemand = NoDemand
CHECK_DEADLOCK FALSE
SYMMETRY DemandSymmetry
CONSTRAINT Apart
INVARIANTS
    TypeOK
    NoStrandedWaiter
    NoOrphanedClaim
    SingleFlight
    DisownedNeverServes
    RetiredHoldsNothing
    NothingRunsUnowned
    ServedByConfiguredTransport
    InFlightSurvivesReload
PROPERTY HealthyConnectionKept
