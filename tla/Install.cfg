SPECIFICATION Spec
CONSTANTS
    Absent = Absent
    Nothing = Nothing
    Procs = {1, 2, 3}
    Binaries <- MCBinaries
    First <- Old
    Cooldown = 2
    MaxTime = 3
    Servers = {"github", "linear"}
    Refreshers = {r1, r2}
    MaxRotations = 5
    Workloads <- MCWorkloads
CHECK_DEADLOCK FALSE
INVARIANTS
    TypeOK
    NoRestartLoop
    LoginKept
PROPERTIES
    UpgradeTaken
