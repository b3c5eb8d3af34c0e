SPECIFICATION Spec
CONSTANTS
    Absent = Absent
    Names = {"github"}
    Clients = {"cursor"}
    Tools = {"read", "delete"}
    Selection = Absent
    Contents <- MCContents
    Boot <- Open
    MaxEdits = 5
    Bodies = "redacted"
    Room = 1
    Runs <- MCRuns
    QueueDepth = 2
    RetainDays = 1
    FirstDay = 19781
    MaxDays = 2
    Leftovers = {19780}
    Name = "github"
    Requests <- MCRequests
    Asks <- MCAsks
    Sessions = {"old", "new"}
    Wants <- MCWants
    Families <- MCFamilies
    Infos <- MCInfos
    Backlog = 2
    Pages <- MCPages
    MaxToolPages = 4
    MaxMergedTools = 3
    Workloads <- MCWorkloads
CHECK_DEADLOCK FALSE
INVARIANTS
    TypeOK
    NoEditLost
    JudgedInOrder
    ToldOfEveryChange
    ExitLosesNoRecord
    RetentionHolds
    NoCredentialOnDisk
PROPERTIES
    EditsAreServed
