SPECIFICATION Spec
CONSTANTS
    t1 = t1  t2 = t2  d1 = d1  d2 = d2  s1 = s1  s2 = s2
    Sessions = {s1, s2}
    Cli = cli
    Scope <- Unscoped
    HangsUp = {s1, s2}
    Definitions = {d1, d2}
    Length <- Lengths
    Starts <- OneServed
    Pages <- TwoPages
    Circling = {}
    MAX_TOOL_PAGES = 3  MAX_MERGED_TOOLS = 3
    MaxMoves = 1
    MaxCommands = 0
    Absent = Absent  NoFile = NoFile  NewerFile = NewerFile  NoSession = NoSession
INVARIANT DriftIsRecorded
