SPECIFICATION Spec
CONSTANTS
    t1 = t1  t2 = t2  d1 = d1  d2 = d2  s1 = s1  s2 = s2
    Sessions = {s1, s2}
    Cli = cli
    Scope <- Unscoped
    HangsUp = {s1, s2}
    Definitions = {d1, d2}
    Length <- Lengths
    Starts <- BothServed
    Pages <- ThreePages
    Circling = {2}
    MAX_TOOL_PAGES = 3  MAX_MERGED_TOOLS = 2
    MaxMoves = 2
    MaxCommands = 1
    Absent = Absent  NoFile = NoFile  NewerFile = NewerFile  NoSession = NoSession
SYMMETRY SessionSymmetry
CONSTRAINT Apart
INVARIANTS
    TypeOK
    FileReflectsLastList
    OnlyMovedToolsDrift
PROPERTIES
    SettledDriftIsQuiet
    FirstNoticedKept
