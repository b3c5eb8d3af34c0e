SPECIFICATION Spec
CONSTANTS
    a = a
    a2 = a2
    s1 = s1
    s2 = s2
    Absent = Absent
    Wrong = Wrong
    Nobody = Nobody
    Token = "token"
    Names <- MCNames
    NameOrder <- MCNameOrder
    Spelling <- MCSpelling
    Slug <- MCSlug
    NotOnPath = {}
    Files <- MCFiles
    FileOrder <- MCFileOrder
    KindOf <- MCKindOf
    InProject = {"repo"}
    Installed = {"home"}
    Terminals <- MCTerminals
    Commands <- MCWizardCommands
    UserEntries <- MCUserEntries
    Machines <- MCMachines
    Keep = 1
    MaxCommands = 2
    MaxDisturbances = 0
SYMMETRY MCSymmetry
PROPERTIES
    AnswersAreFollowed
