SPECIFICATION Spec
CONSTANTS
    c1 = c1  c2 = c2
    Callers = {c1, c2}
    Limits = {0, 2, 3}
    Window = 4
    MaxTime = 5
    NoAsk = NoAsk  NoDeadline = NoDeadline  NoTally = NoTally
INVARIANTS
    TypeOK
    RateBound
PROPERTY IsTokenBucket
SYMMETRY CallerSymmetry
