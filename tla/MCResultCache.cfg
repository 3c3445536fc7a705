SPECIFICATION Spec
CONSTANTS
    f1 = f1
    f2 = f2
    f3 = f3
    c1 = c1
    c2 = c2
    x1 = x1
    x2 = x2
    None = None
    Requests <- MCRequests
    Callers = {c1, c2}
    Frames = {f1, f2, f3}
    Contexts = {x1, x2}
    Near <- MCNear
    TTL = 1
    MaxCandidates = 2
INVARIANTS
    TypeOK
    HitsAreNear
    SlipsOnlyByOverwriting
SYMMETRY Symmetry
CHECK_DEADLOCK FALSE
