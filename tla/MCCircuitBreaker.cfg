SPECIFICATION Spec
CONSTANTS
    Callers = {c1, c2, c3}
    FailureThreshold = 3
    RecoveryTimeout = 2
    HalfOpenMaxCalls = 2
INVARIANTS
    TypeOK
    BreakerConsistent
PROPERTIES
    ClosesOnCleanRun
    CoolsDown
    EventuallyTriesAgain
