SPECIFICATION Spec
CONSTANTS
    t1 = t1
    t2 = t2
    t3 = t3
    t4 = t4
    NoTask = NoTask
    Tasks = {t1, t2, t3, t4}
    Malformed = {t4}
    Routed = {t1}
    Decodable = {t1, t3}
    MaxConcurrent = 2
    DbQueueSize = 1
    RuleQueueSize = 1
    StreamMaxLen = 2
    MaxCrashes = 1
INVARIANTS
    TypeOK
    PermitsBalanced
    NoSilentLoss
    SaveTurnFirst
    PendingIsNotBacklog
PROPERTIES
    NeverReprocessed
    KeepsLedger
CHECK_DEADLOCK FALSE
