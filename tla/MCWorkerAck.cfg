SPECIFICATION Spec
CONSTANTS
    t1 = t1
    t2 = t2
    t3 = t3
    t4 = t4
    NoTask = NoTask
    Tasks = {t1, t2, t3}
    Malformed = {}
    Routed = {t1}
    Decodable = {t1, t3}
    MaxConcurrent = 2
    DbQueueSize = 1
    RuleQueueSize = 1
    StreamMaxLen = 2
    MaxCrashes = 0
INVARIANT SavedBeforeAck
CHECK_DEADLOCK FALSE
