SPECIFICATION Spec
CONSTANTS
    a = a
    b = b
    c = c
    Nodes = {a, b, c}
    Handled = {a, b}
    Executions = {e1, e2}
    Pipelines <- AllPipelines
    FailureThreshold = 1
    RecoveryTimeout = 1
    HalfOpenMaxCalls = 2
INVARIANTS
    TypeOK
    InputsPresent
    ReturnsAllRunnable
PROPERTIES
    RunsAsPromised
    EveryExecutionReturns
CHECK_DEADLOCK FALSE
