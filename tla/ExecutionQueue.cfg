SPECIFICATION Spec
CONSTANTS
    Executions = {1, 2, 3, 4}
    Sessions = {"s", "t"}
    Jobs <- MCJobs
    Workers = {w1, w2, w3}
    None = None
INVARIANTS
    SessionExclusive
    HandedOutOnce
    NoLostWakeup
PROPERTIES
    ImplementsSessionTurns
CHECK_DEADLOCK FALSE
