SPECIFICATION FairSpec
CONSTANTS
    Executions = {e1, e2, e3}
    Workspaces = {w1, w2}
    None = None
INVARIANTS
    LeaseExclusion
    NoLostWakeup
PROPERTIES
    EveryRequestServed
    ImplementsReadersWriter
CHECK_DEADLOCK FALSE
