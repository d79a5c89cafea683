SPECIFICATION Spec
CONSTANTS
    Sessions = {s1}
    Agents = {"edit", "test", "referee"}
    InterfaceAgent = "referee"
    NodeOrder <- MCNodeOrder
    NodeCallable <- MCNodeCallable
    DependsOn <- MCDependsOn
    Delegable = {"edit", "test"}
    FirstExecution = 7
    MaxExecutions = 7
    MaxTopLevel = 1
    None = None
INVARIANTS
    FailureStopsDescendants
    NoStalledOrchestration
    NodesRunInOrder
    CancelIsComplete
    AttemptsAreChains
    NoEventRefused
PROPERTIES
    OutcomesAreFinal
CHECK_DEADLOCK FALSE
