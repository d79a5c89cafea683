SPECIFICATION ServerSpec
CONSTANTS
    Sessions = {s1}
    Agents = {"edit"}
    InterfaceAgent = None
    NodeOrder <- MCNodeOrder
    NodeCallable <- MCNodeCallable
    DependsOn <- MCDependsOn
    Delegable = {"edit"}
    FirstExecution = 1
    MaxExecutions = 5
    MaxTopLevel = 2
    Workers = {w1, w2, w3}
    MaxOrchestrations = 1
    MaxErrors = 0
    None = None
INVARIANTS
    NothingForgotten
PROPERTIES
    TurnEndsAtRest
CHECK_DEADLOCK FALSE
