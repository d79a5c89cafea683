SPECIFICATION FairServerSpec
CONSTANTS
    Sessions = {s1}
    Agents = {"edit"}
    InterfaceAgent = None
    NodeOrder <- MCOneNode
    NodeCallable <- MCOneCallable
    DependsOn <- MCNoDependency
    Delegable = {"edit"}
    FirstExecution = 1
    MaxExecutions = 4
    MaxTopLevel = 2
    Workers = {w1, w2}
    MaxOrchestrations = 1
    MaxErrors = 1
    None = None
PROPERTIES
    EveryExecutionServed
    ShutdownCompletes
CHECK_DEADLOCK FALSE
