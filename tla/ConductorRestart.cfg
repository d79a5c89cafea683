SPECIFICATION RestartSpec
CONSTANTS
    Sessions = {s1}
    Agents = {"edit", "test", "referee"}
    InterfaceAgent = "referee"
    NodeOrder <- MCNodeOrder
    NodeCallable <- MCNodeCallable
    DependsOn <- MCDependsOn
    Delegable = {"edit", "test"}
    FirstExecution = 1
    MaxExecutions = 4
    MaxTopLevel = 2
    None = None
    Configurations = {"profile", "edited"}
    MaxCrashes = 2
INVARIANTS
    AcknowledgedSurvives
    StartedIsRemembered
    NothingRunsUnattended
CHECK_DEADLOCK FALSE
