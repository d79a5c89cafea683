SPECIFICATION RestartSpec
CONSTANTS
    Sessions = {s1}
    Agents = {"edit", "referee"}
    InterfaceAgent = "referee"
    NodeOrder <- MCNodeOrder
    NodeCallable <- MCNodeCallable
    DependsOn <- MCDependsOn
    Delegable = {"edit"}
    FirstExecution = 1
    MaxExecutions = 4
    MaxTopLevel = 1
    None = None
    Configurations = {"profile"}
    MaxCrashes = 1
INVARIANT RecoveryNeverRefused
CHECK_DEADLOCK FALSE
