SPECIFICATION Spec
CONSTANTS
    None = None
    BuiltIn <- MCBuiltIn
    FirstFiles <- MCFirstFiles
    LaterFiles <- MCLaterFiles
    SkillNames = {"review", "deploy"}
    Targets <- MCTargets
    MaxRevisions = 3
    MaxRequests = 2
    MaxExecutions = 3
    MaxTopLevel = 1
    MaxNodes = 2
INVARIANTS
    AcceptedIffRunnable
    TreeIsPinned
    AuthorityNeverExpands
    CastIsDelegated
    ClosedIsQuiet
CHECK_DEADLOCK FALSE
