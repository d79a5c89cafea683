SPECIFICATION FairSpec
CONSTANTS
    Executions = {e1, e2}
    None = None
INVARIANTS
    CancelsOnlyItsOwn
    OneTurnAtATime
PROPERTIES
    CancellationEndsTurn
