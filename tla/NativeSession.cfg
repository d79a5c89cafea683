SPECIFICATION Spec
CONSTANTS
    N = 3
    Workers = 2
    Tools = {"read", "write"}
    Provision <- MCProvision
    Limit = 2
    None = None
INVARIANTS
    TurnsAreApart
    CompletedWasAnswered
    ConversationInOrder
PROPERTIES
    CancelledTurnEnds
CHECK_DEADLOCK FALSE
