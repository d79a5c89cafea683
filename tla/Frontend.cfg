SPECIFICATION Spec
CONSTANTS
    EventBuffer = 1
    OutputBuffer = 1
    SocketBuffer = 1
    MaxConnections = 2
    MaxEvents = 3
    None = None
INVARIANTS
    NoGap
PROPERTIES
    CatchesUp
CHECK_DEADLOCK FALSE
