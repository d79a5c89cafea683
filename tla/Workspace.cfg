SPECIFICATION Spec
CONSTANTS
    r = r
    v = v
    w = w
    group = group
    a = a
    b = b
    Executions = {r, v, w}
    Groups = {group}
    None = None
    ModeOf <- Modes
    GroupOf <- OneGroup
    NPaths = 2
    Initially <- OneFile
    Commands <- TwoCommands
    Contents = {a, b}
    MaxCalls = 2
    MaxEdits = 1
INVARIANTS
    ReadersUndisturbed
    CheckpointIsPhaseStart
    CommitIsExact
PROPERTIES
    OverwritesWhatItExpects
SYMMETRY Writers
CHECK_DEADLOCK FALSE
