SPECIFICATION Spec
CONSTANTS
    Calls = {a, b}
    Workers = 1
    Frames = {b}
    Lengths = {1, 2}
    ToolOutputs = {}
    Attempts = 2
    Rounds = 1
INVARIANTS
    GaugesExact
    LateWorkUnused
    BufferedNeverAsks
    HistoryOnlyReplayed
PROPERTIES
    RetriesSendTheSame
    CallsWindDown
CHECK_DEADLOCK FALSE
