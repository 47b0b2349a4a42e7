INIT Init
NEXT Next
CONSTANTS
    ProbeLimit = 5
    MaxEvent = 4
    MaxUnits = 9
    MaxChunk = 3
CHECK_DEADLOCK FALSE
INVARIANTS
    OneTerminal
    ResultTellsOutcome
