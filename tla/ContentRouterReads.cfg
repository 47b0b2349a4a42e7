INIT Init
NEXT Next
CONSTANTS
    Callers = {a, b}
    Texts = {x}
    MaxMessages = 1
INVARIANTS ReadsVerbatim
