SPECIFICATION Spec
CONSTANTS
    Streams = {s1, s2}
    Keyless = {s2}
    Messages = {m1}
    Attempts = 2
CHECK_DEADLOCK FALSE
INVARIANTS
    EndsReleased
    InItsTurn
    UsageNotLost
PROPERTY
    StreamEnds
