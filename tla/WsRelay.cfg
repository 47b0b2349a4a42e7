SPECIFICATION Spec
CONSTANTS
    Attempts = 2
    MaxFrames = 2
    MaxEvents = 3
CHECK_DEADLOCK FALSE
INVARIANTS
    NothingLeftBehind
    FirstFrameOnce
    TokensEmittedOnce
PROPERTIES
    SessionEnds
