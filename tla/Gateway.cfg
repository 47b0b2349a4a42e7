SPECIFICATION Spec
CONSTANTS
    Requests = {r1, r2}
    Calls <- MCCalls
    Reports <- MCReports
    OldFile <- MCOldFile
    Old = Old
    MaxStarts = 2
CHECK_DEADLOCK FALSE
INVARIANTS
    NoReplay
    NothingLeftOpen
    CountedOnce
    TalliesAgree
    ReloadsWhatItWrote
PROPERTIES
    FileKeepsCounts
    EveryWaitEnds
