SPECIFICATION Spec
CONSTANTS
    Gates = {g1}
    Contracts = {A, B}
    Responses = {A}
    Local = {B}
    Revisions = {r0}
    None = None
    StartRelays = {"proxy"}
    StartHealths = {"ready"}
    MaxEdits = 2
    MaxSwitches = 1
    MaxFaults = 1
    MaxEvents = 2
CHECK_DEADLOCK FALSE
PROPERTIES
    WatchConverges
    GateEnds
