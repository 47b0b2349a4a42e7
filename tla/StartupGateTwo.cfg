SPECIFICATION Spec
CONSTANTS
    Gates = {g1, g2}
    Contracts = {A}
    Responses = {A}
    Local = {}
    Revisions = {r0, r1}
    None = None
    StartRelays = {"proxy"}
    StartHealths = {"ready"}
    MaxEdits = 1
    MaxSwitches = 0
    MaxFaults = 1
    MaxEvents = 1
CHECK_DEADLOCK FALSE
SYMMETRY Symmetry
INVARIANTS
    RouteNamesHolder
