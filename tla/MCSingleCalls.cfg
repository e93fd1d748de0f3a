\* The absorbed call, internal functions, storage, and frames that fail inside them.
SPECIFICATION Spec
CONSTANTS
    None = none
    Callees = {"self"}
    Ops = {"CALL"}
    Routines = {"user", "generated"}
    CalleesFail = TRUE
    Locs <- MCOneLoc
    Slots = {s}
    Vals = {0, 1}
    MaxDepth = 3
    MaxRoutines = 2
    MaxSteps = 8
INVARIANTS NestingCountsCalls CarriedStands
PROPERTIES FreshTrackerPerFrame
CHECK_DEADLOCK FALSE
