\* Storage carried forward after a callee reverted.
SPECIFICATION Spec
CONSTANTS
    None = none
    Callees = {"self"}
    Ops = {"CALL"}
    Routines = {}
    CalleesFail = TRUE
    Locs <- MCLocs
    Slots = {s}
    Vals = {0, 1}
    MaxDepth = 2
    MaxRoutines = 0
    MaxSteps = 6
INVARIANTS CarriedIsVariable
CHECK_DEADLOCK FALSE
