\* The storage carried forward: frames that fail and return at any depth, calls
\* and delegate calls of the contract itself and of another.
SPECIFICATION Spec
CONSTANTS
    None = none
    Callees = {"self", "other"}
    Ops = {"CALL", "DELEGATECALL"}
    Routines = {}
    CalleesFail = TRUE
    Locs <- MCOneLoc
    Slots = {s}
    Vals = {0, 1}
    MaxDepth = 3
    MaxRoutines = 0
    MaxSteps = 6
INVARIANTS CarriedStands
CHECK_DEADLOCK FALSE
