\* The location given to the call of a new frame.
SPECIFICATION Spec
CONSTANTS
    Addr = {a, b}
    Zero = zero
    None = none
    Entry = a
    Registered = {a, b}
    DefaultAddress = none
    Ops = {"CALL"}
    Locs <- MCLocs
    Slots = {}
    Derived = {}
    Vals = {}
    MaxDepth = 2
    MaxRoutines = 1
    MaxSteps = 5
PROPERTIES CallSiteIsCallers
CHECK_DEADLOCK FALSE
