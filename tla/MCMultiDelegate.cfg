\* The layout used in delegate frames.
SPECIFICATION Spec
CONSTANTS
    Addr = {a, b}
    Zero = zero
    None = none
    Entry = a
    Registered = {a, b}
    DefaultAddress = none
    Ops = {"DELEGATECALL"}
    Locs <- MCOneLoc
    Slots = {s}
    Derived = {}
    Vals = {1}
    MaxDepth = 3
    MaxRoutines = 0
    MaxSteps = 5
INVARIANTS DelegateLayoutIsStorageContext
CHECK_DEADLOCK FALSE
