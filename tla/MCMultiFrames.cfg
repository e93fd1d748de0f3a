\* Frames, call tree and the calls open in the trace: nested frames, internal
\* functions, generated routines, frames that end inside them; no storage.
SPECIFICATION Spec
CONSTANTS
    Addr = {a}
    Zero = zero
    None = none
    Entry = a
    Registered = {a}
    DefaultAddress = none
    Ops = {"CALL"}
    Locs <- MCOneLoc
    Slots = {}
    Derived = {}
    Vals = {}
    MaxDepth = 4
    MaxRoutines = 2
    MaxSteps = 8
INVARIANTS VectorsAligned RangesCoverDepth NoCallClosedEarly
PROPERTIES SwitchesStepAgain ImplementsCallTree
CHECK_DEADLOCK FALSE
