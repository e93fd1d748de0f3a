\* The labels after a return.
SPECIFICATION Spec
CONSTANTS
    None = none
    Params <- MCOne
    Locals <- MCLocal
    Vals = {0, 1}
    Operators <- MCAdd
    Intos = {"seed", "reset"}
    MaxHeight = 6
    MaxCalls = 1
INVARIANTS SlotsMirrorStack
CHECK_DEADLOCK FALSE
