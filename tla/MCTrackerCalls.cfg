\* Parameters and locals of functions that call each other.
SPECIFICATION Spec
CONSTANTS
    None = none
    Params <- MCOne
    Locals <- MCLocals
    Vals = {0, 1}
    Operators <- MCAdd
    Intos = {"seed", "reset"}
    MaxHeight = 6
    MaxCalls = 1
INVARIANTS SettledShown MirrorsSinceSeed EveryOpcodeMirrors
CHECK_DEADLOCK FALSE
