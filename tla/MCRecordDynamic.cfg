\* Errors with arguments of dynamic types.
SPECIFICATION Spec
CONSTANTS
    None = none
    Modes = {"sol"}
    Places = {"apart"}
    Abis <- MCErrorAbi
    Outputs <- MCErrorOutputs
    WordSize = 2
    Byte = {0, 1, 2}
    Invalid = {}
    MaxEdits = 0
    MaxRuns = 1
INVARIANTS DynamicSurfaced
CHECK_DEADLOCK FALSE
