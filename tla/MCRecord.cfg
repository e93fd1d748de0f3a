\* The whole command, twice into the same directory, with an edit.
SPECIFICATION Spec
CONSTANTS
    None = none
    Modes = {"sol", "yul"}
    Places = {"apart"}
    Abis <- MCAbis
    Outputs <- MCOutputs
    WordSize = 2
    Byte = {0, 1, 2}
    Invalid = {2}
    MaxEdits = 1
    MaxRuns = 2
INVARIANTS ClosedIffDone CopyHoldsSource RecordingSurvives ReasonShown CallsDeclared
CONSTRAINT DataOnce
CHECK_DEADLOCK FALSE
