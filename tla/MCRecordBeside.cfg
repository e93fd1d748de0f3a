\* The output directory is the directory of the source file.
SPECIFICATION Spec
CONSTANTS
    None = none
    Modes = {"sol"}
    Places = {"beside"}
    Abis <- MCOneAbi
    Outputs <- MCOneOutput
    WordSize = 2
    Byte = {0, 1}
    Invalid = {}
    MaxEdits = 0
    MaxRuns = 1
INVARIANTS CopyHoldsSource
CHECK_DEADLOCK FALSE
