\* Program counters of contracts from files, Yul objects and Sourcify.
SPECIFICATION Spec
CONSTANTS
    None = None
    Kept = Kept
    Err = Err
    Nodes <- MCNodes
    Inputs <- MCInputs
    MaxSteps = 2
INVARIANTS LocationsAreTrue StepInTable LocalsInScope NamesTellContracts VerifiedRecorded
CHECK_DEADLOCK FALSE
