\* A bundle that is not in the order in which solc numbers its files.
SPECIFICATION Spec
CONSTANTS
    None = None
    Kept = Kept
    Err = Err
    Nodes <- MCNodes
    Inputs <- MCOutOfOrder
    MaxSteps = 1
INVARIANTS IndexedByFile
CHECK_DEADLOCK FALSE
