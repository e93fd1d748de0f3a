\* Six entries, one address: the shape of the tree does not depend on addresses.
SPECIFICATION Spec
CONSTANTS
    Addr = {a}
    Root = a
    MaxSteps = 6
INVARIANTS PathIsOpenBranch Nested RangesCoverPath
PROPERTY ClosedIsFinal
CHECK_DEADLOCK FALSE
