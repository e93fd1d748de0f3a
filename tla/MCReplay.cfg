\* A replay on a node that may leave its chain once, at any moment.
SPECIFICATION Spec
CONSTANTS
    None = none
    Txs <- MCTxs
    MaxBlocks = 2
    MaxInBlock = 2
    MaxReorgs = 1
    MaxSteps = 4
    MaxFrames = 3
INVARIANTS ReplayedIsAsked PreStateExact MinedReplays DepthsTellFrames
PROPERTIES Ends
CONSTRAINT LongAlone
CHECK_DEADLOCK FALSE
