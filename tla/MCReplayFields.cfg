\* Authorizations are not passed on.
SPECIFICATION Spec
CONSTANTS
    None = none
    Txs <- MCTxs
    MaxBlocks = 2
    MaxInBlock = 2
    MaxReorgs = 0
    MaxSteps = 1
    MaxFrames = 1
INVARIANTS EveryMinedReplays
CHECK_DEADLOCK FALSE
