\* A struct with packed and wide members, arrays and mappings beside each other.
SPECIFICATION Spec
CONSTANTS
    Layout <- MCLayout
    Keys = {0, 1}
    Addresses = 2
    Vals = {0, 1}
    Offsets = {1, 2}
    MaxHashes = 3
    MaxWritten = 2
INVARIANTS NamedByOwner SnapshotFollowsStorage ShownFollowsStorage
CHECK_DEADLOCK FALSE
