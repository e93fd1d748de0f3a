\* Artifacts and storage: a plain slot and a mapping
\* element, a contract nobody registered.
SPECIFICATION Spec
CONSTANTS
    Addr = {a, b, c}
    Zero = zero
    None = none
    Entry = a
    Registered = {a, b}
    DefaultAddress = none
    Ops = {"CALL", "DELEGATECALL", "STATICCALL", "CREATE"}
    Locs <- MCOneLoc
    Slots = {s, m}
    Derived = {m}
    Vals = {1}
    MaxDepth = 3
    MaxRoutines = 0
    MaxSteps = 4
INVARIANTS TypeOK StepsUseExecutedCode WritesNamedByOwner
PROPERTIES FrameIsolation
CHECK_DEADLOCK FALSE
