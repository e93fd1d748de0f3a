\* Any use of memory: functions that run again, objects of expressions.
SPECIFICATION MemorySpec
CONSTANTS
    Unset = none
    Vars <- MCVars
    Sizes = {1, 2}
    Patterns = {"temporary", "again"}
    MaxFmp = 11
INVARIANTS RegionsDisjoint
PROPERTIES RegionIsObject
CHECK_DEADLOCK FALSE
