\* Two dispatchers, the second of which starts when the first loses its lock.
SPECIFICATION Spec
CONSTANTS
    MaxSeq = 2
    Oversized = {}
    Orphans = {1}
    BatchSize = 1
    HardStrikes = 2
    SkipStrikes = 2
    Dispatchers = {d1, d2}
    MaxMishaps = 1
INVARIANTS CursorCoversAcked CreatedIsTold FirstDisableIsTold
PROPERTIES CursorNeverFallsBack OnlyOwnerReactivates
SYMMETRY Symmetry
CHECK_DEADLOCK FALSE
