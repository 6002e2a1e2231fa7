SPECIFICATION Spec
CONSTANTS
    Workers = {w1, w2}
    Operators = {}
    Jobs = {j1, j2}
    Bills <- Two
    PageSize = 1
    MaxPages = 2
    ChunkPages = 2
    MaxJobs = 1
    MaxAttempts = 2
    Cadence = 1
    Day = 2
    DailyBudget = 2
    Horizon = 2
    MaxMishaps = 2
SYMMETRY Alike
INVARIANTS NothingMissed StaleStatusIsPending DeferralsAreFree
PROPERTY NoDuplicateSync
CHECK_DEADLOCK FALSE
