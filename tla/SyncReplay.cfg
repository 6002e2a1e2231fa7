SPECIFICATION Spec
CONSTANTS
    Workers = {}
    Operators = {op1}
    Jobs = {}
    Bills <- Three
    PageSize = 1
    MaxPages = 2
    ChunkPages = 2
    MaxJobs = 1
    MaxAttempts = 2
    Cadence = 1
    Day = 2
    DailyBudget = 4
    Horizon = 3
    MaxMishaps = 2
SYMMETRY Alike
PROPERTY ReplayCovers
CHECK_DEADLOCK FALSE
