\* Lag = 2 * MaxTxn - 1: the smallest lag the argument allows.
SPECIFICATION FairSpec
CONSTANTS
    Writers = {w1, w2}
    MaxTxn = 2
    Lag = 3
    MaxSeq = 3
    Horizon = 4
    PageSize = 1
INVARIANTS HookMissesNothing FeedSkipsOnlyInversions
PROPERTIES ImplementsStableLog HookServesAll
CHECK_DEADLOCK FALSE
