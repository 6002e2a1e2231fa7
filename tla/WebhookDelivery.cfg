\* One dispatcher.  Two plain changes with one between them whose payload alone
\* is over the cap: a batch is halved, a single event skipped.
SPECIFICATION FairSpec
CONSTANTS
    MaxSeq = 3
    Oversized = {2}
    Orphans = {}
    BatchSize = 2
    HardStrikes = 2
    SkipStrikes = 2
    Dispatchers = {d1}
    MaxMishaps = 1
INVARIANTS CursorCoversAcked HardStrikesConsecutive
PROPERTIES EventuallyDelivered
CHECK_DEADLOCK FALSE
