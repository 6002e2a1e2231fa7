\* One customer with one key more than the ceilings, two links, two threads.
SPECIFICATION Spec
CONSTANTS
    Keys = {k1, k2, k3}
    Presented = {k1}
    Tokens = {t1, t2}
    Requests = {r1, r2}
    MaxUsable = 2
    MaxActive = 1
    MaxEvents = 2
    NoKey = NoKey
INVARIANTS CacheHonest Ceilings
PROPERTIES RevokeIsFinal LoginMintsFirstKey
SYMMETRY Symmetry
CHECK_DEADLOCK FALSE
