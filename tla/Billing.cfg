SPECIFICATION Spec
CONSTANTS
    Subs = {s1, s2}
    Handlers = {h1, h2}
    Horizon = 1
    MaxChanges = 3
    MaxMishaps = 1
SYMMETRY Alike
INVARIANTS EndedHereIsEndedThere EndedThereIsEndedHere BilledOnce
CHECK_DEADLOCK FALSE
