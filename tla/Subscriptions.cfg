SPECIFICATION HooksSpec
CONSTANTS
    Subs = {1, 2, 3}
    Key <- Urls
    Host <- OneHost
    Creator <- TwoCreators
    Calls = {r1, r2}
    MaxPerHost = 1
    MaxGlobal = 2
    MaxUnverified = 1
    MaxPerDay = 1
    PageSize = 2
    MaxAttempts = 2
    MaxReturns = 2
    MaxCrashes = 1
SYMMETRY Alike
INVARIANTS SeatsHold TurnsAreFair
CHECK_DEADLOCK FALSE
