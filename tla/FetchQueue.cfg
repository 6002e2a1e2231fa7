\* Two crawl workers and the browser over one document and one job at a time.
SPECIFICATION FairSpec
CONSTANTS
    Docs = {d1}
    Jobs = {j1}
    Workers = {w1, w2}
    MaxAttempts = 2
    MaxFetchAttempts = 2
    TopupFloor = 1
    MaxMishaps = 1
INVARIANTS ChargesEarned
PROPERTIES SpentRests JobsEnd DocumentsSettle
CHECK_DEADLOCK FALSE
