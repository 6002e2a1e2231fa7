SPECIFICATION FairSpec
CONSTANTS
    b1 = b1
    v1 = v1
    v2 = v2
    NoBill = NoBill
    Loaders = {c1, op}
    Workers = {c1}
    Bills <- One
    Votes <- Either
    BillOf <- OfBill
    Zips <- Exports
    Payloads <- Synced
    MaxMishaps = 1
    Jurisdictions = {new, old}
    Booted = new
    Validators = {w1}
    Batch = 1
INVARIANTS LoadedWhole VotesAnnouncedOnce
PROPERTY StaleGreenRejudged
CHECK_DEADLOCK FALSE
