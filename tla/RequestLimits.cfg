SPECIFICATION Spec
CONSTANTS
    Requests = {r1, r2, r3}
    Addresses = {a1, a2}
    MaxConcurrent = 2
    IpLimit <- PerAddress
    SubnetLimit <- PerSubnet
    Quota <- OneADay
    Minute = 2
    Day = 3
    Horizon = 3
SYMMETRY Alike
INVARIANTS OvershootBounded NeighboursKeepTheirs
CHECK_DEADLOCK FALSE
