SPECIFICATION Spec
CONSTANTS
    Requests = {r1, r2}
    big = big
    low = low
    high = high
    tiny = tiny
    vn = vn
    vj = vj
    ve = ve
    vi = vi
    vx = vx
    t1 = t1
    t2 = t2
    Cidrs <- Blocks
    Overlapping <- Sharing
    Small = {tiny}
    Ignored = {}
    Vlans <- AllVlans
    Routable = {vn, vj, ve, vi}
    OsOf <- OsOfAll
    Tables = {t1, t2}
    TableOf <- TableOfAll
    Elsewhere <- TinyElsewhere
    MaxSubnets = 2
    Orders <- WideOrders
    InitialIfaces <- Starts
    NoCidr = NoCidr
    Faults = {"device", "crash"}
CHECK_DEADLOCK FALSE
SYMMETRY Symmetry
INVARIANTS
    TypeOK
    NoOverlap
    RowsConfigured
    FailureExplained
PROPERTY
    WithinLimit
