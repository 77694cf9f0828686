SPECIFICATION Spec
CONSTANTS
    Requests = {r1}
    big = big
    low = low
    high = high
    tiny = tiny
    vn = vn
    vj = vj
    ve = ve
    vi = vi
    vx = vx
    t1 = t1
    t2 = t2
    Cidrs <- Blocks
    Overlapping <- Sharing
    Small = {tiny}
    Ignored = {}
    Vlans <- AllVlans
    Routable = {vn, vj, ve, vi}
    OsOf <- OsOfAll
    Tables = {t1, t2}
    TableOf <- TableOfAll
    Elsewhere <- NobodyElse
    MaxSubnets = 2
    Orders <- TinyOrder
    InitialIfaces <- EmptyStart
    NoCidr = NoCidr
    Faults = {}
CHECK_DEADLOCK FALSE
INVARIANT
    SmallNeverPushed
