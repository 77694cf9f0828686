SPECIFICATION FairSpec
CONSTANTS
    Ports = {p1}
    p1 = p1
    p2 = p2
    Requests = {r1, r2}
    a1 = a1
    a2 = a2
    v1 = v1
    v2 = v2
    vBad = vBad
    Deployments <- AnyDriver
    Labels = {a1, a2}
    OffLabels = {a2}
    TagsOf <- SomeTags
    NativeOf <- SomeNatives
    Vlans = {v1, v2, vBad}
    NoTag = NoTag
    KnownVlans = {v1, v2}
    NoVlans = NoVlans
    NoLabel = NoLabel
    Absent = Absent
    NoReq = NoReq
    Payloads <- MixedPayloads
    InitialRows <- OneRow
    Faults = {"device", "link", "crash", "dbdeadlock"}
    MaxDeadlocks = 1
CHECK_DEADLOCK FALSE
PROPERTY
    Termination
