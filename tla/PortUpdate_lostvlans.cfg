SPECIFICATION Spec
CONSTANTS
    Ports = {p1}
    p1 = p1
    p2 = p2
    Requests = {r1}
    a1 = a1
    a2 = a2
    v1 = v1
    v2 = v2
    vBad = vBad
    Deployments <- Nexus
    Labels = {a1, a2}
    OffLabels = {a2}
    TagsOf <- SomeTags
    NativeOf <- SomeNatives
    Vlans = {v1, v2, vBad}
    NoTag = NoTag
    KnownVlans = {v1, v2}
    NoVlans = NoVlans
    NoLabel = NoLabel
    Absent = Absent
    NoReq = NoReq
    Payloads <- PlainFlips
    InitialRows <- OneRow
    Faults = {"device", "dbdeadlock"}
    MaxDeadlocks = 1
CHECK_DEADLOCK FALSE
PROPERTY
    RollbackRestoresVlans
