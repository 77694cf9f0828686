SPECIFICATION Spec
CONSTANTS
    Requests = {r1, r2}
    all = all
    prod = prod
    Names = {all, prod}
    Tags <- SomeTags
    Carries <- Stands
    AllVlans = all
    Hyphened = {prod}
    Labels = {"server", "shutdown-soon"}
    OffLabels = {"shutdown-soon"}
    NoVlan = 0
    Switches <- AllSwitches
    Ops <- SomeOps
    InitialConfigs <- SomeConfigs
    Faults = {"read", "push", "ignored", "link", "reload"}
CHECK_DEADLOCK FALSE
SYMMETRY Symmetry
INVARIANTS
    TypeOK
    OkMeansDone
    FailureExplained
    OkSurvivesReload
PROPERTY
    Promised
