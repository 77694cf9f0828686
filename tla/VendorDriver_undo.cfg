SPECIFICATION Spec
CONSTANTS
    Requests = {r1, r2}
    all = all
    prod = prod
    Names = {all, prod}
    Tags <- SomeTags
    Carries <- Stands
    AllVlans = all
    Hyphened = {prod}
    Labels = {"server", "shutdown-soon"}
    OffLabels = {"shutdown-soon"}
    NoVlan = 0
    Switches <- OneEos
    Ops <- AdminOps
    InitialConfigs <- SomeConfigs
    Faults = {}
CHECK_DEADLOCK FALSE
SYMMETRY Symmetry
INVARIANT RollbackRestoresAdmin
