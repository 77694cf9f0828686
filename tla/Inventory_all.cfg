SPECIFICATION Spec
CONSTANTS
    bgA = bgA
    bgB = bgB
    devA = devA
    devB = devB
    type = type
    portA = portA
    portB = portB
    portNew = portNew
    vpc1 = vpc1
    vpc2 = vpc2
    vpcNew = vpcNew
    bubble = bubble
    vrf = vrf
    n1 = n1
    n2 = n2
    blue = blue
    s1 = s1
    s2 = s2
    Objects = {bgA, bgB, devA, devB, type, portA, portB, portNew, vpc1, vpc2, vpcNew, bubble, vrf}
    KindOf <- Kind
    RefersTo <- Foreign
    AtStart <- Begin
    VpcName <- NameOfVpc
    Names = {n1, n2, blue}
    Tags = {1, 2}
    Seeds = {s1, s2}
    SeedVlan <- SeedRows
    SeedBindings <- Carried
    SeedSubnets = {s2}
    Requests = {r1, r2, r3}
    Orders <- AllOrders
    Faults = {"crash"}
    Null = Null
CHECK_DEADLOCK FALSE
SYMMETRY Symmetry
INVARIANTS
    TypeOK
    References
    TagsDistinguish
    VpcHasOneVlan
    PendingExplained
    NativesExplained
