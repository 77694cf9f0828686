SPECIFICATION Spec
CONSTANTS
    m1 = m1
    m2 = m2
    this = this
    other = other
    Systems = {"eos", "ios", "nxos", "junos"}
    Macs = {m1, m2}
    Vlans = {1, 2}
    NoVlan = 0
    Ports = {this, other}
    This = this
    Lines <- SomeLines
    MaxLines = 3
CHECK_DEADLOCK FALSE
INVARIANTS
    TypeOK
    NothingForeign
    NothingMissing
    CheckMeansPresence
