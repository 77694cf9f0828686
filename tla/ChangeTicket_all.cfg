SPECIFICATION Spec
CONSTANTS
    r1 = r1
    r2 = r2
    n1 = n1
    n2 = n2
    n3 = n3
    Requests = {r1, r2}
    Numbers = {n1, n2, n3}
    None = None
    Faults = {"refused", "lost_reply", "no_number", "crash"}
    MaxTries = 2
SYMMETRY Alike
CHECK_DEADLOCK FALSE
INVARIANTS
    TypeOK
    ChangeHasTicket
    ClosedTruthfully
    LeftOpenExplained
    StopExplained
