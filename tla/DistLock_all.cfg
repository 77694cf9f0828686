SPECIFICATION FairSpec
CONSTANTS
    t1 = t1
    t2 = t2
    Threads = {t1, t2}
    Nobody = Nobody
CHECK_DEADLOCK FALSE
INVARIANTS
    TypeOK
    Exclusion
    OwnerIsInside
PROPERTIES
    ComesFree
