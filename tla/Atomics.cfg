SPECIFICATION AtomicsSpec
CONSTANTS
    Threads = {t1, t2, t3}
    Tryers = {t3}
    Num = 2
INVARIANTS
    LockInv
    OrdersSuffice
PROPERTIES
    RefinesCounter
    AutoincEnds
CHECK_DEADLOCK FALSE
