SPECIFICATION MCSpec
CONSTANTS
    t1 = t1
    t2 = t2
    t3 = t3
    t4 = t4
    l1 = l1
    l2 = l2
    l3 = l3
    Nobody = Nobody
    Threads <- RingThreads
    Locks <- RingLocks
    First <- RingFirst
    Second <- RingSecond
    Rounds <- RingRounds
INVARIANTS
    ReportsDeadlocks
    SearchFindsCycles
CHECK_DEADLOCK FALSE
