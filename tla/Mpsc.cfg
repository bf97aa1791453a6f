SPECIFICATION MCSpec
CONSTANTS
    Producers = {p1, p2, p3}
    Items = {a, b}
    Nodes = {n1, n2, n3, n4}
    NULL = NULL
    c = c
    d = d
    dummy = dummy
INVARIANTS
    Inv
PROPERTIES
    MissIsHonest
    RefinesFifo
    LinksInOrder
    AllDelivered
CHECK_DEADLOCK FALSE
