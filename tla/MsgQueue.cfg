SPECIFICATION FairSpec
CONSTANTS
    Putters = {p1, p2}
    Getters = {g1, g2}
    Controllers = {k1}
    Msgs = {a, b, c}
    MsgMax = 1
    SizeMax = 7
    NULL = NULL
INVARIANTS
    Inv
PROPERTIES
    HonestNull
    RefinesFifo
    EveryCallReturns
CHECK_DEADLOCK FALSE
