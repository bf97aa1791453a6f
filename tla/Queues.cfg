SPECIFICATION MCSpec
CONSTANTS
    Items = {a, b, c}
    Consumers = {k1, k2, k3}
    None = None
    a1 = a1
    c1 = c1
    Adders = {a1, a2}
    Checkers = {c1, c2}
    WorkItems <- TestItems
    Work <- TestWork
    Accepts <- Parity
    BatchMax = 3
INVARIANTS
    Inv
PROPERTIES
    CancelHonoured
    RefinesFifo
    ItemsInOrder
    AllTaken
CHECK_DEADLOCK FALSE
