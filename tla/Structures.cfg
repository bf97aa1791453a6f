SPECIFICATION MCSpec
CONSTANTS
    Keys = {1, 2, 3, 4}
    Readers = {r1}
    kMaxHeight_ = 2
    Delays = {0, 1, 2}
    MaxTimers = 3
    MaxClock = 3
    IntMax = 1
INVARIANTS
    StructuresAreSound
PROPERTIES
    FiresFirstAndNotEarly
    RefinesOrderedSet
    AllEnd
CHECK_DEADLOCK FALSE
