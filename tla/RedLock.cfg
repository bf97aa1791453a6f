SPECIFICATION Spec
CONSTANTS
    Clients = {c1, c2}
    Continuers = {c2}
    NServers = 3
    Ttl = 4
    SecLen = 3
    RetryCount = 2
    Delays = {2}
    MaxTime = 4
    MaxCalls = 2
    MaxBroken = 1
INVARIANTS
    RedLockInv
    MutualExclusion
    ValidityIsHonest
    NothingLeftBehind
CHECK_DEADLOCK FALSE
