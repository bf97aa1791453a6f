SPECIFICATION Spec
CONSTANTS
    Clients = {c1, c2}
    Continuers = {c1, c2}
    NServers = 1
    Ttl = 14000
    SecLen = 1000
    RetryCount = 3
    Delays = {999, 13001}
    MaxTime = 30000
    MaxCalls = 2
    MaxBroken = 0
INVARIANTS
    ValidityIsHonest
CHECK_DEADLOCK FALSE
