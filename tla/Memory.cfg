SPECIFICATION MCSpec
CONSTANTS
    RingBytes = {0, 1}
    RingSizes = {1, 3, 4}
    Modulus = 8
    MaxAdd = 3
    MAX_PAGE_SIZE = 17
    MinBlock = 3
    PtrSize = 2
    BlockSizes = {1, 3, 4, 6, 17}
    Max = 4
    MaxNodes = 3
    LeakThreads = {t1, t2, t3}
    HookThreads = {t1, t2}
    Addr = {a1, a2, a3}
    None = None
    Limits = {1, 3}
    MaxMallocs = 3
    Bytes = {"a", "A", "0"}
    NUL = "0"
    Lower <- MCLower
    Upper <- MCUpper
    Cset = {"a"}
    SDS_MAX_PREALLOC = 2
    FirstBuf = 2
    MaxLen = 4
INVARIANTS
    RingKeepsBytes
    PoolsAreDisjoint
    FilesTellLeaks
    StringsHold
CHECK_DEADLOCK FALSE
