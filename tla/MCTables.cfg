SPECIFICATION Spec
CONSTANTS
    None = None
    N = 5
    Prots <- Rights
    DevProts <- DevRights
    VmaLimit = 4
    VmLimit = 4
    Threads = {t1}
    Total = 10
    Byte = 3
    MaxN = 3
    Tasks = {p, q, r}
    W = 16
    Credit = 2
    Turn = 2
    Horizon = 5
    Apps = {a, b}
    High <- HighFrames
    Heap <- HeapFrames
    Limit = 3
    PoolLimit = 4
SYMMETRY Symm
INVARIANTS RangesAreMap FindExact SectorsExact FindsIfAny  FramesHeldOnce BudgetsExact
PROPERTY LeastFirst
CHECK_DEADLOCK FALSE
