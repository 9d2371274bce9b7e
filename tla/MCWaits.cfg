SPECIFICATION AllSpec
CONSTANTS
    None = None
    Nil = Nil
    t1 = t1
    t2 = t2
    t3 = t3
    Threads = {t1, t2, t3}
    Setups <- Contended
    Callers = {t1, t2, t3}
    Objects = {"cond", "rwlock", "barrier", "sem", "once"}
    Posters = {t3}
    Calls = 2
    Tasks = {t1, t2}
    Drivers = {"nvme", "ahci", "virtio"}
    QDEPTH = 3
    MaxCmds = 4
    MaxLate = 1
INVARIANTS RwExclusive BarrierTogether CountedOnce OneAtATime AnswerIsOwn
PROPERTIES IsLock WaitsEnd
CHECK_DEADLOCK FALSE
