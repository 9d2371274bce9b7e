SPECIFICATION LiveSpec
CONSTANTS
    NTasks = 2
    W = 8
    MaxSleep = 1
    MaxLate = 1
    Cores = {c1}
    None = None
INVARIANTS WakeSeen
PROPERTIES NotEarly SleepEnds
