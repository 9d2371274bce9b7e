SPECIFICATION AllSpec
CONSTANTS
    f1 = f1
    f2 = f2
    b1 = b1
    b2 = b2
    Files = {f1, f2}
    Blocks = {b1, b2}
    Starts <- FilesBefore
    Log <- JournalBlocks
    Room = 4
    MaxOps = 2
    MaxCuts = 2
    MaxWork = 3
    Faults = {"data", "dsync", "log", "lsync"}
    None = None
INVARIANTS StreamInOrder AckedIsThere EndIsTheEnd TimerIsOn
  
CHECK_DEADLOCK FALSE
