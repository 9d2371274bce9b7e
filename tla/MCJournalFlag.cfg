SPECIFICATION Spec
CONSTANTS
    f1 = f1
    f2 = f2
    b1 = b1
    b2 = b2
    Files = {f1, f2}
    Blocks = {b1, b2}
    Starts <- FilesBefore
    Log <- JournalBlocks
    Room = 4
    MaxOps = 2
    MaxCuts = 1
    MaxWork = 3
    Faults = {}
    None = None
INVARIANT FlagWhileNeeded
CHECK_DEADLOCK FALSE
