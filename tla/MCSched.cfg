SPECIFICATION AllSpec
CONSTANTS
    Tasks = {m, a, b}
    Main = m
    Idle = Idle
    None = None
    Aps = {c1}
    MaxPauses = 1
    Cores = {c0, c1}
    Boot = c0
    Spaces = {s1, s2}
    K = K
    Frames = {f1}
    NoPage = NoPage
    NSLOT = 1
    Machines <- Small
INVARIANTS TypeOK OneStack NoTaskLost PinnedStay  NoStaleTranslation KernelForgotten
PROPERTY QueueServed
