SPECIFICATION ForkSpec
CONSTANTS
    Cores = {c0, c1}
    Boot = c0
    Spaces = {s1, s2}
    K = K
    Frames = {f1, f2}
    NoPage = NoPage
    NSLOT = 1
    Machines <- Forking
INVARIANT NoStaleTranslation
