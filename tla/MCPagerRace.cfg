SPECIFICATION Spec
CONSTANTS
    Pages = {p1, p2}
    Frames = {f1, f2, f3}
    Ents = {e1, e2}
    Sectors = {s1, s2}
    Threads = {t1, t2}
    Vals = {0, 1}
    Zero = 0
    None = None
    Unmapped = Unmapped
    Racing = TRUE
PROPERTY IsMemory
