SPECIFICATION LiveSpec
CONSTANTS
    c0 = c0
    c1 = c1
    s1 = s1
    K = K
    None = None
    f1 = f1
    f2 = f2
    p1 = p1
    e1 = e1
    d1 = d1
    Unmapped = Unmapped
PROPERTIES ShootdownEnds ReadEnds
