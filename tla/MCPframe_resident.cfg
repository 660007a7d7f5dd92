SPECIFICATION Spec
CONSTANTS
    a = a
    b = b
    c = c
    p1 = p1
    p2 = p2
    p3 = p3
    f1 = f1
    f2 = f2
    f3 = f3
    Clients = {a, b}
    Pageoutd = pageoutd
    Pages = {p1, p2, p3}
    Frames = {f1, f2}
    NoPage = NoPage
    NoFrame = NoFrame
    Nobody = Nobody
    MaxWrites = 1
    MaxErrors = 0
    MaxDrift = 1
SYMMETRY MCSymmetry
INVARIANTS
    GotPageIsResident
CHECK_DEADLOCK FALSE
