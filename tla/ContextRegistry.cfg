SPECIFICATION Spec
CONSTANTS
    g1 = g1
    g2 = g2
    h1 = h1
    h2 = h2
    s1 = s1
    s2 = s2
    s3 = s3
    r1 = r1
    r2 = r2
    r3 = r3
    c1 = c1
    t1 = t1
    t2 = t2
    w1 = w1
    d1 = d1
    a1 = a1
    p1 = p1
    m1 = m1
    m2 = m2
    Objects <- MCObjects
    Graphs <- MCGraphs
    KindOf <- MCKindOf
    NameOf <- MCNameOf
    GraphOf <- MCGraphOf
    Patches <- MCPatches
    Removable = {s3, r1, r2, r3, p1, m1, m2}
    Unattachable = {g2}
    MaxAttaches = 2
    NONE = NONE
INVARIANTS ReadersFindSource RemovedAreForgotten BusesReach
CHECK_DEADLOCK FALSE
