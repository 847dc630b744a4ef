SPECIFICATION Spec

CONSTANTS
    x1 = x1
    x2 = x2
    y1 = y1
    y2 = y2
    i0 = i0
    r1 = r1
    r2 = r2
    o1 = o1
    o2 = o2
    Nobody = Nobody
    d1 = d1
    d2 = d2
    k0 = k0
    Null = Null

SYMMETRY Symmetry
PROPERTIES
    ReviewKeepsItsEvidence
    TestsAndGoldenAreValidated
    FreezesAreWhole
CHECK_DEADLOCK FALSE
