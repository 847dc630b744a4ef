SPECIFICATION Spec

CONSTANTS
    x1 = x1
    x2 = x2
    c1 = c1
    c2 = c2
    l1 = l1
    l2 = l2
    i0 = i0
    e0 = e0
    k0 = k0
    s1 = s1
    s2 = s2

SYMMETRY Symmetry
INVARIANTS
    DrawsAreFair
PROPERTIES
    ClosureIsTheCoding
    TaxonomyKeepsItsPast
    PromotionsRestOnTheClosure
CHECK_DEADLOCK FALSE
