SPECIFICATION Spec
CONSTANTS
    l1 = l1
    l2 = l2
    l3 = l3
    p1 = p1
    p2 = p2
    b1 = b1
    Nil = Nil
    Lookups <- MCLookups
    Products <- MCProducts
    Blocks <- MCBlocks
    MaxCalls = 2
SYMMETRY MCSymmetry
INVARIANT
    PaymentsAccounted
