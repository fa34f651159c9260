---------------------------- MODULE MCIAPRouting ----------------------------
EXTENDS IAPRouting, TLC

CONSTANTS l1, l2, l3, p1, p2, b1

MCLookups == {l1, l2, l3}
MCProducts == {p1, p2}
MCBlocks == {b1}

\* Lookup slots are interchangeable, and so are products.
MCSymmetry == Permutations(MCLookups) \cup Permutations(MCProducts)
=============================================================================
